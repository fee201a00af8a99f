---------------------- MODULE ThinkingProfiles_proofs ----------------------
(***************************************************************************)
(* For every set of contracts, suffixes and client bodies: the fields that *)
(* are written for a model are what the contract cached for it offers, and *)
(* say what the suffix asked for.                                          *)
(***************************************************************************)
EXTENDS ThinkingProfiles, TLAPS

\* A contract as it is cached: with levels, and without blank mappings.
IsProfile(c) ==
    /\ IsContract(c)
    /\ c.levels # {}
    /\ \A k \in DOMAIN c.map : c.map[k] # ""

Cached == \A m \in Models : profiles[m] = NoContract \/ IsProfile(profiles[m])

\* The inductive invariant: what is on its way is a list of contracts, and what is
\* cached are profiles.
IInv == /\ catalogue \in Catalogues
        /\ fetch \in [Auths -> Fetches \cup {NoFetch}]
        /\ Cached

\* What storeThinkingProfile keeps of a contract is a profile.
LEMMA ProfileIsContract ==
    ASSUME NEW c \in Offers, NEW old
    PROVE  Profile(c, old) = NoContract \/ IsProfile(Profile(c, old))
<1>1. CASE c = NoContract \/ c.levels = {}
  BY <1>1 DEF Profile
<1>2. CASE ~(c = NoContract \/ c.levels = {})
  <2>1. c \in Contracts
    BY <1>2 DEF Offers
  <2>2. IsContract(c)
    BY <2>1, ThinkingAssumption
  <2> DEFINE map == [l \in {k \in DOMAIN c.map : c.map[k] # ""} |-> c.map[l]]
  <2>3. Profile(c, old) = [c EXCEPT !.map = map]
    BY <1>2 DEF Profile
  <2>4. DOMAIN map \subseteq DOMAIN c.map /\ \A k \in DOMAIN map : map[k] # ""
    OBVIOUS
  <2> HIDE DEF map
  <2> QED
    BY <1>2, <2>2, <2>3, <2>4 DEF IsContract, IsProfile
<1> QED
  BY <1>1, <1>2

\* The lists a catalogue may become.
LEMMA CatalogueAfter ==
    ASSUME NEW cat \in Catalogues, NEW m \in Models
    PROVE  /\ \A c \in Offers : [k \in DOMAIN cat \cup {m} |->
                                    IF k = m THEN c ELSE cat[k]] \in Catalogues
           /\ [k \in DOMAIN cat \ {m} |-> cat[k]] \in Catalogues
<1>1. PICK listing \in SUBSET Models : cat \in [listing -> Offers]
  BY DEF Catalogues
<1>2. ASSUME NEW c \in Offers
      PROVE  [k \in DOMAIN cat \cup {m} |-> IF k = m THEN c ELSE cat[k]] \in Catalogues
  <2>1. [k \in DOMAIN cat \cup {m} |-> IF k = m THEN c ELSE cat[k]]
           \in [listing \cup {m} -> Offers]
    BY <1>1
  <2> QED
    BY <1>1, <2>1 DEF Catalogues
<1>3. [k \in DOMAIN cat \ {m} |-> cat[k]] \in Catalogues
  <2>1. [k \in DOMAIN cat \ {m} |-> cat[k]] \in [listing \ {m} -> Offers]
    BY <1>1
  <2> QED
    BY <1>1, <2>1 DEF Catalogues
<1> QED
  BY <1>2, <1>3

\* A set of the six efforts that is not empty has a least one.
LEMMA LeastOfSix ==
    ASSUME NEW S, S \subseteq 1..6, S # {}
    PROVE  \E i \in S : \A j \in S : i <= j
<1>1. CASE 1 \in S
  BY <1>1
<1>2. CASE 2 \in S /\ 1 \notin S
  BY <1>2
<1>3. CASE 3 \in S /\ S \cap 1..2 = {}
  BY <1>3
<1>4. CASE 4 \in S /\ S \cap 1..3 = {}
  BY <1>4
<1>5. CASE 5 \in S /\ S \cap 1..4 = {}
  BY <1>5
<1>6. CASE S = {6}
  BY <1>6
<1>7. 1..6 = {1, 2, 3, 4, 5, 6}
  OBVIOUS
<1>8. 1..2 = {1, 2} /\ 1..3 = {1, 2, 3} /\ 1..4 = {1, 2, 3, 4}
  OBVIOUS
<1> QED
  BY <1>1, <1>2, <1>3, <1>4, <1>5, <1>6, <1>7, <1>8, Zenon

\* There is a least canonical effort, where the model offers one.
LEMMA LowestOffered ==
    ASSUME NEW c, NEW i \in DOMAIN Ordered, Ordered[i] \in c.levels
    PROVE  /\ LowestLevel(c) \in c.levels \ Off
           /\ (\A j \in 1..(i - 1) : Ordered[j] \notin c.levels)
                 => LowestLevel(c) = Ordered[i]
<1> DEFINE offered == {j \in DOMAIN Ordered : Ordered[j] \in c.levels}
           least   == CHOOSE j \in offered : \A k \in offered : j <= k
<1>1. DOMAIN Ordered = 1..6 /\ \A j \in 1..6 : Ordered[j] \notin Off
  BY DEF Ordered, Off
<1>2. offered # {}
  OBVIOUS
<1>3. \E j \in offered : \A k \in offered : j <= k
  <2> HIDE DEF offered
  <2>1. offered \subseteq 1..6
    BY <1>1 DEF offered
  <2> QED
    BY <1>2, <2>1, LeastOfSix
<1>4. least \in offered /\ \A k \in offered : least <= k
  <2> HIDE DEF offered
  <2> QED
    BY <1>3
<1>5. LowestLevel(c) = Ordered[least]
  BY <1>2 DEF LowestLevel
<1>6. LowestLevel(c) \in c.levels \ Off
  BY <1>1, <1>4, <1>5
<1>7. ASSUME \A j \in 1..(i - 1) : Ordered[j] \notin c.levels
      PROVE  LowestLevel(c) = Ordered[i]
  <2>1. least \in 1..6 /\ Ordered[least] \in c.levels
    BY <1>1, <1>4
  <2>2. least <= i /\ ~(least < i)
    BY <1>1, <1>4, <1>7, <2>1
  <2> QED
    BY <1>1, <1>5, <2>1, <2>2
<1> HIDE DEF least
<1> QED
  BY <1>6, <1>7

\* The least effort of a sane contract is one it offers, if need be its default.
LEMMA LowestIsOffered ==
    ASSUME NEW c, IsContract(c), Sane(c)
    PROVE  LowestLevel(c) \in c.levels \ Off
<1>1. CASE \E i \in DOMAIN Ordered : Ordered[i] \in c.levels
  BY <1>1, LowestOffered
<1>2. CASE ~ \E i \in DOMAIN Ordered : Ordered[i] \in c.levels
  <2>1. {i \in DOMAIN Ordered : Ordered[i] \in c.levels} = {}
    BY <1>2
  <2>2. LowestLevel(c) = IF c.default # "" THEN c.default ELSE "low"
    BY <2>1 DEF LowestLevel
  <2>3. c.default # ""
    BY ThinkingAssumption DEF IsContract, Sane
  <2> QED
    BY <2>2, <2>3 DEF Sane
<1> QED
  BY <1>1, <1>2

\* An intent is well formed: off means disabled, and nothing follows from none.
LEMMA IntentShape ==
    ASSUME NEW s
    PROVE  /\ Intent(s).disable \in BOOLEAN /\ Intent(s).given \in BOOLEAN
           /\ Intent(s).level \in Off => Intent(s).disable
           /\ ~Intent(s).given => ~Intent(s).disable /\ Intent(s).level = ""
<1> DEFINE i == Intent(s)
<1>1. CASE s \in Budgets
  <2>1. i = [level |-> "", disable |-> BudgetOf[s] = 0, given |-> TRUE]
    BY <1>1 DEF Intent
  <2> HIDE DEF i
  <2>2. i.level = "" /\ i.given = TRUE /\ i.disable \in BOOLEAN
    BY <2>1, Zenon
  <2> QED
    BY <2>2 DEF Off, i
<1>2. CASE s \notin Budgets /\ s \in Levels
  <2>1. i = [level |-> s, disable |-> s \in Off, given |-> TRUE]
    BY <1>2 DEF Intent
  <2> HIDE DEF i
  <2>2. i.level = s /\ i.given = TRUE
    BY <2>1
  <2>3. i.disable = (s \in Off)
    BY <2>1
  <2>4. i.disable \in BOOLEAN
    BY <2>3
  <2> QED
    BY <2>2, <2>3, <2>4 DEF i
<1>3. CASE s \notin Budgets /\ s \notin Levels
  <2>1. Intent(s) = NoIntent
    BY <1>3 DEF Intent
  <2>2. NoIntent.level = "" /\ NoIntent.disable = FALSE /\ NoIntent.given = FALSE
    BY DEF NoIntent
  <2> QED
    BY <2>1, <2>2 DEF Off
<1> QED
  BY <1>1, <1>2, <1>3

\* The cases of a decision exclude each other.
LEMMA DecisionCases ==
    ASSUME NEW c, NEW s, NEW e
    PROVE  LET i == Intent(s) IN
           /\ i.disable /\ c.canDisable => Decision(c, s, e) = Disabled
           /\ i.disable /\ ~c.canDisable =>
                 Decision(c, s, e) = Effort(Upstream(c, LowestLevel(c)))
           /\ ~i.disable /\ i.level # "" => Decision(c, s, e) = Offered(c, i.level)
           /\ i.given /\ i.level = "" /\ ~i.disable => Decision(c, s, e) = Default(c)
           /\ ~i.given =>
                 Decision(c, s, e) = IF e \in {Absent, Blank} THEN Untouched
                                                             ELSE Offered(c, e)
BY IntentShape DEF Decision

\* Every decision for a sane contract is off, where that can be, or an effort on
\* offer; but for a request that says nothing.
LEMMA DecisionOffered ==
    ASSUME NEW c, IsContract(c), Sane(c), NEW s, NEW e, e \notin Off
    PROVE  \/ /\ Decision(c, s, e) = Untouched
              /\ ~Intent(s).given /\ e \in {Absent, Blank}
           \/ Decision(c, s, e) = Disabled /\ c.canDisable
           \/ \E l \in c.levels \ Off : Decision(c, s, e) = Effort(Upstream(c, l))
<1> DEFINE i == Intent(s)
           d == Decision(c, s, e)
<1>1. i.disable \in BOOLEAN /\ i.given \in BOOLEAN
      /\ (i.level \in Off => i.disable) /\ (~i.given => ~i.disable /\ i.level = "")
  BY IntentShape
<1>2. \E l \in c.levels \ Off : Default(c) = Effort(Upstream(c, l))
  BY DEF Default, Sane
<1>3. ASSUME NEW level, level \notin Off
      PROVE  \E l \in c.levels \ Off : Offered(c, level) = Effort(Upstream(c, l))
  BY <1>2, <1>3 DEF Offered
<1>4. LowestLevel(c) \in c.levels \ Off
  BY LowestIsOffered
<1>d. /\ i.disable /\ c.canDisable => d = Disabled
      /\ i.disable /\ ~c.canDisable => d = Effort(Upstream(c, LowestLevel(c)))
      /\ ~i.disable /\ i.level # "" => d = Offered(c, i.level)
      /\ i.given /\ i.level = "" /\ ~i.disable => d = Default(c)
      /\ ~i.given => d = IF e \in {Absent, Blank} THEN Untouched ELSE Offered(c, e)
  BY DecisionCases
<1> HIDE DEF i, d
<1>5. CASE i.disable
  <2>1. CASE c.canDisable
    BY <1>5, <1>d, <2>1 DEF d
  <2>2. CASE ~c.canDisable
    BY <1>5, <1>d, <1>4, <2>2 DEF d
  <2> QED BY <2>1, <2>2
<1>6. CASE ~i.disable /\ i.level # ""
  <2>1. i.level \notin Off
    BY <1>1, <1>6
  <2> QED
    BY <1>6, <1>d, <1>3, <2>1 DEF d
<1>7. CASE ~i.disable /\ i.level = "" /\ i.given
  BY <1>7, <1>d, <1>2 DEF d
<1>8. CASE ~i.given
  BY <1>8, <1>d, <1>3 DEF d, i
<1> QED
  BY <1>1, <1>5, <1>6, <1>7, <1>8

\* What a decision makes of the body.
LEMMA BodySays ==
    ASSUME NEW c, c # NoContract, NEW s, NEW client
    PROVE  LET d    == Decision(c, s, client.effort)
               body == Body(c, s, client)
           IN  /\ d = Untouched => body = client
               /\ d = Disabled => SaysOff(c, body)
               /\ \A l : d = Effort(Upstream(c, l)) => SaysOn(c, body, l)
               /\ d # Untouched =>
                     /\ c.format # "deepseek" => body.thinking = client.thinking
                     /\ c.format # "qwen" => body.enable_thinking = client.enable_thinking
<1> DEFINE d == Decision(c, s, client.effort)
           body == Body(c, s, client)
<1>1. ASSUME d = Untouched PROVE body = client
  BY <1>1 DEF Body
<1>2. d # Untouched => body = Fields(c, d, client)
  BY DEF Body
<1>3. Disabled.kind = "off" /\ Untouched.kind = "untouched"
  BY DEF Disabled, Untouched
<1> HIDE DEF d, body
<1>4. ASSUME d = Disabled PROVE SaysOff(c, body)
  BY <1>2, <1>3, <1>4 DEF Fields, SaysOff
<1>5. ASSUME NEW l, d = Effort(Upstream(c, l)) PROVE SaysOn(c, body, l)
  <2>1. d.kind = "on" /\ d.effort = Upstream(c, l)
    BY <1>5 DEF Effort
  <2> QED
    BY <1>2, <1>3, <2>1 DEF Fields, SaysOn
<1>6. ASSUME d # Untouched
      PROVE  /\ c.format # "deepseek" => body.thinking = client.thinking
             /\ c.format # "qwen" => body.enable_thinking = client.enable_thinking
  BY <1>2, <1>6 DEF Fields
<1> QED
  BY <1>1, <1>4, <1>5, <1>6 DEF d, body

\* A sane contract accepts the fields of its format in every body made for it.
LEMMA BodyAccepted ==
    ASSUME NEW c, c # NoContract, IsContract(c), Sane(c), NEW s, NEW client,
           client.effort \notin Off
    PROVE  LET body == Body(c, s, client) IN
           \/ /\ s \notin Known /\ client.effort \in {Absent, Blank}
              /\ body = client
           \/ /\ \/ c.canDisable /\ SaysOff(c, body)
                 \/ \E l \in c.levels \ Off : SaysOn(c, body, l)
              /\ c.format # "deepseek" => body.thinking = client.thinking
              /\ c.format # "qwen" => body.enable_thinking = client.enable_thinking
<1> DEFINE d == Decision(c, s, client.effort)
           body == Body(c, s, client)
<1>1. /\ d = Untouched => body = client
      /\ d = Disabled => SaysOff(c, body)
      /\ \A l : d = Effort(Upstream(c, l)) => SaysOn(c, body, l)
      /\ d # Untouched =>
            /\ c.format # "deepseek" => body.thinking = client.thinking
            /\ c.format # "qwen" => body.enable_thinking = client.enable_thinking
  BY BodySays
<1>2. \/ /\ d = Untouched
         /\ ~Intent(s).given /\ client.effort \in {Absent, Blank}
      \/ d = Disabled /\ c.canDisable
      \/ \E l \in c.levels \ Off : d = Effort(Upstream(c, l))
  BY DecisionOffered
<1>3. ~Intent(s).given => s \notin Known
  BY DEF Intent, Known
<1>4. Disabled # Untouched /\ \A x : Effort(x) # Untouched
  <2>1. /\ Disabled.kind = "off" /\ Untouched.kind = "untouched"
        /\ \A x : Effort(x).kind = "on"
    BY DEF Disabled, Untouched, Effort
  <2> QED
    BY <2>1
<1> HIDE DEF d, body
<1> QED
  BY <1>1, <1>2, <1>3, <1>4 DEF body

\* How the suffixes are read.
LEMMA IntentOf ==
    ASSUME NEW s
    PROVE  /\ AsksOff(s) => Intent(s).disable
           /\ s \in Levels \ Off => Intent(s).level = s /\ ~Intent(s).disable
           /\ s \notin Known => Intent(s) = NoIntent
<1>1. ASSUME AsksOff(s) PROVE Intent(s).disable
  <2>1. CASE s \in Budgets
    <3>1. s \notin Off
      BY <2>1, ThinkingAssumption DEF Levels
    <3>2. BudgetOf[s] = 0
      BY <1>1, <3>1 DEF AsksOff
    <3>3. Intent(s).disable = (BudgetOf[s] = 0)
      BY <2>1 DEF Intent
    <3> QED
      BY <3>2, <3>3
  <2>2. CASE s \notin Budgets
    <3>1. s \in Off /\ s \in Levels
      BY <1>1, <2>2 DEF AsksOff, Levels
    <3>2. Intent(s).disable = (s \in Off)
      BY <2>2, <3>1 DEF Intent
    <3> QED
      BY <3>1, <3>2
  <2> QED
    BY <2>1, <2>2
<1>2. ASSUME s \in Levels \ Off PROVE Intent(s).level = s /\ ~Intent(s).disable
  <2>1. s \notin Budgets
    BY <1>2, ThinkingAssumption
  <2>2. Intent(s).level = s /\ Intent(s).disable = (s \in Off)
    BY <1>2, <2>1 DEF Intent
  <2> QED
    BY <1>2, <2>2
<1>3. ASSUME s \notin Known PROVE Intent(s) = NoIntent
  BY <1>3 DEF Intent, Known
<1> QED
  BY <1>1, <1>2, <1>3

\* The requirements of IntentHonoured for one contract and one request.
LEMMA IntentMet ==
    ASSUME NEW c, c # NoContract, IsContract(c), NEW s, NEW client
    PROVE  LET e    == client.effort
               body == Body(c, s, client)
           IN  /\ AsksOff(s) /\ c.canDisable => SaysOff(c, body)
               /\ AsksOff(s) /\ ~c.canDisable =>
                     \A i \in DOMAIN Ordered :
                         (/\ Ordered[i] \in c.levels
                          /\ \A j \in 1..(i - 1) : Ordered[j] \notin c.levels)
                         => SaysOn(c, body, Ordered[i])
               /\ s \in (c.levels \cap Levels) \ Off => SaysOn(c, body, s)
               /\ s \notin Known /\ e \in c.levels => SaysOn(c, body, e)
               /\ s \notin Known /\ e \in {Absent, Blank} => body = client
<1> DEFINE e == client.effort
           body == Body(c, s, client)
           d == Decision(c, s, e)
<1>b. /\ d = Untouched => body = client
      /\ d = Disabled => SaysOff(c, body)
      /\ \A l : d = Effort(Upstream(c, l)) => SaysOn(c, body, l)
  BY BodySays
<1>a. ASSUME Intent(s).disable
      PROVE  /\ c.canDisable => d = Disabled
             /\ ~c.canDisable => d = Effort(Upstream(c, LowestLevel(c)))
  BY <1>a, DecisionCases
<1>1. ASSUME AsksOff(s), c.canDisable PROVE d = Disabled
  BY <1>1, <1>a, IntentOf
<1>2. ASSUME AsksOff(s), ~c.canDisable, NEW i \in DOMAIN Ordered, Ordered[i] \in c.levels,
             \A j \in 1..(i - 1) : Ordered[j] \notin c.levels
      PROVE  d = Effort(Upstream(c, Ordered[i]))
  <2>1. LowestLevel(c) = Ordered[i]
    BY <1>2, LowestOffered
  <2> QED
    BY <1>2, <1>a, <2>1, IntentOf
<1>3. ASSUME s \in (c.levels \cap Levels) \ Off PROVE d = Effort(Upstream(c, s))
  <2>1. s \in Levels \ Off /\ s # ""
    BY <1>3, ThinkingAssumption
  <2>2. Intent(s).level = s /\ ~Intent(s).disable
    BY <2>1, IntentOf
  <2>3. d = Offered(c, s)
    BY <2>1, <2>2, DecisionCases
  <2> QED
    BY <1>3, <2>3 DEF Offered
<1>4. ASSUME s \notin Known
      PROVE  d = IF e \in {Absent, Blank} THEN Untouched ELSE Offered(c, e)
  <2>1. Intent(s) = NoIntent
    BY <1>4, IntentOf
  <2>2. ~NoIntent.disable /\ ~NoIntent.given /\ NoIntent.level = ""
    BY DEF NoIntent
  <2> QED
    BY <2>1, <2>2, DecisionCases
<1>5. ASSUME s \notin Known, e \in c.levels PROVE d = Effort(Upstream(c, e))
  <2>1. e \notin {Absent, Blank}
    BY <1>5, ThinkingAssumption DEF IsContract
  <2> QED
    BY <1>4, <1>5, <2>1 DEF Offered
<1>6. ASSUME s \notin Known, e \in {Absent, Blank} PROVE d = Untouched
  BY <1>4, <1>6
<1> HIDE DEF d, body, e
<1> QED
  BY <1>b, <1>1, <1>2, <1>3, <1>5, <1>6 DEF body, e

\* The cache starts empty.
LEMMA InitIInv == Init => IInv
BY DEF Init, IInv, Cached

\* Fetches bring contracts, and what is stored of one is a profile.
LEMMA NextIInv == IInv /\ [Next]_vars => IInv'
<1> SUFFICES ASSUME IInv, [Next]_vars PROVE IInv'
  OBVIOUS
<1> USE DEF IInv
<1>1. CASE UNCHANGED vars
  BY <1>1 DEF vars, Cached
<1>2. ASSUME NEW a \in Auths, List(a) \/ Refresh(a) PROVE IInv'
  BY <1>2 DEF List, Refresh, Answered, Cached, Fetches
<1>3. ASSUME NEW a \in Auths, Store(a) PROVE IInv'
  <2> DEFINE answer == fetch[a].answer
  <2>1. answer \in Catalogues
    BY <1>3 DEF Store, Fetches
  <2>2. \A m \in DOMAIN answer : answer[m] \in Offers
    BY <2>1 DEF Catalogues
  <2>3. \A m \in Models : profiles'[m] \in {profiles[m], Profile(answer[m], profiles[m])}
                          /\ (m \notin DOMAIN answer => profiles'[m] = profiles[m])
    BY <1>3 DEF Store
  <2> HIDE DEF answer
  <2>4. Cached'
    BY <2>2, <2>3, ProfileIsContract DEF Cached
  <2> QED
    BY <1>3, <2>4 DEF Store
<1>4. ASSUME NEW a \in Auths, FetchFails(a) \/ Expire(a) PROVE IInv'
  BY <1>4 DEF FetchFails, Expire, Cached
<1>5. ASSUME NEW m \in Models, Publish(m) PROVE IInv'
  BY <1>5, CatalogueAfter DEF Publish, Cached
<1>6. CASE Restart
  BY <1>6 DEF Restart, Cached
<1> QED
  BY <1>1, <1>2, <1>3, <1>4, <1>5, <1>6 DEF Next

\* The inductive invariant holds for ever.
LEMMA Inductive == Spec => []IInv
BY InitIInv, NextIInv, PTL DEF Spec

\* Whatever the gateway advertises, a cached profile has levels and no blank mapping
\* (storeThinkingProfile drops both), so that no level is sent as nothing.
THEOREM CachedContracts == Spec => []Cached
<1>1. IInv => Cached
  BY DEF IInv
<1> QED
  BY <1>1, Inductive, PTL

\* Whatever the gateway advertises, whatever a client puts into the body and however
\* fetches interleave, the fields of a request's own format are what the sane contract
\* it was shaped by offers.
THEOREM OwnFieldsAcceptedHolds == Spec => []OwnFieldsAccepted
<1>1. IInv => OwnFieldsAccepted
  <2> SUFFICES ASSUME IInv, NEW m \in Models, profiles[m] # NoContract,
                      Sane(profiles[m]), NEW s \in Suffixes, NEW client \in Clients,
                      client.effort \notin Off
               PROVE  LET c    == profiles[m]
                          body == Body(c, s, client)
                      IN  \/ /\ s \notin Known /\ client.effort \in {Absent, Blank}
                             /\ body = client
                          \/ /\ \/ c.canDisable /\ SaysOff(c, body)
                                \/ \E l \in c.levels \ Off : SaysOn(c, body, l)
                             /\ c.format # "deepseek" => body.thinking = client.thinking
                             /\ c.format # "qwen" =>
                                   body.enable_thinking = client.enable_thinking
    BY DEF OwnFieldsAccepted
  <2>1. IsContract(profiles[m])
    BY DEF IInv, Cached, IsProfile
  <2> QED
    BY <2>1, BodyAccepted
<1> QED
  BY <1>1, Inductive, PTL

\* The suffix, and without one the client's effort, is what the gateway reads.
THEOREM IntentHonouredHolds == Spec => []IntentHonoured
<1>1. IInv => IntentHonoured
  <2> SUFFICES ASSUME IInv, NEW m \in Models, profiles[m] # NoContract,
                      NEW s \in Suffixes, NEW client \in Clients
               PROVE  LET c == profiles[m]
                          e == client.effort
                          body == Body(c, s, client)
                      IN  /\ AsksOff(s) /\ c.canDisable => SaysOff(c, body)
                          /\ AsksOff(s) /\ ~c.canDisable =>
                                \A i \in DOMAIN Ordered :
                                    (/\ Ordered[i] \in c.levels
                                     /\ \A j \in 1..(i - 1) : Ordered[j] \notin c.levels)
                                    => SaysOn(c, body, Ordered[i])
                          /\ s \in (c.levels \cap Levels) \ Off => SaysOn(c, body, s)
                          /\ s \notin Known /\ e \in c.levels => SaysOn(c, body, e)
                          /\ s \notin Known /\ e \in {Absent, Blank} => body = client
    BY DEF IntentHonoured
  <2>1. IsContract(profiles[m])
    BY DEF IInv, Cached, IsProfile
  <2> QED
    BY <2>1, IntentMet
<1> QED
  BY <1>1, Inductive, PTL
=============================================================================
