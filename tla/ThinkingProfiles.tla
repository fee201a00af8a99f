------------------------- MODULE ThinkingProfiles --------------------------
(***************************************************************************)
(* The thinking-profile cache: every fetch of /v1/models, for a listing, a *)
(* refresh or an attestation, stores the contract of each model; chat      *)
(* requests of all credentials are shaped by it, whatever was stored last. *)
(*                                                                         *)
(* A fetch is two steps: the gateway answers with its catalogue, and the   *)
(* answer is stored, so that answers can be overtaken.  The profiles of two*)
(* models are never read together, so an answer is stored in one step.     *)
(* A chat request reads the cache and changes nothing: the properties      *)
(* range over all requests that could be sent in a state.                  *)
(*                                                                         *)
(* The gateway lists the same contracts to every credential.  It may take  *)
(* a model from its list, and put it back.                                 *)
(***************************************************************************)
EXTENDS Thinking

CONSTANTS Models,     \* model ids
          Auths,      \* credentials of one gateway
          Efforts,    \* reasoning_effort values of clients, Absent for none
          NoFetch,    \* no fetch under way
          MaxUpsets   \* bound: changes of the catalogue and restarts together

Offers == Contracts \cup {NoContract}

\* A list of models: a model may be missing from it.
Catalogues == UNION {[listing -> Offers] : listing \in SUBSET Models}

Fetches == [by : {"listing", "refresh"}, answer : Catalogues]

\* What clients put into the body.
Clients == [thinking : {Absent, "enabled", "disabled"},
            enable_thinking : {Absent, "true", "false"},
            effort : Efforts]

ASSUME ProfilesAssumption ==
    /\ NoFetch \notin Fetches
    /\ MaxUpsets \in Nat

VARIABLES catalogue, \* gateway: the contract of each model it lists
          profiles,  \* thinkingProfiles; no entry is NoContract
          listed,    \* modelCache: credentials whose list is fresh
          fetch,     \* the answer each credential has on its way
          upsets     \* changes and restarts so far

vars == <<catalogue, profiles, listed, fetch, upsets>>

Init ==
    /\ catalogue \in Catalogues
    /\ profiles = [m \in Models |-> NoContract]
    /\ listed = {}
    /\ fetch = [a \in Auths |-> NoFetch]
    /\ upsets = 0

----------------------------------------------------------------------------
(* fetchModels *)

Answered(a, by) ==
    /\ fetch[a] = NoFetch
    /\ fetch' = [fetch EXCEPT ![a] = [by |-> by, answer |-> catalogue]]
    /\ UNCHANGED <<catalogue, profiles, listed, upsets>>

\* model.for_auth asks once the list it has is five minutes old.
List(a) == a \notin listed /\ Answered(a, "listing")

\* auth.refresh and fetchAttestation always ask.
Refresh(a) == Answered(a, "refresh")

\* A failed fetch changes nothing.
FetchFails(a) ==
    /\ fetch[a] # NoFetch
    /\ fetch' = [fetch EXCEPT ![a] = NoFetch]
    /\ UNCHANGED <<catalogue, profiles, listed, upsets>>

\* The models of the answer only: one the gateway no longer lists keeps its profile.
Store(a) ==
    /\ fetch[a] # NoFetch
    /\ LET answer == fetch[a].answer
       IN  profiles' = [m \in Models |->
                           IF m \in DOMAIN answer THEN Profile(answer[m], profiles[m])
                                                  ELSE profiles[m]]
    /\ listed' = IF fetch[a].by = "listing" THEN listed \cup {a} ELSE listed
    /\ fetch' = [fetch EXCEPT ![a] = NoFetch]
    /\ UNCHANGED <<catalogue, upsets>>

\* modelCacheTTL has passed.
Expire(a) ==
    /\ a \in listed
    /\ listed' = listed \ {a}
    /\ UNCHANGED <<catalogue, profiles, fetch, upsets>>

----------------------------------------------------------------------------
(* The gateway and the process *)

\* A model gets another contract, or is taken from the list.
Publish(m) ==
    /\ upsets < MaxUpsets
    /\ \/ \E c \in Offers : catalogue' = [k \in DOMAIN catalogue \cup {m} |->
                                            IF k = m THEN c ELSE catalogue[k]]
       \/ catalogue' = [k \in DOMAIN catalogue \ {m} |-> catalogue[k]]
    /\ upsets' = upsets + 1
    /\ UNCHANGED <<profiles, listed, fetch>>

Restart ==
    /\ upsets < MaxUpsets
    /\ profiles' = [m \in Models |-> NoContract]
    /\ listed' = {}
    /\ fetch' = [a \in Auths |-> NoFetch]
    /\ upsets' = upsets + 1
    /\ UNCHANGED catalogue

Next == \/ \E a \in Auths : \/ List(a) \/ Refresh(a) \/ Store(a)
                            \/ FetchFails(a) \/ Expire(a)
        \/ \E m \in Models : Publish(m)
        \/ Restart

Spec == Init /\ [][Next]_vars

\* The host refreshes credentials for ever (refreshIntervalSeconds), fetches
\* end, and not every fetch of a credential fails.
Fairness == \A a \in Auths : /\ WF_vars(Refresh(a))
                             /\ SF_vars(Store(a))

FairSpec == Spec /\ Fairness

----------------------------------------------------------------------------
(* Properties *)

\* The gateway's default is a level it offers, other than off.
Sane(c) == c.default \in c.levels \ Off

\* The body has thinking switched off; in the openai format by saying nothing.
SaysOff(c, body) ==
    /\ body.effort = Absent
    /\ c.format = "deepseek" => body.thinking = "disabled"
    /\ c.format = "qwen" => body.enable_thinking = "false"

\* The body has thinking switched on, with the effort of level l.
SaysOn(c, body, l) ==
    /\ body.effort = Upstream(c, l)
    /\ c.format = "deepseek" => body.thinking = "enabled"
    /\ c.format = "qwen" => body.enable_thinking = "true"

\* Whatever suffix and fields a client sends, the fields of a model's own format say
\* one thing that its contract offers, once the plugin shapes the request: off, where
\* it can be disabled, and then no effort, or on with the effort of an offered level
\* (applyThinking's "guessing fields is what produces 400s").  Fields of another
\* format, and the whole body of a request that says nothing, stay the client's.
\* Contracts with an unusable default and clients that send an effort of "off" are
\* excluded.
OwnFieldsAccepted ==
    \A m \in Models :
        profiles[m] # NoContract /\ Sane(profiles[m]) =>
            \A s \in Suffixes, client \in {k \in Clients : k.effort \notin Off} :
                LET c    == profiles[m]
                    body == Body(c, s, client)
                IN  \/ /\ s \notin Known /\ client.effort \in {Absent, Blank}
                       /\ body = client
                    \/ /\ \/ c.canDisable /\ SaysOff(c, body)
                          \/ \E l \in c.levels \ Off : SaysOn(c, body, l)
                       /\ c.format # "deepseek" => body.thinking = client.thinking
                       /\ c.format # "qwen" =>
                             body.enable_thinking = client.enable_thinking

AsksOff(s) == s \in Off \/ (s \in Budgets /\ BudgetOf[s] = 0)

\* What the suffix asks for is what the gateway reads in the fields of the model's
\* format, whatever the client put there: off, or the least canonical effort where
\* off is impossible; a canonical level the model offers.  Without a suffix that says
\* something an offered effort is kept, and a request that names none is left alone
\* (parseThinkingSuffix, applyThinking).
IntentHonoured ==
    \A m \in Models : profiles[m] # NoContract =>
        \A s \in Suffixes, client \in {k \in Clients : k.effort \notin Off} :
            LET c == profiles[m]
                e == client.effort
                body == Body(c, s, client)
            IN  /\ AsksOff(s) /\ c.canDisable => SaysOff(c, body)
                /\ AsksOff(s) /\ ~c.canDisable =>
                      \A i \in DOMAIN Ordered :
                          (/\ Ordered[i] \in c.levels
                           /\ \A j \in 1..(i - 1) : Ordered[j] \notin c.levels)
                          => SaysOn(c, body, Ordered[i])
                /\ s \in (c.levels \cap Levels) \ Off => SaysOn(c, body, s)
                /\ s \notin Known /\ e \in c.levels => SaysOn(c, body, e)
                /\ s \notin Known /\ e \in {Absent, Blank} => body = client

\* Once the gateway's catalogue and the process are left alone, the profiles follow
\* the catalogue for the models it lists, although an answer may be overtaken by a
\* newer one: a model that lost its levels loses its profile too (storeThinkingProfile).
\* A model that is no longer listed keeps the profile it had.
ProfilesCatchUp ==
    \A m \in Models : <>[](m \in DOMAIN catalogue =>
                              profiles[m] = Profile(catalogue[m], NoContract))

\* "No suffix: respect an explicit client reasoning_effort when the model supports
\* it" (applyThinking): a client that asks for off gets it where off is offered.
ExplicitOffIsOff ==
    \A m \in Models : profiles[m] # NoContract =>
        \A client \in {k \in Clients : k.effort \in Off} :
            client.effort \in profiles[m].levels /\ profiles[m].canDisable =>
                SaysOff(profiles[m], Body(profiles[m], NoSuffix, client))
=============================================================================
