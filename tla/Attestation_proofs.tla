------------------------- MODULE Attestation_proofs -------------------------
(***************************************************************************)
(* Proofs about the attestation token: types, the refresh lock, that what  *)
(* is handed out as fresh is honoured by the gateway, and that refreshes   *)
(* keep their distance after a failure.                                    *)
(***************************************************************************)
EXTENDS Attestation, FiniteSetTheorems, TLAPS

\* The constants as single facts; sums and comparisons need them as numbers.
LEMMA Constants ==
    /\ Margin \in Nat /\ Cooldown \in Nat /\ UnknownTTL \in Nat /\ Lifetime \in Nat
    /\ MaxLatency \in Nat /\ MaxTime \in Nat /\ MaxDevice \in Nat \ {0}
    /\ 1 <= MaxTime /\ MaxLatency < Margin /\ 0 < Cooldown
    /\ Margin < UnknownTTL /\ Margin + Cooldown <= UnknownTTL /\ UnknownTTL <= Lifetime
BY AttestationAssumption DEF AttestationAssumption

----------------------------------------------------------------------------
(* Type correctness *)

LEMMA SeededType ==
    ASSUME NEW e \in Entries, NEW s \in Files
    PROVE  Seeded(e, s) \in Entries
BY DEF Seeded, Entries, Files

LEMMA FreshUntilType ==
    ASSUME now \in 1..MaxTime, NEW expiresIn \in {0, Lifetime}
    PROVE  FreshUntil(expiresIn) \in Time /\ FreshUntil(expiresIn) > 0
BY Constants DEF FreshUntil, Time

\* A device's token, issued when the answer left the gateway.
LEMMA IssuedType ==
    ASSUME TypeOK, NEW p \in Procs, sa[p] \in Files, got[p].at <= MaxTime
    PROVE  Issued(p) \in Tokens
<1>1. /\ got[p].at \in 0..(MaxTime + Lifetime)
      /\ sa[p].device \in Devices
  BY DEF TypeOK, Answers, Files, Time
<1>2. got[p].at + Lifetime \in Time  BY <1>1, Constants DEF Time
<1> QED  BY <1>1, <1>2 DEF Issued, Tokens

LEMMA WithoutType ==
    ASSUME NEW s \in Files PROVE Without(s) \in Files
<1>1. 0 \in Time  BY Constants DEF Time
<1> QED  BY <1>1 DEF Without, Files, OptTokens

\* A call that has not returned has a credential; an answer is not from the
\* future and not older than its travel time.
Calls == \A p \in Procs : ~At(p, "idle") => sa[p] \in Files
Answered == \A p \in Procs : At(p, "arrive") =>
                /\ 1 <= got[p].at /\ got[p].at <= now /\ now <= got[p].at + MaxLatency

TInv == TypeOK /\ Calls /\ Answered

LEMMA NoThings == /\ NoEntry \in Entries /\ NoAnswer \in Answers
                  /\ 0 \in Time
BY Constants DEF NoEntry, NoAnswer, Entries, Answers, OptTokens, Time

LEMMA TInvInit == Init => TInv
<1> SUFFICES ASSUME Init PROVE TInv
  OBVIOUS
<1>1. file \in Files
  BY Constants DEF Init, Files, OptTokens, Tokens, Devices, Time
<1>2. TypeOK
  BY <1>1, NoThings, Constants DEF Init, TypeOK, Stages
<1>3. Calls /\ Answered
  BY DEF Init, Calls, Answered, At
<1> QED  BY <1>2, <1>3 DEF TInv

\* A return of attestationFor or handleAuthRefresh keeps the locals typed.
LEMMA ReturnType ==
    ASSUME TInv, NEW p \in Procs, Return(p), now' = now
    PROVE  /\ pc' \in [Procs -> Stages] /\ sa' \in [Procs -> Files \cup {NoCall}]
           /\ got' \in [Procs -> Answers] /\ Calls' /\ Answered'
BY NoThings DEF TInv, TypeOK, Return, Goto, Stages, Calls, Answered, At

LEMMA TInvStep == TInv /\ [Next]_vars => TInv'
<1> SUFFICES ASSUME TInv, [Next]_vars PROVE TInv'
  OBVIOUS
<1>0. TypeOK /\ Calls /\ Answered /\ now \in 1..MaxTime
  BY DEF TInv, TypeOK
<1>1. ASSUME NEW p \in Procs, Call(p) PROVE TInv'
  <2>1. \E s \in Files : sa' = [sa EXCEPT ![p] = s]
    BY <1>0, <1>1 DEF Call, TypeOK
  <2>2. \E stage \in {"decide", "fetch"} : pc' = [pc EXCEPT ![p] = stage]
    BY <1>1 DEF Call, Goto
  <2>3. TypeOK'
    BY <1>0, <1>1, <2>1, <2>2 DEF Call, TypeOK, Stages
  <2> QED  BY <1>0, <1>1, <2>1, <2>2, <2>3 DEF Call, TInv, TypeOK, Calls, Answered, At
<1>2. ASSUME NEW p \in Procs, Issue(p) PROVE TInv'
  <2>1. PICK declared \in {0, Lifetime} :
           got' = [got EXCEPT ![p] = [expiresIn |-> declared, at |-> now]]
    BY <1>2 DEF Issue
  <2>2. now \in Time  BY <1>0, Constants DEF Time
  <2>3. [expiresIn |-> declared, at |-> now] \in Answers  BY <2>2 DEF Answers
  <2>4. TypeOK'
    BY <1>0, <1>2, <2>1, <2>3 DEF Issue, Goto, TypeOK, Stages
  <2>5. Calls'
    BY <1>0, <1>2 DEF Issue, Goto, TypeOK, Calls, At
  <2>6. Answered'
    BY <1>0, <1>2, <2>1, Constants DEF Issue, Goto, TypeOK, Answered, At
  <2> QED  BY <2>4, <2>5, <2>6 DEF TInv
<1>3. ASSUME NEW p \in Users, Decide(p) PROVE TInv'
  <2>1. sa[p] \in Files /\ p \in Procs
    BY <1>0, <1>3 DEF Decide, Calls, At, Procs
  <2>2. entry' \in Entries
    BY <1>0, <1>3, <2>1, SeededType DEF Decide, TypeOK
  <2>3. CASE Return(p)
    BY <1>0, <1>3, <2>1, <2>2, <2>3, ReturnType DEF Decide, TInv, TypeOK
  <2>4. CASE Goto(p, "wait") /\ sa' = [sa EXCEPT ![p] = Without(@)] /\ UNCHANGED got
    <3>1. Without(sa[p]) \in Files  BY <2>1, WithoutType
    <3> QED
      BY <1>0, <1>3, <2>1, <2>2, <2>4, <3>1
         DEF Decide, Goto, TInv, TypeOK, Stages, Calls, Answered, At
  <2> QED  BY <1>3, <2>3, <2>4 DEF Decide
<1>4. ASSUME NEW p \in Users, Lock(p) PROVE TInv'
  BY <1>0, <1>4 DEF Lock, Goto, TInv, TypeOK, Stages, Calls, Answered, At, Procs
<1>5. ASSUME NEW p \in Users, Recheck(p) PROVE TInv'
  <2>1. CASE Return(p) /\ fetching' = Nobody
    BY <1>0, <1>5, <2>1, ReturnType DEF Recheck, TInv, TypeOK, Procs
  <2>2. CASE Goto(p, "fetch") /\ UNCHANGED <<fetching, sa, got>>
    BY <1>0, <1>5, <2>2
       DEF Recheck, Goto, TInv, TypeOK, Stages, Calls, Answered, At, Procs
  <2> QED  BY <1>5, <2>1, <2>2 DEF Recheck
<1>6. ASSUME NEW p \in Users, Store(p) PROVE TInv'
  <2>1. p \in Procs /\ sa[p] \in Files /\ got[p].at <= MaxTime
    BY <1>0, <1>6, Constants DEF Store, Calls, Answered, At, Procs, TypeOK, Answers, Time
  <2>2. Issued(p) \in Tokens /\ got[p].expiresIn \in {0, Lifetime}
    BY <1>0, <2>1, IssuedType DEF TypeOK, Answers
  <2>3. entry' \in Entries
    BY <1>0, <1>6, <2>2, FreshUntilType, NoThings DEF Store, Entries, OptTokens
  <2> QED  BY <1>0, <1>6, <2>1, <2>3, ReturnType DEF Store, TInv, TypeOK
<1>7. ASSUME NEW p \in Users, FetchFails(p) PROVE TInv'
  <2>1. now \in Time  BY <1>0, Constants DEF Time
  <2>2. entry' \in Entries
    BY <1>0, <1>7, <2>1 DEF FetchFails, TypeOK, Entries
  <2> QED  BY <1>0, <1>7, <2>1, <2>2, ReturnType DEF FetchFails, TInv, TypeOK, Procs
<1>8. ASSUME NEW p \in Refreshers, Refreshed(p) PROVE TInv'
  <2>1. p \in Procs /\ sa[p] \in Files /\ got[p].at <= MaxTime
    BY <1>0, <1>8, Constants DEF Refreshed, Calls, Answered, At, Procs, TypeOK, Answers, Time
  <2>2. Issued(p) \in Tokens /\ got[p].expiresIn \in {0, Lifetime}
    BY <1>0, <2>1, IssuedType DEF TypeOK, Answers
  <2> DEFINE s == WithToken(Issued(p), got[p].expiresIn)
  <2>3. s \in Files
    BY <1>0, <2>2, FreshUntilType DEF WithToken, Files, Tokens, OptTokens
  <2>4. Cached(entry, s) \in Entries
    BY <1>0, <2>3, NoThings DEF Cached, TypeOK, Entries, Files
  <2>5. file' \in Files /\ entry' \in Entries
    BY <1>0, <1>8, <2>3, <2>4 DEF Refreshed, TypeOK
  <2> QED  BY <1>0, <1>8, <2>1, <2>5, ReturnType DEF Refreshed, TInv, TypeOK
<1>9. ASSUME NEW p \in Refreshers, RefreshFails(p) PROVE TInv'
  BY <1>0, <1>9, ReturnType DEF RefreshFails, TInv, TypeOK, Procs
<1>w. ASSUME NEW p \in Refreshers, RefreshedWithout(p) PROVE TInv'
  <2>1. p \in Procs /\ sa[p] \in Files
    BY <1>0, <1>w DEF RefreshedWithout, Calls, At, Procs
  <2>2. file' \in Files
    BY <1>0, <1>w, <2>1 DEF RefreshedWithout, TypeOK
  <2> QED  BY <1>0, <1>w, <2>1, <2>2, ReturnType DEF RefreshedWithout, TInv, TypeOK
<1>l. ASSUME NEW p \in Refreshers, Listed(p) PROVE TInv'
  <2>1. p \in Procs /\ sa[p] \in Files /\ got[p].at <= MaxTime
    BY <1>0, <1>l, Constants DEF Listed, Calls, Answered, At, Procs, TypeOK, Answers, Time
  <2>2. Issued(p) \in Tokens /\ got[p].expiresIn \in {0, Lifetime}
    BY <1>0, <2>1, IssuedType DEF TypeOK, Answers
  <2>3. WithToken(Issued(p), got[p].expiresIn) \in Files
    BY <1>0, <2>2, FreshUntilType DEF WithToken, Files, Tokens, OptTokens
  <2>4. file' \in Files
    BY <1>0, <1>l, <2>3 DEF Listed, TypeOK
  <2> QED  BY <1>0, <1>l, <2>1, <2>4, ReturnType DEF Listed, TInv, TypeOK
<1>10. CASE Login
  <2>1. PICK d \in Devices :
           file' \in {[device |-> d, token |-> NoToken, expiresAt |-> 0],
                      WithToken([device |-> d, dies |-> now + Lifetime], Lifetime)}
    BY <1>10 DEF Login
  <2>2. now + Lifetime \in Time  BY <1>0, Constants DEF Time
  <2>3. file' \in Files
    BY <1>0, <2>1, <2>2, FreshUntilType, NoThings DEF WithToken, Files, Tokens, OptTokens
  <2> QED  BY <1>0, <1>10, <2>3 DEF Login, TInv, TypeOK, Calls, Answered, At
<1>11. CASE Restart
  BY <1>0, <1>11, NoThings DEF Restart, TInv, TypeOK, Stages, Calls, Answered, At
<1>12. CASE Tick
  <2>1. now' \in 1..MaxTime  BY <1>0, <1>12, Constants DEF Tick
  <2>2. Answered'
    BY <1>0, <1>12, Constants DEF Tick, Answered, At, TypeOK, Answers, Time
  <2> QED  BY <1>0, <1>12, <2>1, <2>2 DEF Tick, TInv, TypeOK, Calls, At
<1>13. CASE UNCHANGED vars
  BY <1>0, <1>13 DEF vars, TInv, TypeOK, Calls, Answered, At
<1> QED
  BY <1>1, <1>2, <1>3, <1>4, <1>5, <1>6, <1>7, <1>8, <1>9, <1>w, <1>l, <1>10, <1>11, <1>12,
     <1>13
     DEF Next

\* The variables keep their types, for any margins, cooldowns and lifetimes the
\* assumptions allow and any number of requests.
THEOREM TypeCorrect == Spec => []TypeOK
<1>1. TInv => TypeOK  BY DEF TInv
<1> QED  BY TInvInit, TInvStep, <1>1, PTL DEF Spec

----------------------------------------------------------------------------
(* The refresh lock *)

LEMMA LockStep == TInv /\ RefresherHoldsLock /\ [Next]_vars => RefresherHoldsLock'
<1> SUFFICES ASSUME TInv, RefresherHoldsLock, [Next]_vars PROVE RefresherHoldsLock'
  OBVIOUS
<1>0. /\ pc \in [Procs -> Stages] /\ Nobody \notin Users
      /\ Users \subseteq Procs /\ Users \cap Refreshers = {}
  BY AttestationAssumption DEF TInv, TypeOK, Procs
<1> USE DEF RefresherHoldsLock, At, Goto
<1>1. ASSUME NEW p \in Procs, Call(p) PROVE RefresherHoldsLock'
  BY <1>0, <1>1 DEF Call
<1>2. ASSUME NEW p \in Procs, Issue(p) PROVE RefresherHoldsLock'
  BY <1>0, <1>2 DEF Issue
<1>3. ASSUME NEW p \in Users, Decide(p) PROVE RefresherHoldsLock'
  BY <1>0, <1>3 DEF Decide, Return
<1>4. ASSUME NEW p \in Users, Lock(p) PROVE RefresherHoldsLock'
  BY <1>0, <1>4 DEF Lock
<1>5. ASSUME NEW p \in Users, Recheck(p) PROVE RefresherHoldsLock'
  BY <1>0, <1>5 DEF Recheck, Return
<1>6. ASSUME NEW p \in Users, Store(p) \/ FetchFails(p) PROVE RefresherHoldsLock'
  BY <1>0, <1>6 DEF Store, FetchFails, InFlight, Return
<1>7. ASSUME NEW p \in Refreshers,
             Refreshed(p) \/ RefreshedWithout(p) \/ Listed(p) \/ RefreshFails(p)
      PROVE RefresherHoldsLock'
  BY <1>0, <1>7 DEF Refreshed, RefreshedWithout, Listed, RefreshFails, Return
<1>8. CASE Login \/ Tick \/ UNCHANGED vars
  BY <1>8 DEF Login, Tick, vars
<1>9. CASE Restart
  BY <1>0, <1>9 DEF Restart
<1> QED  BY <1>1, <1>2, <1>3, <1>4, <1>5, <1>6, <1>7, <1>8, <1>9 DEF Next

LEMMA LockInit == Init => RefresherHoldsLock
BY AttestationAssumption DEF Init, RefresherHoldsLock, Procs

\* entry.fetching is held exactly by the request that is refreshing; no return
\* path leaves it locked, for any number of requests.
THEOREM LockHeldByRefresher == Spec => []RefresherHoldsLock
BY TInvInit, TInvStep, LockInit, LockStep, PTL DEF Spec

\* However many requests find the token stale, one of them refreshes it.
THEOREM OneRefresh == Spec => []SingleFlight
<1>1. RefresherHoldsLock => SingleFlight
  <2> SUFFICES ASSUME RefresherHoldsLock PROVE SingleFlight
    OBVIOUS
  <2> DEFINE F == {p \in Users : InFlight(p)}
  <2>1. F \subseteq {fetching}
    BY DEF RefresherHoldsLock, InFlight, At
  <2>2. IsFiniteSet({fetching}) /\ Cardinality({fetching}) = 1
    BY FS_Singleton
  <2>3. Cardinality(F) <= 1
    BY <2>1, <2>2, FS_Subset
  <2> QED  BY <2>3 DEF SingleFlight
<1> QED  BY LockHeldByRefresher, <1>1, PTL

----------------------------------------------------------------------------
(* Fresh means alive *)

\* The expiry a token is kept with overstates its life by no more than the time
\* its answer travelled, or it is unknown.
Honest(t, expiresAt) == t # NoToken => expiresAt <= t.dies + MaxLatency

HonestEntry == /\ Honest(entry.token, entry.expiresAt)
               /\ entry.token = NoToken => entry.expiresAt = 0
HonestFiles == /\ Honest(file.token, file.expiresAt)
               /\ \A p \in Procs : ~At(p, "idle") => Honest(sa[p].token, sa[p].expiresAt)

AInv == TInv /\ HonestEntry /\ HonestFiles

\* What is honest and not stale is honoured: the margin exceeds the travel time.
LEMMA HonestAlive ==
    ASSUME now \in Nat, NEW e \in Entries, Honest(e.token, e.expiresAt), ~Stale(e)
    PROVE  Alive(e.token)
<1>1. e.token \in Tokens /\ e.expiresAt \in Nat /\ now <= e.expiresAt - Margin
  BY Constants DEF Entries, OptTokens, Stale, Time
<1>2. e.token.dies \in Nat /\ e.expiresAt <= e.token.dies + MaxLatency
  BY <1>1, Constants DEF Honest, Tokens, Time, Stale
<1>3. now < e.token.dies  BY <1>1, <1>2, Constants
<1> QED  BY <1>3 DEF Alive, Stale

\* A token just received is kept with an honest expiry and is alive.
LEMMA IssuedHonest ==
    ASSUME TInv, NEW p \in Procs, At(p, "arrive")
    PROVE  /\ Honest(Issued(p), FreshUntil(got[p].expiresIn))
           /\ Alive(Issued(p)) /\ Issued(p) # NoToken
<1>1. /\ now \in 1..MaxTime /\ got[p].expiresIn \in {0, Lifetime} /\ got[p].at \in Nat
      /\ got[p].at <= now /\ now <= got[p].at + MaxLatency /\ sa[p] \in Files
  BY Constants DEF TInv, TypeOK, Calls, Answered, At, Answers, Time
<1>2. Issued(p) \in Tokens
  BY <1>1, Constants, IssuedType DEF TInv
<1>3. Issued(p) # NoToken  BY <1>2, AttestationAssumption
<1>4. Issued(p).dies = got[p].at + Lifetime  BY DEF Issued
<1>5. FreshUntil(got[p].expiresIn) <= now + Lifetime
  BY <1>1, Constants DEF FreshUntil
<1>6. FreshUntil(got[p].expiresIn) \in Nat  BY <1>1, Constants DEF FreshUntil
<1>7. Honest(Issued(p), FreshUntil(got[p].expiresIn))
  BY <1>1, <1>4, <1>5, <1>6, Constants DEF Honest
<1>8. now < Issued(p).dies  BY <1>1, <1>4, Constants
<1> QED  BY <1>3, <1>7, <1>8 DEF Alive

LEMMA SeededHonest ==
    ASSUME entry \in Entries, HonestEntry, NEW s \in Files, Honest(s.token, s.expiresAt)
    PROVE  /\ Honest(Seeded(entry, s).token, Seeded(entry, s).expiresAt)
           /\ Seeded(entry, s).token = NoToken => Seeded(entry, s).expiresAt = 0
<1>1. CASE entry.token = NoToken /\ s.token # NoToken
  <2>1. entry.expiresAt = 0  BY <1>1 DEF HonestEntry
  <2>2. /\ s.token \in Tokens /\ s.token.dies \in Nat /\ s.expiresAt \in Nat
        /\ s.expiresAt <= s.token.dies + MaxLatency
    BY <1>1, Constants DEF Files, Tokens, OptTokens, Time, Honest
  <2>3. /\ Seeded(entry, s).token = s.token
        /\ Seeded(entry, s).expiresAt \in {s.expiresAt, 0}
    BY <1>1, <2>1 DEF Seeded, Entries
  <2> QED  BY <1>1, <2>2, <2>3, Constants DEF Honest
<1>2. CASE ~(entry.token = NoToken /\ s.token # NoToken)
  BY <1>2 DEF HonestEntry, Seeded
<1> QED  BY <1>1, <1>2

LEMMA AInvInit == Init => AInv
<1> SUFFICES ASSUME Init PROVE AInv
  OBVIOUS
<1>1. HonestEntry  BY DEF Init, HonestEntry, Honest, NoEntry
<1>2. HonestFiles
  <2>1. file.expiresAt = 0 /\ file.token # NoToken => file.token.dies \in {0, Lifetime}
    BY DEF Init
  <2> QED  BY <2>1, Constants DEF Init, HonestFiles, Honest, At
<1> QED  BY <1>1, <1>2, TInvInit DEF AInv

LEMMA AInvStep == AInv /\ [Next]_vars => AInv'
<1> SUFFICES ASSUME AInv, [Next]_vars PROVE AInv'
  OBVIOUS
<1>0. /\ TInv /\ TInv' /\ HonestEntry /\ HonestFiles
      /\ TypeOK /\ pc \in [Procs -> Stages] /\ entry \in Entries /\ now \in 1..MaxTime
      /\ sa \in [Procs -> Files \cup {NoCall}]
      /\ Users \subseteq Procs /\ Refreshers \subseteq Procs
  BY TInvStep DEF AInv, TInv, TypeOK, Procs
\* A step that leaves the entry and the files alone, or ends p's call.
<1> DEFINE Quiet(p) == /\ file' = file
                       /\ \/ UNCHANGED <<pc, sa>>
                          \/ Return(p)
                          \/ \E stage : Goto(p, stage) /\ ~At(p, "idle") /\ sa' = sa
<1>a. ASSUME NEW p \in Procs, Quiet(p) PROVE HonestFiles'
  BY <1>0, <1>a DEF HonestFiles, Return, Goto, At
<1>1. ASSUME NEW p \in Procs, Call(p) PROVE AInv'
  <2>1. HonestEntry'  BY <1>0, <1>1 DEF Call, HonestEntry
  <2>2. sa' = [sa EXCEPT ![p] = file]
    BY <1>1 DEF Call
  <2>3. \A q \in Procs \ {p} : pc'[q] = pc[q] /\ sa'[q] = sa[q]
    BY <1>0, <1>1, <2>2 DEF Call, Goto
  <2>4. Honest(sa'[p].token, sa'[p].expiresAt)
    BY <1>0, <2>2 DEF HonestFiles
  <2>5. HonestFiles'
    BY <1>0, <1>1, <2>3, <2>4 DEF Call, HonestFiles, At
  <2> QED  BY <1>0, <2>1, <2>5 DEF AInv
<1>2. ASSUME NEW p \in Procs, Issue(p) PROVE AInv'
  <2>1. HonestEntry'  BY <1>0, <1>2 DEF Issue, HonestEntry
  <2>2. Quiet(p)  BY <1>2 DEF Issue, At
  <2> QED  BY <1>0, <1>a, <2>1, <2>2 DEF AInv
<1>3. ASSUME NEW p \in Users, Decide(p) PROVE AInv'
  <2>1. p \in Procs /\ sa[p] \in Files /\ Honest(sa[p].token, sa[p].expiresAt)
    BY <1>0, <1>3 DEF Decide, TInv, Calls, HonestFiles, At
  <2>2. HonestEntry'
    BY <1>0, <1>3, <2>1, SeededHonest DEF Decide, HonestEntry
  <2>3. CASE Return(p)
    <3>1. Quiet(p)  BY <1>3, <2>3 DEF Decide
    <3> QED  BY <1>0, <1>a, <2>1, <2>2, <3>1 DEF AInv
  <2>4. CASE Goto(p, "wait") /\ sa' = [sa EXCEPT ![p] = Without(@)]
    <3>1. sa'[p].token = NoToken  BY <1>0, <2>1, <2>4 DEF Without, Files
    <3>2. \A q \in Procs \ {p} : pc'[q] = pc[q] /\ sa'[q] = sa[q]
      BY <1>0, <2>1, <2>4 DEF Goto
    <3>3. HonestFiles'
      BY <1>0, <1>3, <3>1, <3>2 DEF Decide, HonestFiles, Honest, At
    <3> QED  BY <1>0, <2>2, <3>3 DEF AInv
  <2> QED  BY <1>3, <2>3, <2>4 DEF Decide
<1>4. ASSUME NEW p \in Users, Lock(p) PROVE AInv'
  <2>1. HonestEntry'  BY <1>0, <1>4 DEF Lock, HonestEntry
  <2>2. p \in Procs /\ Quiet(p)  BY <1>0, <1>4 DEF Lock, At
  <2> QED  BY <1>0, <1>a, <2>1, <2>2 DEF AInv
<1>5. ASSUME NEW p \in Users, Recheck(p) PROVE AInv'
  <2>1. HonestEntry'  BY <1>0, <1>5 DEF Recheck, HonestEntry
  <2>2. p \in Procs /\ Quiet(p)  BY <1>0, <1>5 DEF Recheck, At
  <2> QED  BY <1>0, <1>a, <2>1, <2>2 DEF AInv
<1>6. ASSUME NEW p \in Users, Store(p) PROVE AInv'
  <2>1. HonestEntry'
    BY <1>0, <1>6, IssuedHonest DEF Store, HonestEntry
  <2>2. p \in Procs /\ Quiet(p)  BY <1>0, <1>6 DEF Store
  <2> QED  BY <1>0, <1>a, <2>1, <2>2 DEF AInv
<1>7. ASSUME NEW p \in Users, FetchFails(p) PROVE AInv'
  <2>1. entry'.token = entry.token /\ entry'.expiresAt = entry.expiresAt
    BY <1>0, <1>7 DEF FetchFails, Entries
  <2>2. HonestEntry'  BY <1>0, <2>1 DEF HonestEntry, Honest
  <2>3. p \in Procs /\ Quiet(p)  BY <1>0, <1>7 DEF FetchFails
  <2> QED  BY <1>0, <1>a, <2>2, <2>3 DEF AInv
<1>8. ASSUME NEW p \in Refreshers, Refreshed(p) PROVE AInv'
  <2> DEFINE s == WithToken(Issued(p), got[p].expiresIn)
  <2>1. p \in Procs /\ got[p].expiresIn \in {0, Lifetime}
    BY <1>0 DEF TypeOK, Answers
  <2>2. Honest(s.token, s.expiresAt) /\ s.token # NoToken /\ s.expiresAt > 0
    BY <1>0, <1>8, <2>1, IssuedHonest, FreshUntilType DEF WithToken, Refreshed
  <2>3. HonestEntry'
    BY <1>8, <2>2 DEF Refreshed, Cached, HonestEntry
  <2>4. /\ Honest(file'.token, file'.expiresAt)
        /\ Return(p)
    BY <1>0, <1>8, <2>2 DEF Refreshed, HonestFiles
  <2>5. HonestFiles'
    BY <1>0, <2>4 DEF HonestFiles, Return, Goto, At
  <2> QED  BY <1>0, <2>3, <2>5 DEF AInv
<1>l. ASSUME NEW p \in Refreshers, Listed(p) PROVE AInv'
  <2> DEFINE s == WithToken(Issued(p), got[p].expiresIn)
  <2>1. p \in Procs /\ got[p].expiresIn \in {0, Lifetime}
    BY <1>0 DEF TypeOK, Answers
  <2>2. Honest(s.token, s.expiresAt)
    BY <1>0, <1>l, <2>1, IssuedHonest, FreshUntilType DEF WithToken, Listed
  <2>3. HonestEntry'
    BY <1>0, <1>l DEF Listed, HonestEntry
  <2>4. /\ Honest(file'.token, file'.expiresAt)
        /\ Return(p)
    BY <1>0, <1>l, <2>2 DEF Listed, HonestFiles
  <2>5. HonestFiles'
    BY <1>0, <2>4 DEF HonestFiles, Return, Goto, At
  <2> QED  BY <1>0, <2>3, <2>5 DEF AInv
<1>9. ASSUME NEW p \in Refreshers, RefreshFails(p) PROVE AInv'
  <2>1. HonestEntry'  BY <1>0, <1>9 DEF RefreshFails, HonestEntry
  <2>2. p \in Procs /\ Quiet(p)  BY <1>0, <1>9 DEF RefreshFails
  <2> QED  BY <1>0, <1>a, <2>1, <2>2 DEF AInv
<1>w. ASSUME NEW p \in Refreshers, RefreshedWithout(p) PROVE AInv'
  <2>1. HonestEntry'  BY <1>0, <1>w DEF RefreshedWithout, HonestEntry
  <2>2. p \in Procs /\ ~At(p, "idle") /\ Return(p)
    BY <1>0, <1>w DEF RefreshedWithout, At
  <2>3. Honest(file'.token, file'.expiresAt)
    BY <1>0, <1>w, <2>2 DEF RefreshedWithout, HonestFiles
  <2>4. HonestFiles'
    BY <1>0, <2>2, <2>3 DEF HonestFiles, Return, Goto, At
  <2> QED  BY <1>0, <2>1, <2>4 DEF AInv
<1>10. CASE Login
  <2>1. HonestEntry'  BY <1>0, <1>10 DEF Login, HonestEntry
  <2>2. Honest(file'.token, file'.expiresAt)
    BY <1>0, <1>10, Constants DEF Login, WithToken, Honest, FreshUntil
  <2>3. HonestFiles'
    BY <1>0, <1>10, <2>2 DEF Login, HonestFiles, At
  <2> QED  BY <1>0, <2>1, <2>3 DEF AInv
<1>11. CASE Restart
  BY <1>0, <1>11 DEF Restart, AInv, HonestEntry, HonestFiles, Honest, NoEntry, At
<1>12. CASE Tick
  BY <1>0, <1>12 DEF Tick, AInv, HonestEntry, HonestFiles, At
<1>13. CASE UNCHANGED vars
  BY <1>0, <1>13 DEF vars, AInv, HonestEntry, HonestFiles, At
<1> QED
  BY <1>1, <1>2, <1>3, <1>4, <1>5, <1>6, <1>7, <1>8, <1>9, <1>w, <1>l, <1>10, <1>11, <1>12,
     <1>13
     DEF Next

LEMMA AInvAlive == AInv => FreshMeansAlive
<1> SUFFICES ASSUME AInv, ~Stale(entry) PROVE Alive(entry.token)
  BY DEF FreshMeansAlive
<1>1. now \in Nat /\ entry \in Entries /\ Honest(entry.token, entry.expiresAt)
  BY Constants DEF AInv, TInv, TypeOK, HonestEntry
<1> QED  BY <1>1, HonestAlive

\* A token handed out without a refresh is honoured by the gateway, for every
\* margin that exceeds the travel time and every bound on unknown lifetimes that
\* does not exceed the real one.
THEOREM FreshIsAlive == Spec => []FreshMeansAlive
BY AInvInit, AInvStep, AInvAlive, PTL DEF Spec

\* attestationFor never returns a dead or empty token unless a refresh failed
\* within the cooldown.
THEOREM UsableOrFailing == Spec => UsableUnlessFailing
<1>1. ASSUME AInv, [Next]_vars, NEW p \in Users, Returns(p)
      PROVE  Alive(entry'.token) \/ Cooling(entry')
  <2>0. /\ now \in 1..MaxTime /\ now \in Nat /\ pc \in [Procs -> Stages]
        /\ entry \in Entries /\ p \in Procs /\ p \notin Refreshers
        /\ ~At(p, "idle") /\ pc'[p] = "idle" /\ ~Restart /\ TInv
    BY <1>1, Constants, AttestationAssumption DEF AInv, TInv, TypeOK, Procs, Returns
  <2>1. CASE Decide(p)
    <3>1. sa[p] \in Files /\ Honest(sa[p].token, sa[p].expiresAt)
      BY <1>1, <2>0 DEF AInv, TInv, Calls, HonestFiles
    <3>2. entry' = Seeded(entry, sa[p]) /\ Seeded(entry, sa[p]) \in Entries
      BY <2>0, <2>1, <3>1, SeededType DEF Decide
    <3>3. ~Stale(entry') \/ Cooling(entry')
      BY <2>0, <2>1, <3>2 DEF Decide, Goto
    <3>4. Honest(entry'.token, entry'.expiresAt)
      BY <1>1, <2>0, <3>1, <3>2, SeededHonest DEF AInv
    <3> QED  BY <2>0, <3>2, <3>3, <3>4, HonestAlive
  <2>2. CASE Recheck(p)
    <3>1. (~Stale(entry) \/ Cooling(entry)) /\ entry' = entry
      BY <2>0, <2>2 DEF Recheck, Goto
    <3> QED  BY <1>1, <3>1, AInvAlive DEF FreshMeansAlive
  <2>3. CASE Store(p)
    <3>1. entry'.token = Issued(p) /\ At(p, "arrive")
      BY <2>3 DEF Store
    <3> QED  BY <2>0, <3>1, IssuedHonest
  <2>4. CASE FetchFails(p)
    <3>1. entry'.lastFailure = now
      BY <2>0, <2>4 DEF FetchFails, Entries
    <3> QED  BY <2>0, <3>1, Constants DEF Cooling
  <2>5. ASSUME NEW q \in Procs, q # p,
               Call(q) \/ Issue(q) \/ Decide(q) \/ Lock(q) \/ Recheck(q) \/ Store(q)
                 \/ FetchFails(q) \/ Refreshed(q) \/ RefreshedWithout(q)
                 \/ Listed(q) \/ RefreshFails(q)
        PROVE  FALSE
    <3>1. \E stage : pc' = [pc EXCEPT ![q] = stage]
      BY <2>5 DEF Call, Issue, Decide, Lock, Recheck, Store, FetchFails, Refreshed,
                  RefreshedWithout, Listed, RefreshFails, Return, Goto
    <3> QED  BY <2>0, <2>5, <3>1 DEF At
  <2>6. CASE Call(p) \/ Issue(p) \/ Lock(p)
    BY <2>0, <2>6 DEF Call, Issue, Lock, Goto, At
  <2>7. CASE Login \/ Tick \/ UNCHANGED vars
    BY <2>0, <2>7 DEF Login, Tick, vars, At
  <2> QED
    BY <1>1, <2>0, <2>1, <2>2, <2>3, <2>4, <2>5, <2>6, <2>7 DEF Next, Procs
<1>2. ASSUME AInv, [Next]_vars
      PROVE  [\A p \in Users : Returns(p) => Alive(entry'.token) \/ Cooling(entry')]_vars
  BY <1>1, <1>2
<1> QED  BY AInvInit, AInvStep, <1>2, PTL DEF Spec, UsableUnlessFailing

----------------------------------------------------------------------------
(* The cooldown *)

\* A request's failure is remembered by the entry, until a token arrives that is
\* fresh for longer than the cooldown.
Spaced ==
    /\ failedAt <= now
    /\ failedAt = 0 \/ entry.lastFailure = failedAt
         \/ (entry.token # NoToken /\ entry.expiresAt >= failedAt + UnknownTTL)

\* A declared lifetime is not shorter than the one taken for an undeclared one.
LEMMA FreshForLong ==
    ASSUME TypeOK, NEW expiresIn \in {0, Lifetime}
    PROVE  /\ FreshUntil(expiresIn) \in Nat
           /\ FreshUntil(expiresIn) >= now + UnknownTTL
           /\ FreshUntil(expiresIn) > 0
BY Constants DEF FreshUntil, TypeOK

\* Only a failure, a fetched token, a seed and a restart touch what Spaced reads.
LEMMA SpacedStep == TInv /\ Spaced /\ [Next]_vars => Spaced'
<1> SUFFICES ASSUME TInv, Spaced, [Next]_vars PROVE Spaced'
  OBVIOUS
<1>0. /\ now \in Nat /\ failedAt \in Nat /\ entry \in Entries /\ TypeOK
      /\ entry.expiresAt \in Nat
  BY Constants DEF TInv, TypeOK, Time, Entries
<1>1. CASE UNCHANGED <<now, entry, failedAt>>
  BY <1>1 DEF Spaced
<1>2. ASSUME NEW p \in Users, Decide(p) PROVE Spaced'
  <2>1. /\ entry' = Seeded(entry, sa[p]) /\ now' = now /\ failedAt' = failedAt
    BY <1>2 DEF Decide
  <2>2. Seeded(entry, sa[p]).lastFailure = entry.lastFailure
    BY <1>0 DEF Seeded, Entries
  <2>3. entry.token # NoToken => entry' = entry
    BY <2>1 DEF Seeded
  <2> QED
    BY <2>1, <2>2, <2>3 DEF Spaced
<1>3. ASSUME NEW p \in Users, Store(p) PROVE Spaced'
  <2>1. /\ p \in Procs /\ got[p].expiresIn \in {0, Lifetime}
        /\ sa[p] \in Files /\ got[p].at <= MaxTime
    BY <1>0, <1>3, Constants
       DEF Store, TInv, TypeOK, Calls, Answered, At, Procs, Answers, Time
  <2>2. Issued(p) # NoToken
    BY <1>0, <2>1, IssuedType, AttestationAssumption
  <2>3. /\ entry'.token = Issued(p) /\ entry'.expiresAt = FreshUntil(got[p].expiresIn)
        /\ now' = now /\ failedAt' = failedAt
    BY <1>3 DEF Store
  <2> QED
    BY <1>0, <2>1, <2>2, <2>3, FreshForLong, Constants DEF Spaced
<1>4. ASSUME NEW p \in Users, FetchFails(p) PROVE Spaced'
  <2>1. entry'.lastFailure = now /\ failedAt' = now /\ now' = now
    BY <1>0, <1>4 DEF FetchFails, Entries
  <2> QED
    BY <1>0, <2>1 DEF Spaced
<1>5. ASSUME NEW p \in Refreshers, Refreshed(p) PROVE Spaced'
  <2>1. /\ p \in Procs /\ got[p].expiresIn \in {0, Lifetime}
        /\ sa[p] \in Files /\ got[p].at <= MaxTime
    BY <1>0, <1>5, Constants
       DEF Refreshed, TInv, TypeOK, Calls, Answered, At, Procs, Answers, Time
  <2>2. Issued(p) # NoToken
    BY <1>0, <2>1, IssuedType, AttestationAssumption
  <2> DEFINE s == WithToken(Issued(p), got[p].expiresIn)
  <2>3. entry' = Cached(entry, s) /\ now' = now /\ failedAt' = failedAt
    BY <1>5 DEF Refreshed
  <2>4. s.token = Issued(p) /\ s.expiresAt = FreshUntil(got[p].expiresIn)
    BY DEF WithToken
  <2>5. /\ entry'.token = Issued(p)
        /\ entry'.expiresAt = FreshUntil(got[p].expiresIn)
    BY <1>0, <2>1, <2>3, <2>4, FreshForLong DEF Cached
  <2> QED
    BY <1>0, <2>1, <2>2, <2>3, <2>5, FreshForLong, Constants DEF Spaced
<1>6. CASE Restart
  BY <1>0, <1>6 DEF Restart, Spaced
<1>7. CASE Tick
  BY <1>0, <1>7 DEF Tick, Spaced
<1>8. CASE Login
  BY <1>1, <1>8 DEF Login
<1>9. CASE UNCHANGED vars
  BY <1>1, <1>9 DEF vars
<1>10. ASSUME NEW p \in Procs, Call(p) \/ Issue(p) \/ Lock(p) \/ Recheck(p)
                                  \/ Listed(p) \/ RefreshedWithout(p)
                                  \/ RefreshFails(p)
       PROVE  Spaced'
  BY <1>1, <1>10 DEF Call, Issue, Lock, Recheck, Listed, RefreshedWithout,
                      RefreshFails
<1> QED
  BY <1>2, <1>3, <1>4, <1>5, <1>6, <1>7, <1>8, <1>9, <1>10 DEF Next, Procs

\* Once a request's refresh has failed, no request starts another within the
\* cooldown, for every cooldown that fits between the margin and the lifetime
\* assumed when none is declared (attestationFor's double check).
THEOREM RefreshesSpaced == Spec => RefreshesAreSpaced
<1>1. Init => Spaced
  BY DEF Init, Spaced
<1>2. ASSUME TInv, Spaced, [Next]_vars, NEW p \in Users,
             ~At(p, "fetch"), pc'[p] = "fetch"
      PROVE  failedAt = 0 \/ now - failedAt >= Cooldown
  <2>0. /\ now \in Nat /\ failedAt \in Nat /\ entry.expiresAt \in Nat
        /\ pc \in [Procs -> Stages] /\ p \in Procs /\ p \notin Refreshers
    BY <1>2, Constants, AttestationAssumption DEF TInv, TypeOK, Time, Entries, Procs
  <2>1. CASE Recheck(p)
    <3>1. Stale(entry) /\ ~Cooling(entry)
      BY <1>2, <2>0, <2>1 DEF Recheck, Return, Goto
    <3>2. CASE entry.lastFailure = failedAt
      BY <2>0, <3>1, <3>2, Constants DEF Cooling
    <3>3. CASE entry.token # NoToken /\ entry.expiresAt >= failedAt + UnknownTTL
      <4>1. now > entry.expiresAt - Margin
        BY <2>0, <3>1, <3>3, Constants DEF Stale
      <4> QED
        BY <2>0, <3>3, <4>1, Constants
    <3> QED
      BY <1>2, <3>2, <3>3 DEF Spaced
  <2>2. ASSUME NEW q \in Procs, q # p,
               Call(q) \/ Issue(q) \/ Decide(q) \/ Lock(q) \/ Recheck(q) \/ Store(q)
                 \/ FetchFails(q) \/ Refreshed(q) \/ RefreshedWithout(q)
                 \/ Listed(q) \/ RefreshFails(q)
        PROVE  FALSE
    <3>1. \E stage : pc' = [pc EXCEPT ![q] = stage]
      BY <2>2 DEF Call, Issue, Decide, Lock, Recheck, Store, FetchFails, Refreshed,
                  RefreshedWithout, Listed, RefreshFails, Return, Goto
    <3> QED  BY <1>2, <2>0, <2>2, <3>1 DEF At
  <2>3. ASSUME Call(p) \/ Issue(p) \/ Decide(p) \/ Lock(p) \/ Store(p)
                 \/ FetchFails(p) \/ Restart
        PROVE  FALSE
    BY <1>2, <2>0, <2>3
       DEF Call, Issue, Decide, Lock, Store, FetchFails, Restart, Return, Goto, At
  <2>4. ASSUME Login \/ Tick \/ UNCHANGED vars PROVE FALSE
    BY <1>2, <2>0, <2>4 DEF Login, Tick, vars, At
  <2> QED
    BY <1>2, <2>0, <2>1, <2>2, <2>3, <2>4 DEF Next, Procs
<1>3. ASSUME TInv, Spaced, [Next]_vars
      PROVE  [\A p \in Users : ~At(p, "fetch") /\ pc'[p] = "fetch" =>
                failedAt = 0 \/ now - failedAt >= Cooldown]_vars
  BY <1>2, <1>3
<1> QED
  BY <1>1, <1>3, TInvInit, TInvStep, SpacedStep, PTL DEF Spec, RefreshesAreSpaced
=============================================================================
