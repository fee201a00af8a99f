-------------------------- MODULE UsageCache_proofs --------------------------
(***************************************************************************)
(* Proofs about the quota snapshot, for any number of requests, accounts,  *)
(* any TTL and any clock.                                                  *)
(***************************************************************************)
EXTENDS UsageCache, FiniteSetTheorems, TLAPS

----------------------------------------------------------------------------
(* Cards and snapshots *)

\* A list of cards is known by the accounts on it and what each card says.
LEMMA ReadingsAre ==
    ASSUME NEW S \in SUBSET Creds, NEW cards \in [S -> Times \cup {Unread}]
    PROVE  cards \in Readings
BY DEF Readings

LEMMA CardsOf ==
    ASSUME NEW cards \in Readings
    PROVE  /\ DOMAIN cards \subseteq Creds
           /\ \A c \in DOMAIN cards : cards[c] \in Times \cup {Unread}
BY DEF Readings

LEMMA NoCards == NoAccount \in Readings /\ DOMAIN NoAccount = {}
<1>1. NoAccount \in [{} -> Times \cup {Unread}]  BY DEF NoAccount
<1> QED  BY <1>1, ReadingsAre DEF NoAccount

\* One more card, or one replaced, leaves the others as they are.
LEMMA CardAdded ==
    ASSUME NEW cards \in Readings, NEW c \in Creds, NEW reading \in Times \cup {Unread}
    PROVE  LET new == WithCard(cards, c, reading) IN
           /\ new \in Readings
           /\ DOMAIN new = DOMAIN cards \cup {c}
           /\ \A d \in DOMAIN new : new[d] = IF d = c THEN reading ELSE cards[d]
<1> DEFINE new == WithCard(cards, c, reading)
<1>1. /\ DOMAIN new = DOMAIN cards \cup {c}
      /\ \A d \in DOMAIN new : new[d] = IF d = c THEN reading ELSE cards[d]
      /\ new = [d \in DOMAIN cards \cup {c} |-> new[d]]
  BY DEF WithCard
<1>2. /\ DOMAIN cards \cup {c} \in SUBSET Creds
      /\ \A d \in DOMAIN cards \cup {c} : new[d] \in Times \cup {Unread}
  BY <1>1, CardsOf
<1>3. new \in [DOMAIN cards \cup {c} -> Times \cup {Unread}]
  BY <1>1, <1>2
<1> QED  BY <1>1, <1>2, <1>3, ReadingsAre

----------------------------------------------------------------------------
(* Type correctness *)

\* An answer keeps the types of the request's locals, and so does its end.
LEMMA AnswerType ==
    ASSUME TypeOK, NEW r \in Requests, NEW s \in Snapshots, Answer(r, s)
    PROVE  /\ pc' \in [Requests -> Stages]
           /\ force' \in [Requests -> BOOLEAN]
           /\ requestedAt' \in [Requests -> Times]
           /\ todo' \in [Requests -> SUBSET Creds]
           /\ again' \in [Requests -> SUBSET Creds]
           /\ accounts' \in [Requests -> Readings]
           /\ answer' \in [Requests -> Snapshots \cup {NoSnapshot}]
BY NoCards DEF Answer, Goto, TypeOK, Stages

LEMMA DoneType ==
    ASSUME TypeOK, NEW r \in Requests, Done(r)
    PROVE  /\ pc' \in [Requests -> Stages]
           /\ force' \in [Requests -> BOOLEAN]
           /\ requestedAt' \in [Requests -> Times]
           /\ todo' \in [Requests -> SUBSET Creds]
           /\ again' \in [Requests -> SUBSET Creds]
           /\ accounts' \in [Requests -> Readings]
           /\ answer' \in [Requests -> Snapshots \cup {NoSnapshot}]
           /\ fellBack' \in [Requests -> BOOLEAN]
           /\ served' \subseteq Requests
BY UsageAssumption DEF Done, Goto, TypeOK, Stages, Times

LEMMA TypeInit == Init => TypeOK
BY NoCards, UsageAssumption DEF Init, TypeOK, Times, Stages

LEMMA TypeStep == TypeOK /\ [Next]_vars => TypeOK'
<1> SUFFICES ASSUME TypeOK, [Next]_vars PROVE TypeOK'
  OBVIOUS
<1>1. CASE Tick
  BY <1>1, UsageAssumption DEF Tick, TypeOK, Times, locals
<1>2. ASSUME NEW r \in Requests, Ask(r) PROVE TypeOK'
  BY <1>2 DEF Ask, Goto, TypeOK, Stages
<1>3. ASSUME NEW r \in Requests, Lock(r) PROVE TypeOK'
  BY <1>3 DEF Lock, Goto, locals, TypeOK, Stages
<1>4. ASSUME NEW r \in Requests, Check(r) PROVE TypeOK'
  <2>1. CASE Satisfies(r) /\ Answer(r, usageCache) /\ UNCHANGED <<fellBack, served>>
    <3>1. usageCache \in Snapshots  BY <2>1 DEF Satisfies, TypeOK
    <3> QED  BY <1>4, <2>1, <3>1, AnswerType DEF Check, TypeOK
  <2>2. CASE Goto(r, "wait") /\ UNCHANGED locals
    BY <1>4, <2>2 DEF Check, Goto, locals, TypeOK, Stages
  <2> QED  BY <1>4, <2>1, <2>2 DEF Check
<1>5. ASSUME NEW r \in Requests, Recheck(r) PROVE TypeOK'
  <2>1. CASE Satisfies(r) /\ Answer(r, usageCache) /\ collector' = Nobody
             /\ UNCHANGED <<fellBack, served>>
    <3>1. usageCache \in Snapshots  BY <2>1 DEF Satisfies, TypeOK
    <3> QED  BY <1>5, <2>1, <3>1, AnswerType DEF Recheck, TypeOK
  <2>2. CASE Goto(r, "list") /\ UNCHANGED <<collector, locals>>
    BY <1>5, <2>2 DEF Recheck, Goto, locals, TypeOK, Stages
  <2> QED  BY <1>5, <2>1, <2>2 DEF Recheck
<1>6. ASSUME NEW r \in Requests, List(r) PROVE TypeOK'
  BY <1>6 DEF List, Goto, TypeOK, Stages
<1>7. ASSUME NEW r \in Requests, ListFails(r) PROVE TypeOK'
  <2>1. CASE usageCache # NoSnapshot /\ Answer(r, usageCache)
             /\ fellBack' = [fellBack EXCEPT ![r] = TRUE] /\ UNCHANGED served
    <3>1. usageCache \in Snapshots  BY <2>1 DEF TypeOK
    <3> QED  BY <1>7, <2>1, <3>1, AnswerType DEF ListFails, TypeOK
  <2>2. CASE Done(r)
    BY <1>7, <2>2, DoneType DEF ListFails, TypeOK
  <2> QED  BY <1>7, <2>1, <2>2 DEF ListFails
<1>8. ASSUME NEW r \in Requests, Read(r) PROVE TypeOK'
  <2>1. PICK c \in todo[r] :
          \/ \E reading \in {now, Unread} :
                /\ accounts' = [accounts EXCEPT ![r] = WithCard(@, c, reading)]
                /\ todo' = [todo EXCEPT ![r] = @ \ {c}]
                /\ UNCHANGED again
          \/ /\ again' = [again EXCEPT ![r] = @ \cup {c}]
             /\ UNCHANGED <<todo, accounts>>
    BY <1>8 DEF Read
  <2>2. c \in Creds  BY <2>1 DEF TypeOK
  <2>3. CASE \E reading \in {now, Unread} :
                /\ accounts' = [accounts EXCEPT ![r] = WithCard(@, c, reading)]
                /\ todo' = [todo EXCEPT ![r] = @ \ {c}]
                /\ UNCHANGED again
    <3>1. PICK reading \in {now, Unread} :
              accounts' = [accounts EXCEPT ![r] = WithCard(accounts[r], c, reading)]
      BY <2>3
    <3>2. accounts[r] \in Readings /\ reading \in Times \cup {Unread}  BY DEF TypeOK
    <3>3. WithCard(accounts[r], c, reading) \in Readings  BY <2>2, <3>2, CardAdded
    <3>4. accounts' \in [Requests -> Readings]  BY <3>1, <3>3 DEF TypeOK
    <3> QED  BY <1>8, <2>3, <3>4 DEF Read, TypeOK
  <2>4. CASE again' = [again EXCEPT ![r] = @ \cup {c}] /\ UNCHANGED <<todo, accounts>>
    BY <1>8, <2>2, <2>4 DEF Read, TypeOK
  <2> QED  BY <2>1, <2>3, <2>4
<1>9. ASSUME NEW r \in Requests, Store(r) PROVE TypeOK'
  <2>1. usageCache' \in Snapshots  BY <1>9 DEF Store, TypeOK, Snapshots
  <2>2. served' \subseteq Requests  BY <1>9 DEF Store, Waiting, TypeOK
  <2> QED  BY <1>9, <2>1, <2>2, AnswerType DEF Store, TypeOK
<1>10. ASSUME NEW r \in Requests, Stamp(r) PROVE TypeOK'
  BY <1>10, DoneType DEF Stamp, TypeOK
<1>11. CASE UNCHANGED vars
  BY <1>11 DEF vars, TypeOK
<1> QED
  BY <1>1, <1>2, <1>3, <1>4, <1>5, <1>6, <1>7, <1>8, <1>9, <1>10, <1>11 DEF Next, Work

\* The variables keep their types.
THEOREM TypeCorrect == Spec => []TypeOK
<1> QED  BY TypeInit, TypeStep, PTL DEF Spec

----------------------------------------------------------------------------
(* The inductive invariant *)

\* Nothing in a snapshot is newer than the snapshot, nor that than the clock.
Past(snapshot) ==
    /\ snapshot.fetchedAt <= now
    /\ \A c \in DOMAIN snapshot.accounts :
          snapshot.accounts[c] # Unread => snapshot.accounts[c] <= snapshot.fetchedAt

CacheInv == usageCache # NoSnapshot => Past(usageCache)

\* What a collection has read is newer than the snapshot it will replace.
CollectionInv(r) ==
    \A c \in DOMAIN accounts[r] : accounts[r][c] # Unread =>
        /\ accounts[r][c] <= now
        /\ usageCache # NoSnapshot => usageCache.fetchedAt <= accounts[r][c]

\* What a request answers is no newer than the cache, and if it asked for a
\* refresh that did not fall back, no older than itself.
AnswerInv(r) ==
    /\ usageCache # NoSnapshot /\ answer[r] # NoSnapshot
    /\ answer[r].fetchedAt <= usageCache.fetchedAt
    /\ force[r] /\ ~fellBack[r] => answer[r].fetchedAt >= requestedAt[r]

RequestInv(r) ==
    /\ requestedAt[r] <= now
    /\ IF At(r, "read") THEN CollectionInv(r) ELSE accounts[r] = NoAccount
    /\ At(r, "stamp") => AnswerInv(r)
    /\ fellBack[r] => At(r, "stamp")

IInv == TypeOK /\ CollectorHoldsLock /\ CacheInv /\ \A r \in Requests : RequestInv(r)

LEMMA InvInit == Init => IInv
<1> SUFFICES ASSUME Init PROVE IInv
  OBVIOUS
<1>1. CollectorHoldsLock
  BY UsageAssumption DEF Init, CollectorHoldsLock, Collecting
<1>2. CacheInv  BY DEF Init, CacheInv
<1>3. \A r \in Requests : RequestInv(r)
  BY DEF Init, RequestInv, At
<1> QED  BY TypeInit, <1>1, <1>2, <1>3 DEF IInv

\* A request's locals.
Idles(q) ==
    /\ pc'[q] = pc[q] /\ force'[q] = force[q] /\ requestedAt'[q] = requestedAt[q]
    /\ accounts'[q] = accounts[q] /\ answer'[q] = answer[q] /\ fellBack'[q] = fellBack[q]

\* While the clock runs and others refresh the cache, a request that does
\* nothing itself keeps what was true of it: only the holder of the collection
\* lock replaces the snapshot, and it is not collecting.
LEMMA Frame ==
    ASSUME TypeOK, TypeOK', NEW q \in Requests, RequestInv(q), Idles(q), now <= now',
           \/ UNCHANGED usageCache
           \/ /\ pc[q] \notin Collecting /\ usageCache' # NoSnapshot
              /\ usageCache # NoSnapshot => usageCache.fetchedAt <= usageCache'.fetchedAt
    PROVE  RequestInv(q)'
<1>0. /\ now \in Int /\ now' \in Int /\ requestedAt[q] \in Int
      /\ usageCache # NoSnapshot => usageCache.fetchedAt \in Int
      /\ usageCache' # NoSnapshot => usageCache'.fetchedAt \in Int
      /\ answer[q] # NoSnapshot => answer[q].fetchedAt \in Int
      /\ accounts[q] \in Readings
  BY UsageAssumption DEF TypeOK, Times, Snapshots
<1>1. requestedAt'[q] <= now'  BY <1>0 DEF RequestInv, Idles
<1>2. IF At(q, "read")' THEN CollectionInv(q)' ELSE accounts'[q] = NoAccount
  <2>1. CASE At(q, "read")
    <3>1. UNCHANGED usageCache /\ accounts'[q] = accounts[q] /\ At(q, "read")'
      BY <2>1 DEF At, Collecting, Idles
    <3>2. CollectionInv(q)  BY <2>1 DEF RequestInv
    <3>3. \A c \in DOMAIN accounts[q] : accounts[q][c] # Unread => accounts[q][c] \in Int
      BY <1>0, CardsOf DEF Times
    <3> QED  BY <1>0, <3>1, <3>2, <3>3 DEF CollectionInv
  <2>2. CASE ~At(q, "read")
    BY <2>2 DEF At, RequestInv, Idles
  <2> QED  BY <2>1, <2>2
<1>3. ASSUME At(q, "stamp")' PROVE AnswerInv(q)'
  <2>1. At(q, "stamp") /\ AnswerInv(q)  BY <1>3 DEF At, RequestInv, Idles
  <2> QED  BY <1>0, <2>1 DEF AnswerInv, Idles
<1>4. fellBack'[q] => At(q, "stamp")'  BY DEF At, RequestInv, Idles
<1> QED  BY <1>1, <1>2, <1>3, <1>4 DEF RequestInv

\* What a step of one request leaves alone.
LEMMA AnswerFrame ==
    ASSUME TypeOK, NEW r \in Requests, NEW s, Answer(r, s)
    PROVE  /\ pc'[r] = "stamp" /\ answer'[r] = s /\ accounts'[r] = NoAccount
           /\ force' = force /\ requestedAt' = requestedAt
           /\ \A q \in Requests \ {r} : /\ pc'[q] = pc[q] /\ accounts'[q] = accounts[q]
                                        /\ answer'[q] = answer[q]
BY DEF TypeOK, Answer, Goto

LEMMA DoneFrame ==
    ASSUME TypeOK, NEW r \in Requests, Done(r)
    PROVE  /\ pc'[r] = "idle" /\ requestedAt'[r] = 0 /\ ~fellBack'[r]
           /\ accounts' = accounts
           /\ \A q \in Requests \ {r} : Idles(q)
BY DEF TypeOK, Done, Goto, Idles

\* The others keep their invariant through a step of r that leaves the cache
\* alone, or that replaces it while r holds the collection lock.
LEMMA OthersKeep ==
    ASSUME IInv, TypeOK', NEW r \in Requests, NEW q \in Requests \ {r}, Idles(q),
           now' = now,
           \/ UNCHANGED usageCache
           \/ /\ collector = r /\ usageCache' # NoSnapshot
              /\ usageCache # NoSnapshot => usageCache.fetchedAt <= usageCache'.fetchedAt
    PROVE  RequestInv(q)'
<1>1. TypeOK /\ RequestInv(q) /\ now <= now'
  BY UsageAssumption DEF IInv, TypeOK, Times
<1>2. collector = r => pc[q] \notin Collecting  BY DEF IInv, CollectorHoldsLock
<1> QED  BY <1>1, <1>2, Frame

\* A request that hands out the snapshot it found, or has just stored, answers
\* with what the cache holds.
LEMMA AnswerGiven ==
    ASSUME TypeOK, TypeOK', NEW r \in Requests, Answer(r, usageCache'),
           usageCache' # NoSnapshot, requestedAt[r] <= now',
           \/ ~force[r] \/ fellBack'[r] \/ usageCache'.fetchedAt >= requestedAt[r]
    PROVE  RequestInv(r)'
<1>1. /\ pc'[r] = "stamp" /\ answer'[r] = usageCache' /\ accounts'[r] = NoAccount
      /\ force' = force /\ requestedAt' = requestedAt
  BY AnswerFrame
<1>2. usageCache'.fetchedAt \in Int
  BY UsageAssumption DEF TypeOK, Snapshots, Times
<1> QED  BY <1>1, <1>2 DEF RequestInv, AnswerInv, At

\* The lock changes hands only when its holder lets go of it.
LEMMA LockFrame ==
    ASSUME CollectorHoldsLock, NEW r \in Requests,
           \A q \in Requests \ {r} : pc'[q] = pc[q],
           \/ /\ collector' = collector
              /\ pc'[r] \in Collecting <=> pc[r] \in Collecting
           \/ collector = Nobody /\ collector' = r /\ pc'[r] \in Collecting
           \/ collector = r /\ collector' = Nobody /\ pc'[r] \notin Collecting
    PROVE  CollectorHoldsLock'
BY UsageAssumption DEF CollectorHoldsLock

LEMMA RequestStep ==
    ASSUME IInv, TypeOK', NEW r \in Requests, Ask(r) \/ Lock(r) \/ Work(r)
    PROVE  IInv'
<1> SUFFICES CollectorHoldsLock' /\ CacheInv' /\ \A q \in Requests : RequestInv(q)'
  BY DEF IInv
<1>0. /\ TypeOK /\ CollectorHoldsLock /\ CacheInv /\ RequestInv(r)
      /\ now \in Nat /\ now <= now /\ requestedAt[r] <= now
      /\ pc[r] \in Collecting => collector = r
  BY UsageAssumption DEF IInv, CollectorHoldsLock, RequestInv, TypeOK, Times
<1>1. ASSUME now' = now, UNCHANGED usageCache PROVE CacheInv'
  BY <1>0, <1>1 DEF CacheInv, Past
<1>2. CASE Ask(r)
  <2>1. /\ pc[r] = "idle" /\ pc'[r] = "check" /\ requestedAt'[r] = now
        /\ UNCHANGED <<now, usageCache, collector, accounts, answer, fellBack>>
        /\ \A q \in Requests \ {r} : Idles(q)
    BY <1>0, <1>2 DEF Ask, At, Goto, TypeOK, Idles
  <2>2. RequestInv(r)'  BY <1>0, <2>1 DEF RequestInv, At
  <2>3. CollectorHoldsLock'
    BY <1>0, <2>1, LockFrame DEF Collecting, Idles
  <2> QED  BY <1>1, <2>1, <2>2, <2>3, OthersKeep
<1>3. CASE Lock(r)
  <2>1. /\ pc[r] = "wait" /\ pc'[r] = "recheck"
        /\ collector = Nobody /\ collector' = r
        /\ UNCHANGED <<now, usageCache, locals>>
        /\ \A q \in Requests \ {r} : Idles(q)
    BY <1>0, <1>3 DEF Lock, At, Goto, TypeOK, Idles, locals
  <2>2. RequestInv(r)'  BY <1>0, <2>1 DEF RequestInv, At, locals
  <2>3. CollectorHoldsLock'
    BY <1>0, <2>1, LockFrame DEF Collecting, Idles
  <2> QED  BY <1>1, <2>1, <2>2, <2>3, OthersKeep
<1>4. CASE Check(r)
  <2>1. CASE Satisfies(r) /\ Answer(r, usageCache) /\ UNCHANGED <<fellBack, served>>
    <3>1. /\ pc[r] = "check" /\ pc'[r] = "stamp"
          /\ UNCHANGED <<now, usageCache, collector>>
          /\ \A q \in Requests \ {r} : Idles(q)
      BY <1>0, <1>4, <2>1, AnswerFrame DEF Check, At, Idles
    <3>2. RequestInv(r)'
      <4>1. usageCache # NoSnapshot /\ (force[r] => usageCache.fetchedAt > requestedAt[r])
        BY <2>1 DEF Satisfies
      <4>2. usageCache.fetchedAt \in Int /\ requestedAt[r] \in Int
        BY <1>0, <4>1, UsageAssumption DEF TypeOK, Times, Snapshots
      <4> QED  BY <1>0, <2>1, <3>1, <4>1, <4>2, AnswerGiven
    <3>3. CollectorHoldsLock'
      BY <1>0, <3>1, LockFrame DEF Collecting, Idles
    <3> QED  BY <1>1, <3>1, <3>2, <3>3, OthersKeep
  <2>2. CASE Goto(r, "wait") /\ UNCHANGED locals
    <3>1. /\ pc[r] = "check" /\ pc'[r] = "wait"
          /\ UNCHANGED <<now, usageCache, collector>>
          /\ \A q \in Requests \ {r} : Idles(q)
      BY <1>0, <1>4, <2>2 DEF Check, Goto, TypeOK, At, Idles, locals
    <3>2. RequestInv(r)'  BY <1>0, <2>2, <3>1 DEF RequestInv, At, locals
    <3>3. CollectorHoldsLock'
      BY <1>0, <3>1, LockFrame DEF Collecting, Idles
    <3> QED  BY <1>1, <3>1, <3>2, <3>3, OthersKeep
  <2> QED  BY <1>4, <2>1, <2>2 DEF Check
<1>5. CASE Recheck(r)
  <2>1. CASE Satisfies(r) /\ Answer(r, usageCache) /\ collector' = Nobody
             /\ UNCHANGED <<fellBack, served>>
    <3>1. /\ pc[r] = "recheck" /\ pc'[r] = "stamp" /\ collector = r
          /\ UNCHANGED <<now, usageCache>>
          /\ \A q \in Requests \ {r} : Idles(q)
      BY <1>0, <1>5, <2>1, AnswerFrame DEF Recheck, At, Idles, Collecting
    <3>2. RequestInv(r)'
      <4>1. usageCache # NoSnapshot /\ (force[r] => usageCache.fetchedAt > requestedAt[r])
        BY <2>1 DEF Satisfies
      <4>2. usageCache.fetchedAt \in Int /\ requestedAt[r] \in Int
        BY <1>0, <4>1, UsageAssumption DEF TypeOK, Times, Snapshots
      <4> QED  BY <1>0, <2>1, <3>1, <4>1, <4>2, AnswerGiven
    <3>3. CollectorHoldsLock'
      BY <1>0, <2>1, <3>1, LockFrame DEF Collecting, Idles
    <3> QED  BY <1>1, <3>1, <3>2, <3>3, OthersKeep
  <2>2. CASE Goto(r, "list") /\ UNCHANGED <<collector, locals>>
    <3>1. /\ pc[r] = "recheck" /\ pc'[r] = "list"
          /\ UNCHANGED <<now, usageCache, collector>>
          /\ \A q \in Requests \ {r} : Idles(q)
      BY <1>0, <1>5, <2>2 DEF Recheck, Goto, TypeOK, At, Idles, locals
    <3>2. RequestInv(r)'  BY <1>0, <2>2, <3>1 DEF RequestInv, At, locals
    <3>3. CollectorHoldsLock'
      BY <1>0, <3>1, LockFrame DEF Collecting, Idles
    <3> QED  BY <1>1, <3>1, <3>2, <3>3, OthersKeep
  <2> QED  BY <1>5, <2>1, <2>2 DEF Recheck
<1>6. CASE List(r)
  <2>1. /\ pc[r] = "list" /\ pc'[r] = "read"
        /\ UNCHANGED <<now, usageCache, collector, requestedAt, accounts, answer, fellBack>>
        /\ \A q \in Requests \ {r} : Idles(q)
    BY <1>0, <1>6 DEF List, At, Goto, TypeOK, Idles
  <2>2. RequestInv(r)'
    <3>1. accounts'[r] = NoAccount  BY <1>0, <2>1 DEF RequestInv, At
    <3> QED  BY <1>0, <2>1, <3>1, NoCards DEF RequestInv, CollectionInv, At
  <2>3. CollectorHoldsLock'
    BY <1>0, <2>1, LockFrame DEF Collecting, Idles
  <2> QED  BY <1>1, <2>1, <2>2, <2>3, OthersKeep
<1>7. CASE ListFails(r)
  <2>1. pc[r] = "list" /\ collector = r /\ collector' = Nobody /\ UNCHANGED <<now, usageCache>>
    BY <1>0, <1>7 DEF ListFails, At, Collecting
  <2>2. CASE usageCache # NoSnapshot /\ Answer(r, usageCache)
             /\ fellBack' = [fellBack EXCEPT ![r] = TRUE]
    <3>1. /\ pc'[r] = "stamp" /\ fellBack'[r]
          /\ \A q \in Requests \ {r} : Idles(q)
      BY <1>0, <2>2, AnswerFrame DEF TypeOK, Idles
    <3>2. RequestInv(r)'  BY <1>0, <2>1, <2>2, <3>1, AnswerGiven
    <3>3. CollectorHoldsLock'
      BY <1>0, <2>1, <3>1, LockFrame DEF Collecting, Idles
    <3> QED  BY <1>1, <2>1, <3>1, <3>2, <3>3, OthersKeep
  <2>3. CASE Done(r)
    <3>1. RequestInv(r)'
      BY <1>0, <2>1, <2>3, DoneFrame DEF RequestInv, At
    <3>2. CollectorHoldsLock'
      BY <1>0, <2>1, <2>3, DoneFrame, LockFrame DEF Collecting, Idles
    <3> QED  BY <1>0, <1>1, <2>1, <2>3, <3>1, <3>2, DoneFrame, OthersKeep
  <2> QED  BY <1>7, <2>2, <2>3 DEF ListFails
<1>8. CASE Read(r)
  <2>1. /\ pc[r] = "read" /\ pc'[r] = "read"
        /\ UNCHANGED <<now, usageCache, collector, pc, force, requestedAt, answer, fellBack>>
        /\ \A q \in Requests \ {r} : Idles(q)
    BY <1>0, <1>8 DEF Read, At, TypeOK, Idles
  <2>2. CollectionInv(r)'
    <3>1. CollectionInv(r) /\ accounts[r] \in Readings
      BY <1>0, <2>1 DEF RequestInv, At, TypeOK
    <3>2. CASE UNCHANGED accounts  BY <2>1, <3>1, <3>2 DEF CollectionInv
    <3>3. CASE \E c \in todo[r], reading \in {now, Unread} :
                  accounts'[r] = WithCard(accounts[r], c, reading)
      <4>1. PICK c \in todo[r], reading \in {now, Unread} :
                accounts'[r] = WithCard(accounts[r], c, reading)
        BY <3>3
      <4>2. c \in Creds /\ reading \in Times \cup {Unread}
        BY <1>0, <4>1 DEF TypeOK
      <4>3. /\ DOMAIN accounts'[r] = DOMAIN accounts[r] \cup {c}
            /\ \A d \in DOMAIN accounts'[r] :
                  accounts'[r][d] = IF d = c THEN reading ELSE accounts[r][d]
        <5> DEFINE cards == WithCard(accounts[r], c, reading)
        <5>1. /\ DOMAIN cards = DOMAIN accounts[r] \cup {c}
              /\ \A d \in DOMAIN cards :
                    cards[d] = IF d = c THEN reading ELSE accounts[r][d]
          BY <3>1, <4>2, CardAdded
        <5> HIDE DEF cards
        <5>2. accounts'[r] = cards  BY <4>1 DEF cards
        <5> QED  BY <5>1, <5>2
      <4>4. usageCache # NoSnapshot => usageCache.fetchedAt <= now
        BY <1>0 DEF CacheInv, Past
      <4> QED  BY <1>0, <2>1, <3>1, <4>1, <4>3, <4>4 DEF CollectionInv
    <3>4. CASE \E c \in todo[r], reading \in {now, Unread} :
                  accounts' = [accounts EXCEPT ![r] = WithCard(accounts[r], c, reading)]
      BY <1>0, <3>3, <3>4 DEF TypeOK
    <3> QED  BY <1>8, <3>2, <3>4 DEF Read
  <2>3. RequestInv(r)'  BY <1>0, <2>1, <2>2 DEF RequestInv, At
  <2>4. CollectorHoldsLock'
    BY <1>0, <2>1, LockFrame DEF Idles
  <2> QED  BY <1>1, <2>1, <2>3, <2>4, OthersKeep
<1>9. CASE Store(r)
  <2>1. /\ pc[r] = "read" /\ collector = r /\ collector' = Nobody /\ now' = now
        /\ usageCache' = [fetchedAt |-> now, accounts |-> accounts[r]]
        /\ Answer(r, usageCache') /\ UNCHANGED fellBack
    BY <1>0, <1>9 DEF Store, At, Collecting
  <2>2. /\ pc'[r] = "stamp"
        /\ \A q \in Requests \ {r} : Idles(q)
    BY <1>0, <2>1, AnswerFrame DEF Idles
  <2>3. usageCache' \in Snapshots /\ usageCache' # NoSnapshot
    BY <1>0, <2>1, SnapshotAssumption DEF TypeOK, Snapshots
  <2>4. usageCache'.fetchedAt = now /\ usageCache'.accounts = accounts[r]
    BY <2>1
  <2>5. usageCache # NoSnapshot => usageCache.fetchedAt <= usageCache'.fetchedAt
    BY <1>0, <2>4 DEF CacheInv, Past
  <2>6. CacheInv'
    <3>1. CollectionInv(r)  BY <1>0, <2>1 DEF RequestInv, At
    <3> QED  BY <1>0, <2>1, <2>4, <3>1 DEF CacheInv, Past, CollectionInv
  <2>7. RequestInv(r)'
    BY <1>0, <2>1, <2>3, <2>4, AnswerGiven
  <2>8. CollectorHoldsLock'
    BY <1>0, <2>1, <2>2, LockFrame DEF Collecting, Idles
  <2> QED  BY <2>1, <2>2, <2>3, <2>5, <2>6, <2>7, <2>8, OthersKeep
<1>10. CASE Stamp(r)
  <2>1. pc[r] = "stamp" /\ Done(r) /\ UNCHANGED <<now, usageCache, collector>>
    BY <1>10 DEF Stamp, At
  <2>2. RequestInv(r)'
    BY <1>0, <2>1, DoneFrame DEF RequestInv, At
  <2>3. CollectorHoldsLock'
    BY <1>0, <2>1, DoneFrame, LockFrame DEF Collecting, Idles
  <2> QED  BY <1>0, <1>1, <2>1, <2>2, <2>3, DoneFrame, OthersKeep
<1> QED
  BY <1>2, <1>3, <1>4, <1>5, <1>6, <1>7, <1>8, <1>9, <1>10 DEF Work

LEMMA InvStep == IInv /\ [Next]_vars => IInv'
<1> SUFFICES ASSUME IInv, [Next]_vars PROVE IInv'
  OBVIOUS
<1>0. TypeOK /\ TypeOK'  BY TypeStep DEF IInv
<1>1. CASE Tick
  <2>1. /\ now <= now' /\ now \in Int /\ now' \in Int
        /\ UNCHANGED <<usageCache, collector, pc, locals>>
    BY <1>0, <1>1, UsageAssumption DEF Tick, TypeOK, Times
  <2>2. CacheInv'
    <3>1. usageCache # NoSnapshot => usageCache.fetchedAt \in Int
      BY <1>0, UsageAssumption DEF TypeOK, Snapshots, Times
    <3> QED  BY <2>1, <3>1 DEF IInv, CacheInv, Past
  <2>3. \A q \in Requests : RequestInv(q)'
    BY <1>0, <2>1, Frame DEF IInv, Idles, locals
  <2> QED  BY <1>0, <2>1, <2>2, <2>3 DEF IInv, CollectorHoldsLock
<1>2. CASE UNCHANGED vars
  BY <1>0, <1>2
     DEF IInv, vars, CollectorHoldsLock, CacheInv, Past, RequestInv, CollectionInv,
         AnswerInv, At
<1> QED  BY <1>0, <1>1, <1>2, RequestStep DEF Next

----------------------------------------------------------------------------

\* The collection lock is held by the request that collects, and by no other:
\* it is given back on every return.
THEOREM LockHeld == Spec => []CollectorHoldsLock
<1>1. IInv => CollectorHoldsLock  BY DEF IInv
<1> QED  BY InvInit, InvStep, <1>1, PTL DEF Spec

\* A refresh hands out a snapshot completed after it came in, its own or another
\* request's, unless the listing failed.
THEOREM RefreshIsFresh == Spec => []RefreshRefreshes
<1>1. IInv => RefreshRefreshes
  BY DEF IInv, RefreshRefreshes, RequestInv, AnswerInv
<1> QED  BY InvInit, InvStep, <1>1, PTL DEF Spec

\* The time the panel shows is never that of a snapshot older than the accounts
\* next to it, although it is asked for after the collection has returned.
THEOREM TimeNotOlder == Spec => []StampNotOlder
<1>1. IInv => StampNotOlder
  BY DEF IInv, StampNotOlder, RequestInv, AnswerInv
<1> QED  BY InvInit, InvStep, <1>1, PTL DEF Spec

----------------------------------------------------------------------------
(* What a step may do to the cache, and to a request that waits *)

LEMMA CacheStep ==
    ASSUME TypeOK, [Next]_vars
    PROVE  \/ UNCHANGED usageCache
           \/ \E r \in Requests : /\ At(r, "read")
                                 /\ usageCache' = [fetchedAt |-> now, accounts |-> accounts[r]]
<1>1. CASE Tick \/ UNCHANGED vars  BY <1>1 DEF Tick, vars
<1>2. ASSUME NEW r \in Requests, Store(r)
      PROVE  /\ At(r, "read")
             /\ usageCache' = [fetchedAt |-> now, accounts |-> accounts[r]]
  BY <1>2 DEF Store
<1>3. ASSUME NEW r \in Requests,
             \/ Ask(r) \/ Lock(r) \/ Check(r) \/ Recheck(r) \/ List(r)
             \/ ListFails(r) \/ Read(r) \/ Stamp(r)
      PROVE  UNCHANGED usageCache
  BY <1>3 DEF Ask, Lock, Check, Recheck, List, ListFails, Read, Stamp
<1> QED  BY <1>1, <1>2, <1>3 DEF Next, Work

\* What the cache knows of an account never goes back: a collection reads after
\* the one before it has stored, and nothing but a collection changes the cache.
THEOREM NoReadingGoesBack == Spec => ReadingsNeverGoBack
<1> DEFINE Forward ==
      usageCache # NoSnapshot =>
          LET old == usageCache.accounts
              new == usageCache'.accounts
          IN /\ usageCache' # NoSnapshot
             /\ \A c \in DOMAIN old \cap DOMAIN new :
                   old[c] # Unread /\ new[c] # Unread => old[c] <= new[c]
<1>1. ASSUME IInv, [Next]_vars PROVE Forward
  <2> SUFFICES ASSUME usageCache # NoSnapshot
               PROVE  /\ usageCache' # NoSnapshot
                      /\ \A c \in DOMAIN usageCache.accounts \cap DOMAIN usageCache'.accounts :
                            /\ usageCache.accounts[c] # Unread
                            /\ usageCache'.accounts[c] # Unread
                            => usageCache.accounts[c] <= usageCache'.accounts[c]
    OBVIOUS
  <2>0. /\ TypeOK /\ Past(usageCache) /\ usageCache \in Snapshots
        /\ usageCache.fetchedAt \in Int /\ usageCache.accounts \in Readings
    BY <1>1, UsageAssumption DEF IInv, TypeOK, CacheInv, Snapshots, Times
  <2>1. \A c \in DOMAIN usageCache.accounts :
           usageCache.accounts[c] # Unread => usageCache.accounts[c] \in Int
    BY <2>0, CardsOf DEF Times
  <2>2. CASE UNCHANGED usageCache  BY <2>1, <2>2
  <2>3. ASSUME NEW r \in Requests, At(r, "read"),
               usageCache' = [fetchedAt |-> now, accounts |-> accounts[r]]
        PROVE  /\ usageCache' # NoSnapshot
               /\ \A c \in DOMAIN usageCache.accounts \cap DOMAIN usageCache'.accounts :
                     /\ usageCache.accounts[c] # Unread
                     /\ usageCache'.accounts[c] # Unread
                     => usageCache.accounts[c] <= usageCache'.accounts[c]
    <3>1. CollectionInv(r) /\ accounts[r] \in Readings
      BY <1>1, <2>3 DEF IInv, TypeOK, RequestInv
    <3>2. usageCache' # NoSnapshot
      BY <2>0, <2>3, <3>1, SnapshotAssumption DEF TypeOK, Snapshots
    <3>3. usageCache'.accounts = accounts[r]  BY <2>3
    <3>4. \A c \in DOMAIN accounts[r] : accounts[r][c] # Unread => accounts[r][c] \in Int
      BY <3>1, CardsOf DEF Times
    <3> QED  BY <2>0, <2>1, <3>1, <3>2, <3>3, <3>4 DEF Past, CollectionInv
  <2> QED  BY <1>1, <2>0, <2>2, <2>3, CacheStep
<1>2. ASSUME IInv, [Next]_vars PROVE [Forward]_vars  BY <1>1, <1>2
<1> QED  BY InvInit, InvStep, <1>2, PTL DEF Spec, ReadingsNeverGoBack

\* A refresh that a collection has served meanwhile is still waiting to find out,
\* or already answering, and the cache holds what it will find.
ServedInv == \A q \in served :
    /\ force[q] /\ pc[q] \in {"check", "wait", "recheck", "stamp"}
    /\ usageCache # NoSnapshot /\ usageCache.fetchedAt > requestedAt[q]

\* The cache is never emptied, and its snapshot only replaced by a later one.
LEMMA CacheForward ==
    ASSUME IInv, [Next]_vars, usageCache # NoSnapshot
    PROVE  usageCache' # NoSnapshot /\ usageCache.fetchedAt <= usageCache'.fetchedAt
<1>0. TypeOK /\ usageCache.fetchedAt <= now /\ usageCache.fetchedAt \in Int
  BY UsageAssumption DEF IInv, CacheInv, Past, TypeOK, Snapshots, Times
<1>1. CASE UNCHANGED usageCache  BY <1>0, <1>1
<1>2. ASSUME NEW r \in Requests,
             usageCache' = [fetchedAt |-> now, accounts |-> accounts[r]]
      PROVE  usageCache' # NoSnapshot /\ usageCache.fetchedAt <= usageCache'.fetchedAt
  <2>1. usageCache' \in Snapshots  BY <1>0, <1>2 DEF TypeOK, Snapshots
  <2>2. usageCache'.fetchedAt = now  BY <1>2
  <2> QED  BY <1>0, <2>1, <2>2, SnapshotAssumption
<1> QED  BY <1>0, <1>1, <1>2, CacheStep

LEMMA ServedStep == IInv /\ ServedInv /\ [Next]_vars => ServedInv'
<1> SUFFICES ASSUME IInv, ServedInv, [Next]_vars, NEW q \in served'
             PROVE  /\ force'[q] /\ pc'[q] \in {"check", "wait", "recheck", "stamp"}
                    /\ usageCache' # NoSnapshot /\ usageCache'.fetchedAt > requestedAt'[q]
  BY DEF ServedInv
<1>0. /\ TypeOK /\ TypeOK' /\ q \in Requests /\ now \in Int
      /\ pc \in [Requests -> Stages] /\ force \in [Requests -> BOOLEAN]
      /\ requestedAt \in [Requests -> Times] /\ requestedAt[q] \in Int
      /\ usageCache # NoSnapshot => usageCache.fetchedAt \in Int
      /\ usageCache' # NoSnapshot => usageCache'.fetchedAt \in Int
  BY TypeStep, UsageAssumption DEF IInv, TypeOK, Times, Snapshots
<1>1. CASE q \in served
  <2>1. /\ force[q] /\ pc[q] \in {"check", "wait", "recheck", "stamp"}
        /\ usageCache # NoSnapshot /\ usageCache.fetchedAt > requestedAt[q]
    BY <1>1 DEF ServedInv
  <2>2. Satisfies(q)  BY <2>1 DEF Satisfies
  <2>3. usageCache' # NoSnapshot /\ usageCache'.fetchedAt > requestedAt[q]
    BY <1>0, <2>1, CacheForward
  <2>4. /\ force'[q] = force[q] /\ requestedAt'[q] = requestedAt[q]
        /\ pc'[q] \in {"check", "wait", "recheck", "stamp"}
    <3>1. CASE Check(q) \/ Recheck(q)
      BY <1>0, <2>1, <2>2, <3>1 DEF Check, Recheck, Answer, Goto
    <3>2. CASE Lock(q)  BY <1>0, <2>1, <3>2 DEF Lock, Goto, locals
    <3>3. CASE Stamp(q)  BY <3>3 DEF Stamp, Done
    <3>4. CASE Ask(q) \/ List(q) \/ ListFails(q) \/ Read(q) \/ Store(q)
      BY <2>1, <3>4 DEF Ask, List, ListFails, Read, Store, At
    <3>5. ASSUME NEW r \in Requests \ {q}, Ask(r) \/ Lock(r) \/ Work(r)
          PROVE  /\ force'[q] = force[q] /\ requestedAt'[q] = requestedAt[q]
                 /\ pc'[q] = pc[q]
      BY <1>0, <3>5
         DEF Ask, Lock, Work, Check, Recheck, List, ListFails, Read, Store, Stamp,
             Answer, Done, Goto, locals
    <3>6. CASE Tick \/ UNCHANGED vars  BY <2>1, <3>6 DEF Tick, vars, locals
    <3> QED  BY <2>1, <3>1, <3>2, <3>3, <3>4, <3>5, <3>6 DEF Next, Work
  <2> QED  BY <2>1, <2>3, <2>4
<1>2. CASE q \notin served
  <2>1. PICK r \in Requests : Store(r)
    <3>1. ASSUME NEW r \in Requests,
                 \/ Ask(r) \/ Lock(r) \/ Check(r) \/ Recheck(r) \/ List(r)
                 \/ ListFails(r) \/ Read(r) \/ Stamp(r)
          PROVE  served' \subseteq served
      BY <3>1
         DEF Ask, Lock, Check, Recheck, List, ListFails, Read, Stamp, Done, locals
    <3>2. CASE Tick \/ UNCHANGED vars  BY <1>2, <3>2 DEF Tick, vars, locals
    <3> QED  BY <1>2, <3>1, <3>2 DEF Next, Work
  <2>2. /\ pc[q] \in {"check", "wait"} /\ force[q] /\ requestedAt[q] < now /\ q # r
        /\ usageCache' = [fetchedAt |-> now, accounts |-> accounts[r]]
    BY <1>2, <2>1 DEF Store, Waiting, At
  <2>3. pc'[q] = pc[q] /\ force' = force /\ requestedAt' = requestedAt
    BY <1>0, <2>1, <2>2 DEF Store, Answer, Goto
  <2>4. usageCache' \in Snapshots /\ usageCache'.fetchedAt = now
    BY <1>0, <2>2 DEF TypeOK, Snapshots
  <2> QED  BY <1>0, <2>2, <2>3, <2>4, SnapshotAssumption
<1> QED  BY <1>1, <1>2

\* However many refreshes wait when a collection completes, none of them collects
\* again, for any number of requests.
THEOREM RefreshesAreShared == Spec => []RefreshesCollapse
<1>1. Init => ServedInv  BY DEF Init, ServedInv
<1>2. ServedInv => RefreshesCollapse  BY DEF ServedInv, RefreshesCollapse
<1> QED  BY InvInit, InvStep, ServedStep, <1>1, <1>2, PTL DEF Spec

----------------------------------------------------------------------------
(* The end of a collection *)

\* A read that ends takes an account off the list, one that is to be repeated
\* takes one of its two turns.
LEMMA TurnTaken ==
    ASSUME NEW left \in SUBSET Creds, NEW tried \in SUBSET Creds, NEW c \in left
    PROVE  /\ Turns(left \ {c}, tried) < Turns(left, tried)
           /\ c \notin tried => Turns(left, tried \cup {c}) < Turns(left, tried)
<1>1. IsFiniteSet(left) /\ IsFiniteSet(left \ tried)
  BY UsageAssumption, FS_Subset
<1>2. /\ Cardinality(left) \in Nat /\ Cardinality(left \ tried) \in Nat
      /\ Cardinality(left \ {c}) = Cardinality(left) - 1
  BY <1>1, FS_CardinalityType, FS_RemoveElement
<1>3. /\ Cardinality((left \ {c}) \ tried) \in Nat
      /\ Cardinality((left \ {c}) \ tried) <= Cardinality(left \ tried)
  <2>1. (left \ {c}) \ tried \subseteq left \ tried  OBVIOUS
  <2> QED  BY <1>1, <2>1, FS_Subset, FS_CardinalityType
<1>4. Turns(left \ {c}, tried) < Turns(left, tried)
  BY <1>2, <1>3 DEF Turns
<1>5. ASSUME c \notin tried PROVE Turns(left, tried \cup {c}) < Turns(left, tried)
  <2>1. c \in left \ tried /\ (left \ tried) \ {c} = left \ (tried \cup {c})
    BY <1>5
  <2>2. Cardinality(left \ (tried \cup {c})) = Cardinality(left \ tried) - 1
    BY <1>1, <2>1, FS_RemoveElement
  <2> QED  BY <1>2, <2>2 DEF Turns
<1> QED  BY <1>4, <1>5

\* However many reads the host cancels, a collection takes at most two turns per
\* account before it stores and gives back the lock.
THEOREM CollectionsEnd == Spec => ReadsAreBounded
<1> DEFINE Shrinks(r) == \/ Turns(todo'[r], again'[r]) < Turns(todo[r], again[r])
                         \/ UNCHANGED <<todo[r], again[r], accounts[r]>>
<1>1. ASSUME TypeOK, [Next]_vars, NEW r \in Requests, At(r, "read"), pc'[r] = "read"
      PROVE  Shrinks(r)
  <2>0. /\ pc \in [Requests -> Stages] /\ todo \in [Requests -> SUBSET Creds]
        /\ again \in [Requests -> SUBSET Creds] /\ accounts \in [Requests -> Readings]
    BY <1>1 DEF TypeOK
  <2>1. CASE Read(r)
    <3>1. PICK c \in todo[r] :
            \/ todo' = [todo EXCEPT ![r] = @ \ {c}] /\ UNCHANGED again
            \/ /\ c \notin again[r] /\ UNCHANGED todo
               /\ again' = [again EXCEPT ![r] = @ \cup {c}]
      BY <2>1 DEF Read
    <3>2. \/ todo'[r] = todo[r] \ {c} /\ again'[r] = again[r]
          \/ c \notin again[r] /\ todo'[r] = todo[r] /\ again'[r] = again[r] \cup {c}
      BY <2>0, <3>1
    <3>3. Turns(todo'[r], again'[r]) < Turns(todo[r], again[r])
      BY <2>0, <3>2, TurnTaken
    <3> QED  BY <3>3
  <2>2. CASE \/ Ask(r) \/ Lock(r) \/ Check(r) \/ Recheck(r) \/ List(r) \/ ListFails(r)
             \/ Store(r) \/ Stamp(r)
    BY <2>0, <2>2, <1>1
       DEF Ask, Lock, Check, Recheck, List, ListFails, Store, Stamp, Answer, Goto, At
  <2>3. ASSUME NEW q \in Requests \ {r}, Ask(q) \/ Lock(q) \/ Work(q)
        PROVE  UNCHANGED <<todo[r], again[r], accounts[r]>>
    BY <2>0, <2>3
       DEF Ask, Lock, Work, Check, Recheck, List, ListFails, Read, Store, Stamp,
           Answer, Done, Goto, locals
  <2>4. CASE Tick \/ UNCHANGED vars  BY <2>4 DEF Tick, vars, locals
  <2> QED  BY <1>1, <2>1, <2>2, <2>3, <2>4 DEF Next, Work
<1>2. ASSUME TypeOK, [Next]_vars
      PROVE  [\A r \in Requests : At(r, "read") /\ pc'[r] = "read" => Shrinks(r)]_vars
  BY <1>1, <1>2
<1> QED  BY TypeInit, TypeStep, <1>2, PTL DEF Spec, ReadsAreBounded
=============================================================================
