----------------------------- MODULE UsageCache -----------------------------
(***************************************************************************)
(* The quota snapshot behind the panel's /usage and /refresh routes: one   *)
(* cached reading of every account, a collection that reads /v1/me account *)
(* by account outside the cache's mutex, and requests that either accept a *)
(* young snapshot or insist on one that is newer than themselves.          *)
(*                                                                         *)
(* What an account's reading says is abstracted to when it was taken.      *)
(***************************************************************************)
EXTENDS Integers, FiniteSets

CONSTANTS Creds,        \* credentials the host may list
          Requests,     \* management requests in flight
          Nobody,       \* nobody collects
          NoSnapshot,   \* a nil usageCache
          Unread,       \* an account card that carries an error
          TTL,          \* usageCacheTTL
          MaxTime       \* bound: the clock stops here

ASSUME UsageAssumption ==
    /\ IsFiniteSet(Creds)
    /\ Nobody \notin Requests
    /\ TTL \in Nat \ {0} /\ MaxTime \in Nat
    /\ Unread \notin 0..MaxTime

VARIABLES now,          \* the clock
          usageCache,   \* the snapshot, or NoSnapshot
          collector,    \* holder of usageCollectMu
          pc,           \* where each request is
          force,        \* did it ask for a refresh
          requestedAt,  \* when it came in
          todo,         \* accounts its collection has yet to read
          again,        \* accounts whose first read was cancelled
          accounts,     \* the readings its collection has taken
          answer,       \* the snapshot whose accounts it will return
          fellBack,     \* its answer is the old snapshot: listing failed
          served        \* history: the refreshes under way for which another
                        \* request's collection has completed since they came in

locals == <<force, requestedAt, todo, again, accounts, answer, fellBack, served>>
vars   == <<now, usageCache, collector, pc, force, requestedAt, todo, again,
            accounts, answer, fellBack, served>>

Times     == 0..MaxTime
NoAccount == [c \in {} |-> Unread]
Readings  == UNION {[S -> Times \cup {Unread}] : S \in SUBSET Creds}
Snapshots == [fetchedAt : Times, accounts : Readings]

ASSUME SnapshotAssumption == NoSnapshot \notin Snapshots

Stages == {"idle", "check", "wait", "recheck", "list", "read", "stamp"}
\* A collection holds usageCollectMu from its re-check to its return.
Collecting == {"recheck", "list", "read"}

Init ==
    /\ now = 0
    /\ usageCache = NoSnapshot
    /\ collector = Nobody
    /\ pc = [r \in Requests |-> "idle"]
    /\ force = [r \in Requests |-> FALSE]
    /\ requestedAt = [r \in Requests |-> 0]
    /\ todo = [r \in Requests |-> {}]
    /\ again = [r \in Requests |-> {}]
    /\ accounts = [r \in Requests |-> NoAccount]
    /\ answer = [r \in Requests |-> NoSnapshot]
    /\ fellBack = [r \in Requests |-> FALSE]
    /\ served = {}

At(r, stage) == pc[r] = stage
Goto(r, stage) == pc' = [pc EXCEPT ![r] = stage]

\* Faulty: a forced refresh is content with any snapshot inside the TTL.
SatisfiesWithinTTL(r) ==
    usageCache # NoSnapshot /\ now - usageCache.fetchedAt < TTL

\* freshUsageSnapshot: a forced request takes only a snapshot completed after
\* it came in, a plain one anything inside the TTL.
Satisfies(r) ==
    /\ usageCache # NoSnapshot
    /\ IF force[r] THEN usageCache.fetchedAt > requestedAt[r]
                   ELSE now - usageCache.fetchedAt < TTL

\* cachedUsage returns these accounts; the handler still has to ask for the
\* time to put next to them.
Answer(r, snapshot) ==
    /\ answer' = [answer EXCEPT ![r] = snapshot]
    /\ todo' = [todo EXCEPT ![r] = {}]
    /\ again' = [again EXCEPT ![r] = {}]
    /\ accounts' = [accounts EXCEPT ![r] = NoAccount]
    /\ Goto(r, "stamp")
    /\ UNCHANGED <<force, requestedAt>>

\* The request is over and its locals are out of scope.
Done(r) ==
    /\ Goto(r, "idle")
    /\ force' = [force EXCEPT ![r] = FALSE]
    /\ requestedAt' = [requestedAt EXCEPT ![r] = 0]
    /\ answer' = [answer EXCEPT ![r] = NoSnapshot]
    /\ fellBack' = [fellBack EXCEPT ![r] = FALSE]
    /\ served' = served \ {r}
    /\ UNCHANGED <<todo, again, accounts>>

\* handleManagement: GET .../usage, with or without refresh=1, POST .../refresh.
Ask(r) ==
    /\ At(r, "idle")
    /\ \E f \in BOOLEAN : force' = [force EXCEPT ![r] = f]
    /\ requestedAt' = [requestedAt EXCEPT ![r] = now]
    /\ Goto(r, "check")
    /\ UNCHANGED <<now, usageCache, collector, todo, again, accounts, answer, fellBack, served>>

Check(r) ==
    /\ At(r, "check")
    /\ \/ Satisfies(r) /\ Answer(r, usageCache) /\ UNCHANGED <<fellBack, served>>
       \/ ~Satisfies(r) /\ Goto(r, "wait") /\ UNCHANGED locals
    /\ UNCHANGED <<now, usageCache, collector>>

\* Faulty: collections are not serialised.
LockSkipped(r) ==
    /\ At(r, "wait")
    /\ collector' = r
    /\ Goto(r, "recheck")
    /\ UNCHANGED <<now, usageCache, locals>>

Lock(r) ==
    /\ At(r, "wait") /\ collector = Nobody
    /\ collector' = r
    /\ Goto(r, "recheck")
    /\ UNCHANGED <<now, usageCache, locals>>

\* Faulty: a request that had to wait collects without looking again.
RecheckSkipped(r) ==
    /\ At(r, "recheck")
    /\ Goto(r, "list")
    /\ UNCHANGED <<now, usageCache, collector, locals>>

\* Another collection may have finished while this request waited.
Recheck(r) ==
    /\ At(r, "recheck")
    /\ \/ /\ Satisfies(r)
          /\ Answer(r, usageCache)
          /\ collector' = Nobody
          /\ UNCHANGED <<fellBack, served>>
       \/ ~Satisfies(r) /\ Goto(r, "list") /\ UNCHANGED <<collector, locals>>
    /\ UNCHANGED <<now, usageCache>>

\* host.auth.list; the operator adds and removes credentials at will.
List(r) ==
    /\ At(r, "list")
    /\ \E listed \in SUBSET Creds : todo' = [todo EXCEPT ![r] = listed]
    /\ Goto(r, "read")
    /\ UNCHANGED <<now, usageCache, collector, force, requestedAt, again, accounts,
                   answer, fellBack, served>>

\* Faulty: a failed listing drops the snapshot it falls back on.
ListFailsForgetting(r) ==
    /\ At(r, "list")
    /\ usageCache # NoSnapshot
    /\ usageCache' = NoSnapshot
    /\ Answer(r, usageCache)
    /\ fellBack' = [fellBack EXCEPT ![r] = TRUE]
    /\ collector' = Nobody
    /\ UNCHANGED <<now, served>>

\* Faulty: the error return forgets usageCollectMu.
ListFailsLocked(r) ==
    /\ At(r, "list")
    /\ usageCache = NoSnapshot
    /\ Done(r)
    /\ UNCHANGED <<now, usageCache, collector>>

\* The listing fails: the previous snapshot is kept and returned; without one
\* the request ends with 502.
ListFails(r) ==
    /\ At(r, "list")
    /\ \/ /\ usageCache # NoSnapshot
          /\ Answer(r, usageCache)
          /\ fellBack' = [fellBack EXCEPT ![r] = TRUE]
          /\ UNCHANGED served
       \/ usageCache = NoSnapshot /\ Done(r)
    /\ collector' = Nobody
    /\ UNCHANGED <<now, usageCache>>

\* The list of cards with the one of account c put in.
WithCard(cards, c, reading) ==
    [d \in DOMAIN cards \cup {c} |-> IF d = c THEN reading ELSE cards[d]]

\* Faulty: a cancelled read is tried again for as long as it takes.
ReadPersistently(r) ==
    /\ At(r, "read")
    /\ \E c \in todo[r] :
          \/ \E reading \in {now, Unread} :
                /\ accounts' = [accounts EXCEPT ![r] = WithCard(@, c, reading)]
                /\ todo' = [todo EXCEPT ![r] = @ \ {c}]
                /\ UNCHANGED again
          \/ /\ again' = [again EXCEPT ![r] = IF c \in @ THEN @ \ {c} ELSE @ \cup {c}]
             /\ UNCHANGED <<todo, accounts>>
    /\ UNCHANGED <<now, usageCache, collector, pc, force, requestedAt, answer, fellBack,
                   served>>

\* One turn of the loop: the account's /v1/me is read or its card carries the
\* error; a read the host cancelled is tried once more.
Read(r) ==
    /\ At(r, "read")
    /\ \E c \in todo[r] :
          \/ \E reading \in {now, Unread} :
                /\ accounts' = [accounts EXCEPT ![r] = WithCard(@, c, reading)]
                /\ todo' = [todo EXCEPT ![r] = @ \ {c}]
                /\ UNCHANGED again
          \/ /\ c \notin again[r]
             /\ again' = [again EXCEPT ![r] = @ \cup {c}]
             /\ UNCHANGED <<todo, accounts>>
    /\ UNCHANGED <<now, usageCache, collector, pc, force, requestedAt, answer, fellBack,
                   served>>

\* Faulty: the snapshot is stamped with no time at all.
StoreUnstamped(r) ==
    /\ At(r, "read") /\ todo[r] = {}
    /\ usageCache' = [fetchedAt |-> -1, accounts |-> accounts[r]]
    /\ Answer(r, usageCache')
    /\ collector' = Nobody
    /\ UNCHANGED <<now, fellBack, served>>

\* The refreshes that wait for their turn, or to look for the first time.
Waiting == {q \in Requests : /\ pc[q] \in {"check", "wait"}
                             /\ force[q] /\ requestedAt[q] < now}

\* Every account is read: the snapshot becomes the cache's and the answer.
Store(r) ==
    /\ At(r, "read") /\ todo[r] = {}
    /\ usageCache' = [fetchedAt |-> now, accounts |-> accounts[r]]
    /\ Answer(r, usageCache')
    /\ collector' = Nobody
    /\ served' = served \cup Waiting
    /\ UNCHANGED <<now, fellBack>>

\* The handler calls snapshotTime, under the mutex again, and replies.
Stamp(r) ==
    /\ At(r, "stamp")
    /\ Done(r)
    /\ UNCHANGED <<now, usageCache, collector>>

Tick == /\ now < MaxTime
        /\ now' = now + 1
        /\ UNCHANGED <<usageCache, collector, pc, locals>>

Work(r) == \/ Check(r) \/ Recheck(r) \/ List(r) \/ ListFails(r) \/ Read(r)
           \/ Store(r) \/ Stamp(r)

Next == Tick \/ \E r \in Requests : Ask(r) \/ Lock(r) \/ Work(r)

\* A request keeps running, and a host call it waits for is answered or fails;
\* sync.Mutex hands the lock to a waiter that has been starved for 1ms.
Fairness == \A r \in Requests : WF_vars(Work(r)) /\ SF_vars(Lock(r))

Spec == Init /\ [][Next]_vars /\ Fairness

----------------------------------------------------------------------------
(* Properties *)

TypeOK ==
    /\ now \in Times
    /\ usageCache \in Snapshots \cup {NoSnapshot}
    /\ collector \in Requests \cup {Nobody}
    /\ pc \in [Requests -> Stages]
    /\ force \in [Requests -> BOOLEAN]
    /\ requestedAt \in [Requests -> Times]
    /\ todo \in [Requests -> SUBSET Creds]
    /\ again \in [Requests -> SUBSET Creds]
    /\ accounts \in [Requests -> Readings]
    /\ answer \in [Requests -> Snapshots \cup {NoSnapshot}]
    /\ fellBack \in [Requests -> BOOLEAN]
    /\ served \subseteq Requests

\* A refresh never hands back the snapshot it was told to replace: unless the
\* listing failed, what it returns was completed no earlier than the request
\* (cachedUsage carries force through both checks).
RefreshRefreshes ==
    \A r \in Requests : At(r, "stamp") /\ force[r] /\ ~fellBack[r] =>
        answer[r].fetchedAt >= requestedAt[r]

\* What the cache knows of an account never goes back in time, and a failed
\* listing does not take the accounts away: collections do not overtake each
\* other, although none of them holds the cache's mutex while it reads.
ReadingsNeverGoBack ==
    [][usageCache # NoSnapshot =>
          LET old == usageCache.accounts
              new == usageCache'.accounts
          IN /\ usageCache' # NoSnapshot
             /\ \A c \in DOMAIN old \cap DOMAIN new :
                   old[c] # Unread /\ new[c] # Unread => old[c] <= new[c]]_vars

\* Concurrent refreshes collapse: of all the refreshes that wait when a
\* collection completes, none collects again, whatever fails and however long they
\* go on waiting; however many wait, they cost that one collection (cachedUsage
\* looks again under usageCollectMu).
RefreshesCollapse == \A r \in served : pc[r] \notin {"list", "read"}

\* The time put next to the accounts is not older than they are.
StampNotOlder ==
    \A r \in Requests : At(r, "stamp") =>
        /\ usageCache # NoSnapshot
        /\ answer[r].fetchedAt <= usageCache.fetchedAt

\* The collection lock is held exactly by the request that collects.
CollectorHoldsLock ==
    \A r \in Requests : pc[r] \in Collecting <=> collector = r

\* A collection ends: each of its reads takes a turn from the two an account
\* has, so it never holds up the others for more than two reads per account,
\* however many of them the host cancels (collectUsage, fetchMe).
Turns(left, tried) == Cardinality(left) + Cardinality(left \ tried)

ReadsAreBounded ==
    [][\A r \in Requests : At(r, "read") /\ pc'[r] = "read" =>
          \/ Turns(todo'[r], again'[r]) < Turns(todo[r], again[r])
          \/ UNCHANGED <<todo[r], again[r], accounts[r]>>]_vars

\* Every request is answered, whatever failed in it or before it.
EveryRequestAnswered ==
    \A r \in Requests : At(r, "check") ~> At(r, "idle")
=============================================================================
