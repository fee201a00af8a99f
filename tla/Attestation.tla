---------------------------- MODULE Attestation ----------------------------
(***************************************************************************)
(* The life of the client_attestation token of one credential: the entry   *)
(* attestationFor keeps in memory, the copy in the credential file, the    *)
(* chat requests that use and refresh it, the host's auth.refresh, logins  *)
(* that replace the credential, and restarts.                              *)
(*                                                                         *)
(* Entries of different keys share nothing, so one entry is modelled.  A   *)
(* critical section under entry.mu is one step; entry.fetching is a lock   *)
(* of its own, and a /models round-trip takes time.                        *)
(***************************************************************************)
EXTENDS Integers, FiniteSets

CONSTANTS Users,       \* goroutines that call attestationFor
          Refreshers,  \* goroutines that serve auth.refresh and model.for_auth
          Nobody,      \* a free lock
          MaxDevice,   \* bound: how often the account registers a device
          NoToken,     \* the empty attestation
          NoCall,      \* no call in progress
          Margin,      \* attestationRefreshMargin
          Cooldown,    \* attestationFailCooldown
          UnknownTTL,  \* attestationUnknownTTL
          Lifetime,    \* how long the gateway honours a token
          MaxLatency,  \* how long an answer of /models can be under way
          MaxTime      \* bound: the clock stops here

VARIABLES now,       \* the clock; it starts at 1 and 0 is the zero time.Time
          file,      \* the credential file the host hands to every call
          entry,     \* the attestationEntry: token, expiresAt, lastFailure
          fetching,  \* holder of entry.fetching
          pc,        \* where each goroutine is
          sa,        \* the credential its call was made with
          got,       \* the answer of /models on its way to it
          failedAt   \* history: when a request's refresh last failed, or 0

vars == <<now, file, entry, fetching, pc, sa, got, failedAt>>

Procs == Users \cup Refreshers
Time  == 0..(MaxTime + Lifetime)

\* Every approval registers a new device.
Devices == 1..MaxDevice

\* A token was issued to a device and is honoured until it dies.
Tokens    == [device : Devices, dies : Time]
OptTokens == Tokens \cup {NoToken}

Files   == [device : Devices, token : OptTokens, expiresAt : Time]
Entries == [token : OptTokens, expiresAt : Time, lastFailure : Time]
Answers == [expiresIn : {0, Lifetime}, at : Time]

NoEntry  == [token |-> NoToken, expiresAt |-> 0, lastFailure |-> 0]
NoAnswer == [expiresIn |-> 0, at |-> 0]

ASSUME AttestationAssumption ==
    /\ Users \cap Refreshers = {} /\ Nobody \notin Users
    /\ NoToken \notin Tokens /\ NoCall \notin Files
    /\ MaxDevice \in Nat \ {0}
    /\ {Margin, Cooldown, UnknownTTL, Lifetime, MaxLatency, MaxTime} \subseteq Nat
    /\ 1 <= MaxTime
    /\ MaxLatency < Margin /\ 0 < Cooldown
    /\ Margin + Cooldown <= UnknownTTL /\ UnknownTTL <= Lifetime

Alive(t) == t # NoToken /\ now < t.dies

----------------------------------------------------------------------------
(* The code's tests on an entry *)

\* Faulty: a zero expiry reads as "never expires".
StaleUnlessZero(e) ==
    \/ e.token = NoToken
    \/ e.expiresAt # 0 /\ now > e.expiresAt - Margin

Stale(e) ==
    \/ e.token = NoToken
    \/ e.expiresAt = 0
    \/ now > e.expiresAt - Margin

Cooling(e) == e.lastFailure # 0 /\ now - e.lastFailure < Cooldown

\* attestationFreshUntil.
FreshUntil(expiresIn) == now + (IF expiresIn > 0 THEN expiresIn ELSE UnknownTTL)

\* The seed attestationFor takes from the credential after a restart.
Seeded(e, s) ==
    IF e.token = NoToken /\ s.token # NoToken
    THEN [e EXCEPT !.token = s.token,
                   !.expiresAt = IF s.expiresAt > 0 THEN s.expiresAt ELSE @]
    ELSE e

----------------------------------------------------------------------------

At(p, stage)   == pc[p] = stage
InFlight(p)    == At(p, "fetch") \/ At(p, "arrive")
Goto(p, stage) == pc' = [pc EXCEPT ![p] = stage]

\* The credential may come from a login, or from a copied CLI config whose
\* token has no recorded expiry and may be long dead.
Init ==
    /\ now = 1
    /\ file \in [device : {1}, expiresAt : {0},
                token : [device : {1}, dies : {0, Lifetime}] \cup {NoToken}]
    /\ entry = NoEntry
    /\ fetching = Nobody
    /\ pc = [p \in Procs |-> "idle"]
    /\ sa = [p \in Procs |-> NoCall]
    /\ got = [p \in Procs |-> NoAnswer]
    /\ failedAt = 0

Without(s) == [s EXCEPT !.token = NoToken, !.expiresAt = 0]

\* The host calls with the credential as it is on file.
Call(p) ==
    /\ At(p, "idle")
    /\ sa' = [sa EXCEPT ![p] = file]
    /\ Goto(p, IF p \in Users THEN "decide" ELSE "fetch")
    /\ UNCHANGED <<now, file, entry, fetching, got, failedAt>>

\* Every return of attestationFor answers with the token the entry then holds.
Return(p) == /\ Goto(p, "idle")
             /\ sa' = [sa EXCEPT ![p] = NoCall]
             /\ got' = [got EXCEPT ![p] = NoAnswer]

\* Phase 1 of attestationFor: a usable token, or one that failed to refresh a
\* moment ago, is returned at once.
Decide(p) ==
    LET e == Seeded(entry, sa[p]) IN
    /\ At(p, "decide")
    /\ entry' = e
    /\ \/ (~Stale(e) \/ Cooling(e)) /\ Return(p)
       \/ /\ Stale(e) /\ ~Cooling(e)
          /\ Goto(p, "wait")
          /\ sa' = [sa EXCEPT ![p] = Without(@)]
          /\ UNCHANGED got
    /\ UNCHANGED <<now, file, fetching, failedAt>>

\* Faulty: requests refresh without queueing behind each other.
LockSkipped(p) ==
    /\ At(p, "wait")
    /\ fetching' = p
    /\ Goto(p, "recheck")
    /\ UNCHANGED <<now, file, entry, sa, got, failedAt>>

Lock(p) ==
    /\ At(p, "wait") /\ fetching = Nobody
    /\ fetching' = p
    /\ Goto(p, "recheck")
    /\ UNCHANGED <<now, file, entry, sa, got, failedAt>>

\* Faulty: the waiter trusts what it saw before it waited.
RecheckSkipped(p) ==
    /\ At(p, "recheck")
    /\ Goto(p, "fetch")
    /\ UNCHANGED <<now, file, entry, fetching, sa, got, failedAt>>

\* Another request may have refreshed, or failed to, while this one waited.
Recheck(p) ==
    /\ At(p, "recheck")
    /\ \/ /\ ~Stale(entry) \/ Cooling(entry)
          /\ Return(p)
          /\ fetching' = Nobody
       \/ /\ Stale(entry) /\ ~Cooling(entry)
          /\ Goto(p, "fetch")
          /\ UNCHANGED <<fetching, sa, got>>
    /\ UNCHANGED <<now, file, entry, failedAt>>

\* The gateway issues a token to the device of the request.  It need not say
\* how long the token lives.
Issue(p) ==
    /\ At(p, "fetch")
    /\ \E declared \in {0, Lifetime} :
          got' = [got EXCEPT ![p] = [expiresIn |-> declared, at |-> now]]
    /\ Goto(p, "arrive")
    /\ UNCHANGED <<now, file, entry, fetching, sa, failedAt>>

Issued(p) == [device |-> sa[p].device, dies |-> got[p].at + Lifetime]

\* attestationFor stores what it fetched.
Store(p) ==
    /\ At(p, "arrive") /\ p \in Users
    /\ entry' = [token |-> Issued(p), expiresAt |-> FreshUntil(got[p].expiresIn),
                 lastFailure |-> 0]
    /\ fetching' = Nobody
    /\ Return(p)
    /\ UNCHANGED <<now, file, failedAt>>

\* Faulty: the failure return leaves entry.fetching locked.
FetchFailsLocked(p) ==
    /\ p \in Users /\ InFlight(p)
    /\ entry' = [entry EXCEPT !.lastFailure = now]
    /\ failedAt' = now
    /\ Return(p)
    /\ UNCHANGED <<now, file, fetching>>

\* Faulty: the failure is not remembered.
FetchFailsForgotten(p) ==
    /\ p \in Users /\ InFlight(p)
    /\ fetching' = Nobody
    /\ failedAt' = now
    /\ Return(p)
    /\ UNCHANGED <<now, file, entry>>

\* Faulty: "no failure yet" is written as a negative time.
FetchFailsNegative(p) ==
    /\ p \in Users /\ InFlight(p)
    /\ entry' = [entry EXCEPT !.lastFailure = now - Cooldown - 1]
    /\ failedAt' = now
    /\ fetching' = Nobody
    /\ Return(p)
    /\ UNCHANGED <<now, file>>

\* The round-trip fails, its answer is lost, or it carries no token: the entry
\* keeps its token and starts to cool down.
FetchFails(p) ==
    /\ p \in Users /\ InFlight(p)
    /\ entry' = [entry EXCEPT !.lastFailure = now]
    /\ failedAt' = now
    /\ fetching' = Nobody
    /\ Return(p)
    /\ UNCHANGED <<now, file>>

----------------------------------------------------------------------------
(* auth.refresh, login, restart *)

\* setAttestation: the credential with a new token and its expiry.
WithToken(t, expiresIn) ==
    [device |-> t.device, token |-> t, expiresAt |-> FreshUntil(expiresIn)]

\* cacheAttestation: the entry takes over the credential's token.
Cached(e, s) ==
    [token |-> s.token,
     expiresAt |-> IF s.expiresAt > 0 THEN s.expiresAt ELSE e.expiresAt,
     lastFailure |-> 0]

\* handleAuthRefresh: the fetched token goes to the entry and to the host, which
\* writes the credential file, or fails to or declines because a login has
\* replaced the credential meanwhile.
Refreshed(p) ==
    LET s == WithToken(Issued(p), got[p].expiresIn) IN
    /\ At(p, "arrive") /\ p \in Refreshers
    /\ entry' = Cached(entry, s)
    /\ file' \in {s, file}
    /\ Return(p)
    /\ UNCHANGED <<now, fetching, failedAt>>

\* handleModelForAuth: the model list came with a token, which the host is asked
\* to persist; the entry is left alone.  The attestationFor call the handler
\* makes before is a call like a chat request's.
Listed(p) ==
    /\ At(p, "arrive") /\ p \in Refreshers
    /\ file' \in {WithToken(Issued(p), got[p].expiresIn), file}
    /\ Return(p)
    /\ UNCHANGED <<now, entry, fetching, failedAt>>

\* handleAuthRefresh, when the answer carries no token: the host still gets the
\* credential as it was when the call was made, and may write it over a newer one.
RefreshedWithout(p) ==
    /\ At(p, "fetch") /\ p \in Refreshers
    /\ file' \in {sa[p], file}
    /\ Return(p)
    /\ UNCHANGED <<now, entry, fetching, failedAt>>

\* fetchModels failed, or gave handleModelForAuth no token.
RefreshFails(p) ==
    /\ p \in Refreshers /\ InFlight(p)
    /\ Return(p)
    /\ UNCHANGED <<now, file, entry, fetching, failedAt>>

\* The devices that somebody still knows of.
KnownDevices ==
    {file.device} \cup {t.device : t \in {entry.token} \ {NoToken}}
                  \cup {sa[p].device : p \in {q \in Procs : ~At(q, "idle")}}

\* The user approves another device.  handleAuthLoginPoll fetches a token for
\* it, or fails to and publishes an empty one; it does not touch the entry.
Login ==
    /\ \E d \in Devices :
          /\ \A known \in KnownDevices : known < d
          /\ file' \in {[device |-> d, token |-> NoToken, expiresAt |-> 0],
                        WithToken([device |-> d, dies |-> now + Lifetime], Lifetime)}
    /\ UNCHANGED <<now, entry, fetching, pc, sa, got, failedAt>>

\* The plugin starts again with an empty cache.
Restart ==
    /\ entry' = NoEntry
    /\ fetching' = Nobody
    /\ pc' = [p \in Procs |-> "idle"]
    /\ sa' = [p \in Procs |-> NoCall]
    /\ got' = [p \in Procs |-> NoAnswer]
    /\ failedAt' = 0
    /\ UNCHANGED <<now, file>>

\* The host's and the HTTP client's timeouts bound how long an answer travels.
Tick ==
    /\ now < MaxTime
    /\ \A p \in Procs : At(p, "arrive") => now < got[p].at + MaxLatency
    /\ now' = now + 1
    /\ UNCHANGED <<file, entry, fetching, pc, sa, got, failedAt>>

----------------------------------------------------------------------------

Next == \/ \E p \in Procs : Call(p) \/ Issue(p)
        \/ \E p \in Users : Decide(p) \/ Lock(p) \/ Recheck(p) \/ Store(p)
                              \/ FetchFails(p)
        \/ \E p \in Refreshers : Refreshed(p) \/ RefreshedWithout(p) \/ Listed(p)
                                   \/ RefreshFails(p)
        \/ Login
        \/ Restart
        \/ Tick

Spec == Init /\ [][Next]_vars

----------------------------------------------------------------------------
(* Properties *)

Stages == {"idle", "decide", "wait", "recheck", "fetch", "arrive"}

TypeOK ==
    /\ now \in 1..MaxTime
    /\ file \in Files
    /\ entry \in Entries
    /\ fetching \in Users \cup {Nobody}
    /\ pc \in [Procs -> Stages]
    /\ sa \in [Procs -> Files \cup {NoCall}]
    /\ got \in [Procs -> Answers]
    /\ failedAt \in Time

\* A token attestationFor hands out without a refresh is one the gateway still
\* honours: the margin covers the time the answer travelled, the bound put on
\* an undeclared lifetime, and what a restart reads back from the file.
FreshMeansAlive == ~Stale(entry) => Alive(entry.token)

\* Concurrent requests of a credential never have two refreshes under way
\* (entry.fetching).
SingleFlight == Cardinality({p \in Users : InFlight(p)}) <= 1

\* A flaky gateway is not hammered: once a request's refresh has failed, no
\* request starts another one within the cooldown, whether it came later, was
\* already waiting behind the failed one, or saw auth.refresh succeed meanwhile.
RefreshesAreSpaced ==
    [][\A p \in Users : ~At(p, "fetch") /\ pc'[p] = "fetch" =>
          failedAt = 0 \/ now - failedAt >= Cooldown]_vars

\* The steps in which attestationFor returns; its answer is entry'.token.
Returns(p) == ~At(p, "idle") /\ pc'[p] = "idle" /\ ~Restart

\* A request leaves without an honoured token only when a refresh has failed
\* within the cooldown: "every authenticated request must carry it".
UsableUnlessFailing ==
    [][\A p \in Users : Returns(p) => Alive(entry'.token) \/ Cooling(entry')]_vars

\* The refresh lock is held exactly by the request that is refreshing: no
\* failure, early return or lost answer leaves it locked, so the requests behind
\* it get their turn.
RefresherHoldsLock ==
    \A p \in Users : pc[p] \in {"recheck", "fetch", "arrive"} <=> fetching = p

\* A credential issued to a new device "must start with none and re-fetch, not
\* inherit a token issued for a device registration that no longer exists"
\* (credentialMetadata): no request made with it carries an earlier one's token.
NoInheritedToken ==
    [][\A p \in Users : Returns(p) /\ entry'.token # NoToken =>
          entry'.token.device >= sa[p].device]_vars
============================================================================
