------------------------------ MODULE Checkin ------------------------------
(***************************************************************************)
(* The daily check-in: passes of runCheckinFor over the credentials (the   *)
(* scheduler's and those started from the panel), the panel's handlers     *)
(* that save and clear a cookie, and the website they talk to.             *)
(*                                                                         *)
(* A sidecar is used here as the register CheckinSidecar implements: one   *)
(* step per locked read or update.  Everything else is interleaved: a run  *)
(* reads the cookie, asks /api/me, submits the claim and records the       *)
(* outcome in four steps, and anything may happen in between.  A process   *)
(* that dies is a goroutine that takes no further step.                    *)
(***************************************************************************)
EXTENDS SidecarRecords, Naturals

CONSTANTS Creds,          \* credentials host.auth.list names; Paths is the
                          \* set of those whose host entry reports a path
          NoCred,         \* no credential
          Accounts,       \* accounts of the website
          AccountOf,      \* the account each credential belongs to
          HasEmail,       \* credentials whose file names the account
          OwnerOf,        \* the account each session cookie belongs to
          SiteNamesOwner, \* does /api/me report the account's email
          Runners,        \* goroutines that run passes
          Editors,        \* handlers that save and clear cookies
          MaxDay,         \* bound: the last day considered
          DiskFaults      \* may reads and writes of a sidecar fail

ASSUME CheckinAssumption ==
    /\ Paths \subseteq Creds /\ HasEmail \subseteq Creds
    /\ NoCred \notin Creds
    /\ AccountOf \in [Creds -> Accounts]
    /\ OwnerOf \in [Cookies -> Accounts]
    /\ SiteNamesOwner \in BOOLEAN /\ DiskFaults \in BOOLEAN
    /\ MaxDay \in Nat
    /\ Runners \cap Editors = {}
    /\ Runs = {"ok", "already", "error", "auth_expired"}

VARIABLES sidecar,    \* path -> persisted record
          kept,       \* credentials whose last finished edit saved a cookie
          live,       \* website: sessions that have not expired
          claimed,    \* website: day -> accounts that checked in on it
          today,      \* website: the current day
          pc,         \* where each goroutine is
          cred,       \* the credential it works on
          cookie,     \* the cookie it sends
          todo,       \* a pass: listed credentials still to visit
          began,      \* a run: the day it read the cookie
          answer,     \* a run: the website's last answer
          result      \* a run: the state it returns and, mostly, persists

site == <<live, claimed, today>>
vars == <<sidecar, kept, live, claimed, today, pc, cred, cookie,
          todo, began, answer, result>>

Procs   == Runners \cup Editors
Results == Runs \cup {"none", "no_cookie"}
Answers == {"none", "200", "401", "error"}

At(p, stage)   == pc[p] = stage
Goto(p, stage) == pc' = [pc EXCEPT ![p] = stage]

----------------------------------------------------------------------------
(* Sidecar access.  A credential without a path gets a temporary name that *)
(* is drawn anew on every call, so what is written there is never found.   *)

Stored(c) == IF c \in Paths THEN sidecar[c] ELSE EmptySidecar

UpdateStored(c, u) ==
    sidecar' = IF c \in Paths THEN [sidecar EXCEPT ![c] = Apply(u, sidecar[c])]
                              ELSE sidecar

----------------------------------------------------------------------------
(* The website *)

\* What /api/me can answer to a session.  "error" is any other status, a lost
\* request and a body that does not decode.
AnswersTo(k) == {"error"} \cup (IF k \in live THEN {"200"} ELSE {"401"})

CheckedIn(k) == OwnerOf[k] \in claimed[today]

Booked(k) == [claimed EXCEPT ![today] = @ \cup {OwnerOf[k]}]

SessionExpires(k) ==
    /\ k \in live
    /\ live' = live \ {k}
    /\ UNCHANGED <<sidecar, kept, claimed, today, pc, cred, cookie,
                   todo, began, answer, result>>

\* The user checks in on the website.
BrowserClaim(a) ==
    /\ a \notin claimed[today]
    /\ claimed' = [claimed EXCEPT ![today] = @ \cup {a}]
    /\ UNCHANGED <<sidecar, kept, live, today, pc, cred, cookie,
                   todo, began, answer, result>>

NewDay ==
    /\ today < MaxDay
    /\ today' = today + 1
    /\ UNCHANGED <<sidecar, kept, live, claimed, pc, cred, cookie,
                   todo, began, answer, result>>

----------------------------------------------------------------------------
(* A pass *)

Init ==
    /\ sidecar = [c \in Paths |-> EmptySidecar]
    /\ kept = {}
    /\ live = Cookies
    /\ claimed = [d \in 0..MaxDay |-> {}]
    /\ today = 0
    /\ pc = [p \in Procs |-> "idle"]
    /\ cred = [p \in Procs |-> NoCred]
    /\ cookie = [p \in Procs |-> NoCookie]
    /\ todo = [p \in Runners |-> {}]
    /\ began = [p \in Runners |-> 0]
    /\ answer = [p \in Runners |-> "none"]
    /\ result = [p \in Runners |-> "none"]

\* runScheduledCheckins and handleCheckinRun list the credentials; a manual run
\* may filter them by one auth index.  A failed list ends the pass at once.
StartPass(p) ==
    /\ At(p, "idle")
    /\ \E chosen \in {Creds} \cup {{c} : c \in Creds} :
          todo' = [todo EXCEPT ![p] = chosen]
    /\ Goto(p, "next")
    /\ UNCHANGED <<sidecar, kept, site, cred, cookie, began, answer, result>>

\* The loop head.
Visit(p) ==
    /\ At(p, "next")
    /\ \E c \in todo[p] : /\ todo' = [todo EXCEPT ![p] = @ \ {c}]
                          /\ cred' = [cred EXCEPT ![p] = c]
    /\ Goto(p, "get")
    /\ UNCHANGED <<sidecar, kept, site, cookie, began, answer, result>>

EndPass(p) ==
    /\ At(p, "next") /\ todo[p] = {}
    /\ Goto(p, "idle")
    /\ cred' = [cred EXCEPT ![p] = NoCred]
    /\ UNCHANGED <<sidecar, kept, site, cookie, todo, began, answer, result>>

\* host.auth.get; a credential that cannot be read is skipped.
Get(p) ==
    /\ At(p, "get")
    /\ Goto(p, "read") \/ Goto(p, "next")
    /\ UNCHANGED <<sidecar, kept, site, cred, cookie, todo, began, answer, result>>

\* The run returns and its locals are gone.
EndRun(p) ==
    /\ Goto(p, "next")
    /\ cookie' = [cookie EXCEPT ![p] = NoCookie]
    /\ began' = [began EXCEPT ![p] = 0]
    /\ answer' = [answer EXCEPT ![p] = "none"]
    /\ result' = [result EXCEPT ![p] = "none"]

\* Faulty: the missing cookie is recorded like any other outcome.
ReadCookieRecorded(p) ==
    /\ At(p, "read")
    /\ Stored(cred[p]).cookie = NoCookie
    /\ Goto(p, "record") /\ result' = [result EXCEPT ![p] = "no_cookie"]
    /\ UNCHANGED <<sidecar, kept, site, cred, cookie, todo, began, answer>>

\* runCheckinFor reads the sidecar; without a cookie, and when the read fails,
\* it returns without persisting its result.
ReadCookie(p) ==
    /\ At(p, "read")
    /\ \/ /\ DiskFaults
          /\ Goto(p, "return") /\ result' = [result EXCEPT ![p] = "error"]
          /\ UNCHANGED <<cookie, began>>
       \/ /\ Stored(cred[p]).cookie = NoCookie
          /\ Goto(p, "return") /\ result' = [result EXCEPT ![p] = "no_cookie"]
          /\ UNCHANGED <<cookie, began>>
       \/ /\ Stored(cred[p]).cookie # NoCookie
          /\ cookie' = [cookie EXCEPT ![p] = Stored(cred[p]).cookie]
          /\ began' = [began EXCEPT ![p] = today]
          /\ Goto(p, "me")
          /\ UNCHANGED result
    /\ UNCHANGED <<sidecar, kept, site, cred, todo, answer>>

Conclude(p, r) == Goto(p, "record") /\ result' = [result EXCEPT ![p] = r]

\* webMe: an expired session, any other failure, an account that has checked
\* in today, or one that has not.
AskMe(p) ==
    /\ At(p, "me")
    /\ \E a \in AnswersTo(cookie[p]) :
          /\ answer' = [answer EXCEPT ![p] = a]
          /\ \/ a = "401" /\ Conclude(p, "auth_expired")
             \/ a = "error" /\ Conclude(p, "error")
             \/ a = "200" /\ CheckedIn(cookie[p]) /\ Conclude(p, "already")
             \/ /\ a = "200" /\ ~CheckedIn(cookie[p])
                /\ Goto(p, "claim") /\ UNCHANGED result
    /\ UNCHANGED <<sidecar, kept, site, cred, cookie, todo, began>>

\* Faulty: a claim whose answer is lost counts as done.
SubmitOptimistic(p) ==
    /\ At(p, "claim")
    /\ answer' = [answer EXCEPT ![p] = "error"]
    /\ Conclude(p, "ok")
    /\ UNCHANGED <<sidecar, kept, site, cred, cookie, todo, began>>

\* claimLoginCheckin.  The site books a live session's first claim of the day;
\* it answers 401 to an expired session and an error to a repeated claim.  An
\* answer can also be lost on its way back, after the site has booked the claim.
\* Every failure, the 401 included, is recorded as "error".
SubmitClaim(p) ==
    LET k == cookie[p] IN
    /\ At(p, "claim")
    /\ \/ /\ k \in live /\ ~CheckedIn(k)
          /\ claimed' = Booked(k)
          /\ \/ answer' = [answer EXCEPT ![p] = "200"] /\ Conclude(p, "ok")
             \/ answer' = [answer EXCEPT ![p] = "error"] /\ Conclude(p, "error")
       \/ /\ k \notin live
          /\ answer' = [answer EXCEPT ![p] = "401"] /\ Conclude(p, "error")
          /\ UNCHANGED claimed
       \/ /\ answer' = [answer EXCEPT ![p] = "error"] /\ Conclude(p, "error")
          /\ UNCHANGED claimed
    /\ UNCHANGED <<sidecar, kept, live, today, cred, cookie, todo, began>>

\* Faulty: the closure starts from an empty record instead of the loaded one.
RecordAfresh(p) ==
    /\ At(p, "record")
    /\ sidecar' = IF cred[p] \notin Paths THEN sidecar ELSE
          [sidecar EXCEPT ![cred[p]] = [EmptySidecar EXCEPT !.lastRun = result[p]]]
    /\ EndRun(p)
    /\ UNCHANGED <<kept, site, cred, todo>>

\* Persists last_run; an error of the update is ignored.
Record(p) ==
    /\ At(p, "record")
    /\ \/ UpdateStored(cred[p], RecordRun(result[p]))
       \/ DiskFaults /\ UNCHANGED sidecar
    /\ EndRun(p)
    /\ UNCHANGED <<kept, site, cred, todo>>

ReturnUnrecorded(p) ==
    /\ At(p, "return")
    /\ EndRun(p)
    /\ UNCHANGED <<sidecar, kept, site, cred, todo>>

----------------------------------------------------------------------------
(* The panel's edits *)

\* handleCheckinSetCookie with a cookie that is not empty after normalisation.
BeginSave(e) ==
    /\ At(e, "idle")
    /\ \E c \in Creds, k \in Cookies : /\ cred' = [cred EXCEPT ![e] = c]
                                       /\ cookie' = [cookie EXCEPT ![e] = k]
    /\ Goto(e, "validate")
    /\ UNCHANGED <<sidecar, kept, site, todo, began, answer, result>>

\* Faulty: any session the site accepts is stored.
MatchesUnchecked(c, k) == TRUE

\* The ownership guard; a missing email on either side is tolerated.
Matches(c, k) == c \in HasEmail /\ SiteNamesOwner => OwnerOf[k] = AccountOf[c]

EndSave(e) == /\ Goto(e, "idle")
              /\ cred' = [cred EXCEPT ![e] = NoCred]
              /\ cookie' = [cookie EXCEPT ![e] = NoCookie]

\* The cookie is validated with /api/me before it is stored.
Validate(e) ==
    /\ At(e, "validate")
    /\ \/ "200" \in AnswersTo(cookie[e]) /\ Matches(cred[e], cookie[e])
          /\ Goto(e, "store") /\ UNCHANGED <<cred, cookie>>
       \/ EndSave(e)
    /\ UNCHANGED <<sidecar, kept, site, todo, began, answer, result>>

\* The save itself.  The sidecar is read once more for the row the panel is answered
\* with; that read changes nothing and is left out.
Store(e) ==
    /\ At(e, "store")
    /\ \/ /\ UpdateStored(cred[e], SaveCookie(cookie[e]))
          /\ kept' = kept \cup {cred[e]}
       \/ DiskFaults /\ UNCHANGED <<sidecar, kept>>
    /\ EndSave(e)
    /\ UNCHANGED <<site, todo, began, answer, result>>

\* handleCheckinClearCookie.
Clear(e) ==
    /\ At(e, "idle")
    /\ \E c \in Creds : UpdateStored(c, ClearCookie) /\ kept' = kept \ {c}
    /\ UNCHANGED <<site, pc, cred, cookie, todo, began, answer, result>>

----------------------------------------------------------------------------

RunStep(p) == Visit(p) \/ EndPass(p) \/ Get(p) \/ ReadCookie(p)
                \/ AskMe(p) \/ SubmitClaim(p) \/ Record(p)
                \/ ReturnUnrecorded(p)

Next == \/ \E p \in Runners : StartPass(p) \/ RunStep(p)
        \/ \E e \in Editors : BeginSave(e) \/ Validate(e) \/ Store(e) \/ Clear(e)
        \/ \E k \in Cookies : SessionExpires(k)
        \/ \E a \in Accounts : BrowserClaim(a)
        \/ NewDay

Spec == Init /\ [][Next]_vars

----------------------------------------------------------------------------
(* Properties *)

Stages == {"idle", "next", "get", "read", "me", "claim", "record", "return",
           "validate", "store"}

TypeOK ==
    /\ sidecar \in [Paths -> Sidecars]
    /\ kept \subseteq Creds
    /\ live \subseteq Cookies
    /\ claimed \in [0..MaxDay -> SUBSET Accounts]
    /\ today \in 0..MaxDay
    /\ pc \in [Procs -> Stages]
    /\ cred \in [Procs -> Creds \cup {NoCred}]
    /\ cookie \in [Procs -> Cookies \cup {NoCookie}]
    /\ todo \in [Runners -> SUBSET Creds]
    /\ began \in [Runners -> 0..MaxDay]
    /\ answer \in [Runners -> Answers]
    /\ result \in [Runners -> Results]
    \* only outcomes the sidecar knows reach the persisting step
    /\ \A p \in Runners : At(p, "record") => result[p] \in Runs

\* When both emails are known, a sidecar holds a session of the credential's
\* own account, and so does every run in flight: no account's check-in is
\* booked to another one (the ownership guard of handleCheckinSetCookie).
CookiesStayHome ==
    SiteNamesOwner =>
        /\ \A c \in Paths \cap HasEmail :
              LET k == sidecar[c].cookie IN k # NoCookie => OwnerOf[k] = AccountOf[c]
        /\ \A p \in Runners : cred[p] \in HasEmail /\ cookie[p] # NoCookie =>
              OwnerOf[cookie[p]] = AccountOf[cred[p]]

\* A run concludes "ok" or "already" only if the website booked a check-in of
\* the session's account between the day the run began and now, whatever was
\* lost, expired, cleared or replaced meanwhile (runCheckinFor).
SuccessIsReal ==
    \A p \in Runners : At(p, "record") /\ result[p] \in {"ok", "already"} =>
        \E d \in began[p]..today : OwnerOf[cookie[p]] \in claimed[d]

\* After a cookie was saved for a credential that has a path, and until it is
\* cleared, no run of that credential finds the cookie missing: a concurrent
\* run that records its outcome does not drop it (updateCheckinSidecar).
SavedCookieIsFound ==
    [][\A p \in Runners : At(p, "read") /\ cred[p] \in kept \cap Paths =>
          result'[p] # "no_cookie"]_vars

\* The runs and the edits reach the sidecars only by whole updates of the
\* register that CheckinSidecar implements, each taking one step, whatever else
\* happens between a run's reading of the cookie and its recording.
Register == INSTANCE SidecarRegister WITH inherited <- [f \in Paths |-> {}]
UsesRegister == Register!Spec

\* A run whose session the website refused as expired reports auth_expired, as
\* the comment on errCheckinSessionExpired has it.
ExpiryReported ==
    \A p \in Runners : At(p, "record") /\ answer[p] = "401" => result[p] = "auth_expired"
============================================================================
