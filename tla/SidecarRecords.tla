--------------------------- MODULE SidecarRecords ---------------------------
(***************************************************************************)
(* The record a check-in sidecar persists and the closures that change it. *)
(***************************************************************************)
CONSTANTS Paths,      \* sidecar paths, one per credential file
          Cookies,    \* non-empty website session cookies
          NoCookie,   \* the empty cookie string
          Runs,       \* the outcomes a check-in run can record
          NoRun       \* a nil last_run

ASSUME RecordsAssumption == NoCookie \notin Cookies /\ NoRun \notin Runs

\* updated_at is left out: it is written together with the cookie and read
\* only for display.
Sidecars == [cookie : Cookies \cup {NoCookie}, lastRun : Runs \cup {NoRun}]

\* A missing file, or the replacement of a corrupt one.
EmptySidecar == [cookie |-> NoCookie, lastRun |-> NoRun]

\* The updates callers hand to updateCheckinSidecar.
SaveCookie(c) == [kind |-> "save", cookie |-> c]
ClearCookie   == [kind |-> "clear"]
RecordRun(r)  == [kind |-> "record", run |-> r]

Updates == {SaveCookie(c) : c \in Cookies}
             \cup {ClearCookie}
             \cup {RecordRun(r) : r \in Runs}

Apply(u, sc) ==
    CASE u.kind = "save"   -> [sc EXCEPT !.cookie = u.cookie]
      [] u.kind = "clear"  -> [sc EXCEPT !.cookie = NoCookie]
      [] u.kind = "record" -> [sc EXCEPT !.lastRun = u.run]
=============================================================================
