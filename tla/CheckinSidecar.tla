--------------------------- MODULE CheckinSidecar ---------------------------
(***************************************************************************)
(* The sidecar files of the daily check-in, at the grain of the file       *)
(* operations: loadCheckinSidecar, saveCheckinSidecar, and the locked      *)
(* read and read-modify-write built from them, with I/O errors, process    *)
(* crashes and a v0.2.4 file waiting to be migrated.                       *)
(*                                                                         *)
(* A process is a goroutine (the scheduler's pass, a management handler)   *)
(* that keeps asking for reads and updates.  It runs in an instance of the *)
(* plugin: after a hot swap the old library stays mapped and its goroutines*)
(* live on, next to the new instance, each with a lock table of its own.   *)
(***************************************************************************)
EXTENDS SidecarRecords

CONSTANTS Absent,       \* no file under this name
          Torn,         \* a file whose content is not JSON
          Procs,        \* goroutines that touch sidecars
          NoProc,       \* a lock nobody holds
          Instances,    \* loaded copies of the plugin
          InstanceOf,   \* the instance each goroutine runs in
          Read,         \* the request of readCheckinSidecar: change nothing
          Asks,         \* what each goroutine may ask for
          DiskFaults    \* may reads, writes and renames fail

VARIABLES main,      \* path -> the sidecar file
          tmp,       \* path -> the file path + ".tmp"
          legacy,    \* path -> the v0.2.4 file path + ".json"
          lock,      \* instance, path -> holder of the per-path mutex
          pc,        \* where each goroutine is
          path,      \* the path it works on
          request,   \* the update it applies, or Read
          buf,       \* the record it holds in memory
          src        \* the file its load reads: "main" or "legacy"

disk   == <<main, tmp, legacy>>
locals == <<path, request, buf, src>>
vars    == <<main, tmp, legacy, lock, pc, path, request, buf, src>>

Content == Sidecars \cup {Absent, Torn}

ASSUME SidecarAssumption ==
    /\ Absent \notin Sidecars /\ Torn \notin Sidecars /\ Absent # Torn
    /\ NoProc \notin Procs
    /\ Read \notin Updates
    /\ InstanceOf \in [Procs -> Instances]
    /\ Asks \in [Procs -> SUBSET (Updates \cup {Read})]
    /\ DiskFaults \in BOOLEAN

\* A reload has not left a second instance behind.
SingleInstance == \A p, q \in Procs : InstanceOf[p] = InstanceOf[q]

Decoded(file) == IF file \in Sidecars THEN file ELSE EmptySidecar

\* What the next load of each path returns.
Visible == [f \in Paths |-> IF main[f] = Absent THEN Decoded(legacy[f])
                                                ELSE Decoded(main[f])]

\* The record of a legacy file that the current one does not replace.
Inherited == [f \in Paths |-> IF main[f] \in Sidecars \/ legacy[f] \notin Sidecars
                              THEN {} ELSE {legacy[f]}]

Stages  == {"idle", "waiting", "load", "decode", "quarantine", "write", "rename"}
Holding == Stages \ {"idle", "waiting"}

----------------------------------------------------------------------------
(* Steps *)

\* The files as earlier runs can have left them, damaged ones included.  v0.2.4
\* wrote the legacy name and later versions the current one; a save after a failed
\* rename leaves both.  A leftover temporary file is overwritten before it is used.
Init ==
    /\ main \in [Paths -> Content]
    /\ legacy \in [Paths -> Content]
    /\ tmp = [f \in Paths |-> Absent]
    /\ lock = [i \in Instances |-> [f \in Paths |-> NoProc]]
    /\ pc = [p \in Procs |-> "idle"]
    /\ path \in [Procs -> Paths]
    /\ request = [p \in Procs |-> Read]
    /\ buf = [p \in Procs |-> EmptySidecar]
    /\ src = [p \in Procs |-> "main"]

At(p, stage) == pc[p] = stage
Goto(p, stage) == pc' = [pc EXCEPT ![p] = stage]

\* Every return of the two locked operations runs the deferred unlock; the
\* goroutine's locals go out of scope.
Return(p) ==
    /\ lock' = [lock EXCEPT ![InstanceOf[p]][path[p]] = NoProc]
    /\ Goto(p, "idle")
    /\ request' = [request EXCEPT ![p] = Read]
    /\ buf' = [buf EXCEPT ![p] = EmptySidecar]
    /\ src' = [src EXCEPT ![p] = "main"]
    /\ UNCHANGED path

\* A caller enters readCheckinSidecar or updateCheckinSidecar.
Call(p) ==
    /\ At(p, "idle")
    /\ \E f \in Paths, u \in Asks[p] :
          /\ path' = [path EXCEPT ![p] = f]
          /\ request' = [request EXCEPT ![p] = u]
    /\ Goto(p, "waiting")
    /\ UNCHANGED <<disk, lock, buf, src>>

\* Faulty: one mutex per goroutine instead of one per path.
LockPerGoroutine(p) ==
    /\ At(p, "waiting")
    /\ lock' = [lock EXCEPT ![InstanceOf[p]][path[p]] = p]
    /\ Goto(p, "load")
    /\ UNCHANGED <<disk, locals>>

Lock(p) ==
    /\ At(p, "waiting")
    /\ lock[InstanceOf[p]][path[p]] = NoProc
    /\ lock' = [lock EXCEPT ![InstanceOf[p]][path[p]] = p]
    /\ Goto(p, "load")
    /\ UNCHANGED <<disk, locals>>

\* Faulty: the legacy file wins even when a current one exists.
LocateLegacyFirst(p) ==
    LET f == path[p] IN
    /\ At(p, "load")
    /\ IF legacy[f] = Absent
       THEN src' = [src EXCEPT ![p] = "main"] /\ UNCHANGED <<main, legacy>>
       ELSE \/ /\ main' = [main EXCEPT ![f] = legacy[f]]
               /\ legacy' = [legacy EXCEPT ![f] = Absent]
               /\ src' = [src EXCEPT ![p] = "main"]
            \/ src' = [src EXCEPT ![p] = "legacy"] /\ UNCHANGED <<main, legacy>>
    /\ Goto(p, "decode")
    /\ UNCHANGED <<tmp, lock, path, request, buf>>

\* The head of loadCheckinSidecar: without a current file, a legacy one is
\* renamed to the current name; when the rename fails the load reads it where
\* it is, and when one of the two os.Stat fails it is overlooked.
Locate(p) ==
    LET f == path[p] IN
    /\ At(p, "load")
    /\ \/ /\ main[f] # Absent \/ legacy[f] = Absent
          /\ src' = [src EXCEPT ![p] = "main"]
          /\ UNCHANGED <<main, legacy>>
       \/ /\ main[f] = Absent /\ legacy[f] # Absent
          /\ main' = [main EXCEPT ![f] = legacy[f]]
          /\ legacy' = [legacy EXCEPT ![f] = Absent]
          /\ src' = [src EXCEPT ![p] = "main"]
       \/ /\ DiskFaults /\ main[f] = Absent /\ legacy[f] # Absent
          /\ \E file \in {"main", "legacy"} : src' = [src EXCEPT ![p] = file]
          /\ UNCHANGED <<main, legacy>>
    /\ Goto(p, "decode")
    /\ UNCHANGED <<tmp, lock, path, request, buf>>

Source(p) == IF src[p] = "main" THEN main[path[p]] ELSE legacy[path[p]]

\* Faulty: the mutex guards the load only.
LoadedUnlocked(p, sc) ==
    \/ request[p] = Read /\ Return(p)
    \/ /\ request[p] # Read
       /\ buf' = [buf EXCEPT ![p] = Apply(request[p], sc)]
       /\ lock' = [lock EXCEPT ![InstanceOf[p]][path[p]] = NoProc]
       /\ Goto(p, "write")
       /\ UNCHANGED <<path, request, src>>

\* What follows a successful load: a read returns, an update goes on to save.
Loaded(p, sc) ==
    \/ request[p] = Read /\ Return(p)
    \/ /\ request[p] # Read
       /\ buf' = [buf EXCEPT ![p] = Apply(request[p], sc)]
       /\ Goto(p, "write")
       /\ UNCHANGED <<lock, path, request, src>>

\* os.ReadFile and json.Unmarshal.
Decode(p) ==
    /\ At(p, "decode")
    /\ \/ Source(p) # Torn /\ Loaded(p, Decoded(Source(p)))
       \/ Source(p) = Torn /\ Goto(p, "quarantine") /\ UNCHANGED <<lock, locals>>
    /\ UNCHANGED disk

\* os.ReadFile fails for another reason than a missing file.
ReadFails(p) ==
    /\ DiskFaults /\ At(p, "decode")
    /\ Return(p)
    /\ UNCHANGED disk

\* A corrupt file is moved to its .corrupt name, best effort, and the load
\* returns an empty record.
Quarantine(p) ==
    LET f == path[p] IN
    /\ At(p, "quarantine")
    /\ \/ src[p] = "main" /\ main' = [main EXCEPT ![f] = Absent] /\ UNCHANGED legacy
       \/ src[p] = "legacy" /\ legacy' = [legacy EXCEPT ![f] = Absent] /\ UNCHANGED main
       \/ DiskFaults /\ UNCHANGED <<main, legacy>>
    /\ Loaded(p, EmptySidecar)
    /\ UNCHANGED tmp

\* Faulty: a save that marshals the cookie alone.
WriteCookieOnly(p) ==
    /\ At(p, "write")
    /\ tmp' = [tmp EXCEPT ![path[p]] = [cookie |-> buf[p].cookie]]
    /\ Goto(p, "rename")
    /\ UNCHANGED <<main, legacy, lock, locals>>

\* saveCheckinSidecar: write the whole record to the temporary file ...
Write(p) ==
    /\ At(p, "write")
    /\ tmp' = [tmp EXCEPT ![path[p]] = buf[p]]
    /\ Goto(p, "rename")
    /\ UNCHANGED <<main, legacy, lock, locals>>

\* Faulty: the record is written in place, without a temporary file.
WriteFailsInPlace(p) ==
    /\ DiskFaults /\ At(p, "write")
    /\ main' = [main EXCEPT ![path[p]] = Torn]
    /\ Return(p)
    /\ UNCHANGED <<tmp, legacy>>

\* Faulty: the error return skips the unlock.
WriteFailsLocked(p) ==
    /\ DiskFaults /\ At(p, "write")
    /\ tmp' = [tmp EXCEPT ![path[p]] = Torn]
    /\ Goto(p, "idle")
    /\ UNCHANGED <<main, legacy, lock, locals>>

\* ... which may fail half-way and then returns the error ...
WriteFails(p) ==
    /\ DiskFaults /\ At(p, "write")
    /\ tmp' = [tmp EXCEPT ![path[p]] = Torn]
    /\ Return(p)
    /\ UNCHANGED <<main, legacy>>

\* ... and put it in place by renaming, which may fail as well.
Rename(p) ==
    LET f == path[p] IN
    /\ At(p, "rename") /\ tmp[f] # Absent
    /\ main' = [main EXCEPT ![f] = tmp[f]]
    /\ tmp' = [tmp EXCEPT ![f] = Absent]
    /\ Return(p)
    /\ UNCHANGED legacy

RenameFails(p) ==
    /\ At(p, "rename") /\ (DiskFaults \/ tmp[path[p]] = Absent)
    /\ Return(p)
    /\ UNCHANGED disk

\* The host process dies and is started again.  Locks and goroutines are gone;
\* a write that was under way may have left a half-written temporary file.
Crash ==
    /\ \E p \in Procs : pc[p] # "idle"
    /\ \E torn \in SUBSET {path[p] : p \in {q \in Procs : At(q, "write")}} :
          tmp' = [f \in Paths |-> IF f \in torn THEN Torn ELSE tmp[f]]
    /\ lock' = [i \in Instances |-> [f \in Paths |-> NoProc]]
    /\ pc' = [p \in Procs |-> "idle"]
    /\ request' = [p \in Procs |-> Read]
    /\ buf' = [p \in Procs |-> EmptySidecar]
    /\ src' = [p \in Procs |-> "main"]
    /\ UNCHANGED <<main, legacy, path>>

Work(p) == \/ Locate(p) \/ Decode(p) \/ ReadFails(p) \/ Quarantine(p)
           \/ Write(p) \/ WriteFails(p) \/ Rename(p) \/ RenameFails(p)

Next == Crash \/ \E p \in Procs : Call(p) \/ Lock(p) \/ Work(p)

\* A goroutine that holds a lock keeps running.  A waiter is strongly fair:
\* sync.Mutex hands the lock to a waiter that has been starved for 1ms.
Fairness == \A p \in Procs : WF_vars(Work(p)) /\ SF_vars(Lock(p))

Spec     == Init /\ [][Next]_vars
FairSpec == Spec /\ Fairness

----------------------------------------------------------------------------
(* Properties *)

TypeOK ==
    /\ main \in [Paths -> Content]
    /\ tmp \in [Paths -> Content]
    /\ legacy \in [Paths -> Content]
    /\ lock \in [Instances -> [Paths -> Procs \cup {NoProc}]]
    /\ pc \in [Procs -> Stages]
    /\ path \in [Procs -> Paths]
    /\ request \in [Procs -> Updates \cup {Read}]
    /\ buf \in [Procs -> Sidecars]
    /\ src \in [Procs -> {"main", "legacy"}]

\* The load of this goroutine settled on the current name, where there is no file,
\* beside a legacy file: an os.Stat failed, or it moved a damaged file away.
Overlooked(p) == /\ src[p] = "main"
                 /\ main[path[p]] = Absent /\ legacy[path[p]] # Absent

\* What it works on.
Base(p) == IF Overlooked(p) THEN EmptySidecar ELSE Visible[path[p]]

\* No lost update: what a goroutine is about to save is its own change applied
\* to what the path holds now, not to what it held at some earlier time; to an
\* empty record only where its load has overlooked a legacy file
\* (updateCheckinSidecar).
NoLostUpdate ==
    \A p \in Procs : pc[p] \in {"write", "rename"} =>
        buf[p] = Apply(request[p], Base(p))

\* The step moves a damaged file away from in front of a legacy one.
Uncovers(f, c) ==
    /\ \E p \in Procs : At(p, "quarantine") /\ path[p] = f
    /\ main[f] = Torn /\ main'[f] = Absent
    /\ legacy[f] \in Sidecars /\ legacy[f].cookie = c

\* A cookie appears in a sidecar only because a goroutine that was asked to
\* save this very cookie did so, or because a damaged file was moved away from in
\* front of a legacy one that holds it: a pass that records its outcome never
\* writes a cleared cookie back (handleCheckinClearCookie), a migration or a crash
\* never brings an older one back.
CookieOnlyFromSave ==
    [][\A f \in Paths :
          LET c == Visible'[f].cookie IN
          c \notin {NoCookie, Visible[f].cookie} =>
              \/ Uncovers(f, c)
              \/ \E p \in Procs : /\ At(p, "rename") /\ path[p] = f
                                  /\ request[p] = SaveCookie(c)]_vars

\* A stored cookie is lost only when it is cleared or replaced, or hidden by the
\* update of a goroutine that overlooked the legacy file: not by a pass that
\* started before it was saved, not by a failed write, not by a crash in the
\* middle of a save (saveCheckinSidecar).
CookieKept ==
    [][\A f \in Paths :
          LET c == Visible[f].cookie IN
          c \notin {NoCookie, Visible'[f].cookie} =>
              \E p \in Procs : /\ At(p, "rename") /\ path[p] = f
                               /\ request[p] # Read
                               /\ \/ request[p].kind \in {"save", "clear"}
                                  \/ Overlooked(p)]_vars

\* A mutex is held exactly by the goroutine of its instance that is between
\* locking its path and returning: every return, through whatever error, gives it
\* back, and no two goroutines of an instance are inside a path at once
\* (checkinSidecarLock and the deferred unlocks).
LockIsHolders ==
    \A i \in Instances, f \in Paths, p \in Procs :
        lock[i][f] = p <=> pc[p] \in Holding /\ path[p] = f /\ InstanceOf[p] = i

\* The cookies a path's files hold or a goroutine holds for it.
CookieIn(file) == IF file \in Sidecars THEN {file.cookie} ELSE {}
InHand(p)      == {buf[p].cookie} \cup {c \in Cookies : request[p] = SaveCookie(c)}
CookiesOf(f)   == CookieIn(main[f]) \cup CookieIn(tmp[f]) \cup CookieIn(legacy[f])
                    \cup UNION {InHand(p) : p \in {q \in Procs : path[q] = f}}

\* A cookie comes to a path only by a call to save it there: it never gets from
\* one credential's sidecar into another's, not even while two instances work on
\* the same files, a write fails or the process dies (checkinSidecarPath).
CookiesKeepToPath ==
    [][\A f \in Paths : \A c \in CookiesOf(f)' \ (CookiesOf(f) \cup {NoCookie}) :
          \E p \in Procs : At(p, "idle") /\ path'[p] = f /\ request'[p] = SaveCookie(c)]_vars

\* The files implement the register: every step either leaves what each path
\* holds alone or is one whole update of one path, and a legacy record comes back
\* or is passed over only in the ways the register names (loadCheckinSidecar).
Register == INSTANCE SidecarRegister WITH sidecar <- Visible, inherited <- Inherited
ImplementsRegister == Register!Spec

\* Every read and update ends, through an error if need be, whatever failed
\* before it: the per-path lock is never left behind.
EveryCallReturns == \A p \in Procs : At(p, "waiting") ~> At(p, "idle")
=============================================================================
