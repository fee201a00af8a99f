------------------------ MODULE CheckinSidecar_proofs ------------------------
(***************************************************************************)
(* Proofs about the sidecar files: types for any number of instances, and, *)
(* as long as one instance of the plugin is loaded, no lost update and the *)
(* refinement of SidecarRegister.                                          *)
(***************************************************************************)
EXTENDS CheckinSidecar, TLAPS

----------------------------------------------------------------------------
(* What the updates of a sidecar do to a record *)

LEMMA EmptyType == EmptySidecar \in Sidecars
BY DEF EmptySidecar, Sidecars

\* Every update turns a record into a record.
LEMMA ApplyType ==
    ASSUME NEW u \in Updates, NEW sc \in Sidecars
    PROVE  Apply(u, sc) \in Sidecars
<1>1. CASE \E c \in Cookies : u = SaveCookie(c)
  BY <1>1 DEF SaveCookie, Apply, Sidecars
<1>2. CASE u = ClearCookie
  BY <1>2 DEF ClearCookie, Apply, Sidecars
<1>3. CASE \E r \in Runs : u = RecordRun(r)
  BY <1>3 DEF RecordRun, Apply, Sidecars
<1> QED  BY <1>1, <1>2, <1>3 DEF Updates

\* A save sets the cookie, a clear empties it, a recorded run leaves it alone.
LEMMA ApplyCookie ==
    ASSUME NEW u \in Updates, NEW sc \in Sidecars
    PROVE  \/ \E c \in Cookies : u = SaveCookie(c) /\ Apply(u, sc).cookie = c
           \/ u = ClearCookie /\ Apply(u, sc).cookie = NoCookie
           \/ /\ \E r \in Runs : u = RecordRun(r)
              /\ Apply(u, sc).cookie = sc.cookie
<1>1. CASE \E c \in Cookies : u = SaveCookie(c)
  BY <1>1 DEF SaveCookie, Apply, Sidecars
<1>2. CASE u = ClearCookie
  BY <1>2 DEF ClearCookie, Apply, Sidecars
<1>3. CASE \E r \in Runs : u = RecordRun(r)
  BY <1>3 DEF RecordRun, Apply, Sidecars
<1> QED  BY <1>1, <1>2, <1>3 DEF Updates

\* A load returns a record whatever the file holds, and the record of the
\* replacement of a corrupt file is one.
LEMMA DecodedType == /\ EmptySidecar \in Sidecars
                     /\ \A file : Decoded(file) \in Sidecars
BY EmptyType DEF Decoded

----------------------------------------------------------------------------
(* Type correctness *)

\* What a goroutine does after a successful load keeps the types of its
\* locals and of the locks.
LEMMA LoadedType ==
    ASSUME TypeOK, NEW p \in Procs, NEW sc \in Sidecars, Loaded(p, sc)
    PROVE  /\ lock' \in [Instances -> [Paths -> Procs \cup {NoProc}]]
           /\ pc' \in [Procs -> Stages]
           /\ path' \in [Procs -> Paths]
           /\ request' \in [Procs -> Updates \cup {Read}]
           /\ buf' \in [Procs -> Sidecars]
           /\ src' \in [Procs -> {"main", "legacy"}]
<1>1. CASE Return(p)
  BY <1>1, DecodedType, SidecarAssumption DEF TypeOK, Return, Goto, Stages
<1>2. CASE request[p] # Read /\ ~Return(p)
  <2>1. request[p] \in Updates  BY <1>2 DEF TypeOK
  <2>2. Apply(request[p], sc) \in Sidecars  BY <2>1, ApplyType
  <2> QED  BY <1>2, <2>2 DEF TypeOK, Loaded, Goto, Stages
<1> QED  BY <1>1, <1>2 DEF Loaded

LEMMA TypeInit == Init => TypeOK
BY DecodedType DEF Init, TypeOK, Content, Stages

LEMMA TypeStep == TypeOK /\ [Next]_vars => TypeOK'
<1> SUFFICES ASSUME TypeOK, [Next]_vars PROVE TypeOK'
  OBVIOUS
<1> USE SidecarAssumption, DecodedType
<1>1. CASE Crash
  BY <1>1 DEF TypeOK, Crash, Content, Stages
<1>2. ASSUME NEW p \in Procs, Call(p) PROVE TypeOK'
  BY <1>2 DEF TypeOK, Call, Goto, At, disk, Stages
<1>3. ASSUME NEW p \in Procs, Lock(p) PROVE TypeOK'
  BY <1>3 DEF TypeOK, Lock, Goto, disk, locals, Stages
<1>4. ASSUME NEW p \in Procs, Locate(p) PROVE TypeOK'
  <2>1. /\ main' \in [Paths -> Content]
        /\ legacy' \in [Paths -> Content]
        /\ src' \in [Procs -> {"main", "legacy"}]
    <3>1. /\ path[p] \in Paths /\ legacy[path[p]] \in Content
          /\ Absent \in Content
      BY DEF TypeOK, Content
    <3>2. \/ UNCHANGED <<main, legacy>>
          \/ /\ main' = [main EXCEPT ![path[p]] = legacy[path[p]]]
             /\ legacy' = [legacy EXCEPT ![path[p]] = Absent]
      BY <1>4, Zenon DEF Locate
    <3>3. \E file \in {"main", "legacy"} : src' = [src EXCEPT ![p] = file]
      BY <1>4 DEF Locate
    <3>4. main' \in [Paths -> Content] /\ legacy' \in [Paths -> Content]
      <4>1. main \in [Paths -> Content] /\ legacy \in [Paths -> Content]
        BY DEF TypeOK
      <4> QED  BY <3>1, <3>2, <4>1
    <3>5. src' \in [Procs -> {"main", "legacy"}]
      BY <3>3 DEF TypeOK
    <3> QED  BY <3>4, <3>5
  <2>2. pc' \in [Procs -> Stages]
    BY <1>4 DEF TypeOK, Locate, Goto, Stages
  <2> QED  BY <1>4, <2>1, <2>2 DEF TypeOK, Locate
<1>5. ASSUME NEW p \in Procs, Decode(p) PROVE TypeOK'
  <2>1. CASE Loaded(p, Decoded(Source(p)))
    BY <1>5, <2>1, LoadedType DEF TypeOK, Decode, disk
  <2>2. CASE Goto(p, "quarantine") /\ UNCHANGED <<lock, locals>>
    BY <1>5, <2>2 DEF TypeOK, Decode, disk, locals, Goto, Stages
  <2> QED  BY <1>5, <2>1, <2>2 DEF Decode
<1>6. ASSUME NEW p \in Procs, ReadFails(p) PROVE TypeOK'
  BY <1>6 DEF TypeOK, ReadFails, Return, Goto, disk, Stages
<1>7. ASSUME NEW p \in Procs, Quarantine(p) PROVE TypeOK'
  <2>1. Loaded(p, EmptySidecar)  BY <1>7 DEF Quarantine
  <2>2. main' \in [Paths -> Content] /\ legacy' \in [Paths -> Content] /\ tmp' = tmp
    BY <1>7 DEF TypeOK, Quarantine, Content
  <2> QED  BY <2>1, <2>2, LoadedType DEF TypeOK
<1>8. ASSUME NEW p \in Procs, Write(p) PROVE TypeOK'
  BY <1>8 DEF TypeOK, Write, Goto, locals, Content, Stages
<1>9. ASSUME NEW p \in Procs, WriteFails(p) PROVE TypeOK'
  BY <1>9 DEF TypeOK, WriteFails, Return, Goto, Content, Stages
<1>10. ASSUME NEW p \in Procs, Rename(p) PROVE TypeOK'
  BY <1>10 DEF TypeOK, Rename, Return, Goto, Content, Stages
<1>11. ASSUME NEW p \in Procs, RenameFails(p) PROVE TypeOK'
  BY <1>11 DEF TypeOK, RenameFails, Return, Goto, disk, Stages
<1>12. CASE UNCHANGED vars
  BY <1>12 DEF TypeOK, vars
<1> QED
  BY <1>1, <1>2, <1>3, <1>4, <1>5, <1>6, <1>7, <1>8, <1>9, <1>10, <1>11, <1>12
     DEF Next, Work

\* The variables keep their types: in particular a file is always a whole
\* record, damaged or absent, and a goroutine's buffer a whole record, for any
\* number of goroutines, paths and instances.
THEOREM TypeCorrect == Spec => []TypeOK
<1> QED  BY TypeInit, TypeStep, PTL DEF Spec
----------------------------------------------------------------------------
(* The locks, for any number of instances *)

\* A return gives back the one lock its goroutine holds.
LEMMA ReturnUnlocks ==
    ASSUME TypeOK, LockIsHolders, NEW p \in Procs, pc[p] \in Holding, Return(p)
    PROVE  LockIsHolders'
<1>0. /\ InstanceOf[p] \in Instances /\ path[p] \in Paths
      /\ NoProc \notin Procs /\ "idle" \notin Holding
      /\ lock \in [Instances -> [Paths -> Procs \cup {NoProc}]]
  BY SidecarAssumption DEF TypeOK, Holding
<1>1. /\ pc'[p] = "idle" /\ path' = path
      /\ \A q \in Procs \ {p} : pc'[q] = pc[q]
  BY DEF TypeOK, Return, Goto
<1>2. \A i \in Instances, f \in Paths :
         lock'[i][f] = IF i = InstanceOf[p] /\ f = path[p] THEN NoProc ELSE lock[i][f]
  BY <1>0 DEF Return
<1>3. ASSUME NEW i \in Instances, NEW f \in Paths, NEW q \in Procs
      PROVE  lock'[i][f] = q <=> pc'[q] \in Holding /\ path'[q] = f /\ InstanceOf[q] = i
  <2>1. lock[i][f] = q <=> pc[q] \in Holding /\ path[q] = f /\ InstanceOf[q] = i
    BY DEF LockIsHolders
  <2>2. lock[i][f] = p <=> path[p] = f /\ InstanceOf[p] = i
    BY DEF LockIsHolders
  <2> QED  BY <1>0, <1>1, <1>2, <2>1, <2>2
<1> QED  BY <1>3 DEF LockIsHolders

\* A step inside the critical section that stays in it changes no lock.
LEMMA InsideKeepsLocks ==
    ASSUME LockIsHolders, NEW p \in Procs, UNCHANGED <<lock, path>>,
           pc[p] \in Holding, pc'[p] \in Holding, \A q \in Procs \ {p} : pc'[q] = pc[q]
    PROVE  LockIsHolders'
BY DEF LockIsHolders

LEMMA LockStep == TypeOK /\ LockIsHolders /\ [Next]_vars => LockIsHolders'
<1> SUFFICES ASSUME TypeOK, LockIsHolders, [Next]_vars PROVE LockIsHolders'
  OBVIOUS
<1>0. /\ pc \in [Procs -> Stages] /\ path \in [Procs -> Paths]
      /\ lock \in [Instances -> [Paths -> Procs \cup {NoProc}]]
      /\ NoProc \notin Procs
      /\ Holding = {"load", "decode", "quarantine", "write", "rename"}
  BY SidecarAssumption DEF TypeOK, Holding, Stages
<1>1. CASE Crash
  BY <1>0, <1>1 DEF Crash, LockIsHolders
<1>2. ASSUME NEW p \in Procs, Call(p) PROVE LockIsHolders'
  <2>1. /\ pc[p] \notin Holding /\ pc'[p] \notin Holding /\ lock' = lock
        /\ \A q \in Procs \ {p} : pc'[q] = pc[q] /\ path'[q] = path[q]
    BY <1>0, <1>2 DEF Call, At, Goto
  <2> QED  BY <2>1 DEF LockIsHolders
<1>3. ASSUME NEW p \in Procs, Lock(p) PROVE LockIsHolders'
  <2>1. /\ pc[p] \notin Holding /\ pc'[p] \in Holding /\ path' = path
        /\ \A q \in Procs \ {p} : pc'[q] = pc[q]
    BY <1>0, <1>3 DEF Lock, At, Goto, locals
  <2>2. /\ lock[InstanceOf[p]][path[p]] = NoProc
        /\ \A i \in Instances, f \in Paths :
              lock'[i][f] = IF i = InstanceOf[p] /\ f = path[p] THEN p ELSE lock[i][f]
    BY <1>0, <1>3, SidecarAssumption DEF Lock
  <2>3. ASSUME NEW i \in Instances, NEW f \in Paths, NEW q \in Procs
        PROVE  lock'[i][f] = q <=> pc'[q] \in Holding /\ path'[q] = f /\ InstanceOf[q] = i
    <3>1. lock[i][f] = q <=> pc[q] \in Holding /\ path[q] = f /\ InstanceOf[q] = i
      BY DEF LockIsHolders
    <3> QED  BY <1>0, <2>1, <2>2, <3>1
  <2> QED  BY <2>3 DEF LockIsHolders
<1>4. ASSUME NEW p \in Procs, Work(p) PROVE LockIsHolders'
  <2>0. pc[p] \in Holding
    BY <1>0, <1>4
       DEF Work, Locate, Decode, ReadFails, Quarantine, Write, WriteFails, Rename,
           RenameFails, At
  <2>1. CASE Return(p)  BY <2>0, <2>1, ReturnUnlocks
  <2>2. CASE UNCHANGED <<lock, path>> /\ \E stage \in Holding : Goto(p, stage)
    BY <1>0, <2>0, <2>2, InsideKeepsLocks DEF Goto
  <2>3. \/ Return(p)
        \/ UNCHANGED <<lock, path>> /\ \E stage \in Holding : Goto(p, stage)
    <3> DEFINE MovesOn == UNCHANGED <<lock, path>> /\ \E stage \in Holding : Goto(p, stage)
    <3>1. CASE Locate(p) \/ Write(p)
      BY <1>0, <3>1 DEF Locate, Write, locals
    <3>2. CASE ReadFails(p) \/ WriteFails(p) \/ Rename(p) \/ RenameFails(p)
      BY <3>2 DEF ReadFails, WriteFails, Rename, RenameFails
    <3>3. ASSUME NEW sc, Loaded(p, sc) PROVE Return(p) \/ MovesOn
      BY <1>0, <3>3 DEF Loaded
    <3>4. CASE Decode(p)
      <4>1. \/ Loaded(p, Decoded(Source(p)))
            \/ Goto(p, "quarantine") /\ UNCHANGED <<lock, locals>>
        BY <3>4 DEF Decode
      <4> QED  BY <1>0, <3>3, <4>1 DEF locals
    <3>5. CASE Quarantine(p)
      BY <3>3, <3>5 DEF Quarantine
    <3> QED  BY <1>4, <3>1, <3>2, <3>4, <3>5 DEF Work
  <2> QED  BY <2>1, <2>2, <2>3
<1>5. CASE UNCHANGED vars  BY <1>5 DEF vars, LockIsHolders
<1> QED  BY <1>1, <1>2, <1>3, <1>4, <1>5 DEF Next

\* No lock outlives the operation that took it, and two operations of an instance
\* on one path exclude each other, for any number of instances.
THEOREM LocksReturned == Spec => []LockIsHolders
<1>1. Init => LockIsHolders
  BY SidecarAssumption DEF Init, LockIsHolders, Holding
<1> QED  BY TypeInit, TypeStep, <1>1, LockStep, PTL DEF Spec

----------------------------------------------------------------------------
(* Where a path's cookies come from, for any number of instances *)

\* A goroutine that is not at work holds nothing.
QuietIsEmpty == \A p \in Procs : At(p, "idle") => request[p] = Read /\ buf[p] = EmptySidecar

LEMMA CookiesAre ==
    \A f, c : c \in CookiesOf(f) <=>
        \/ c \in CookieIn(main[f]) \/ c \in CookieIn(tmp[f]) \/ c \in CookieIn(legacy[f])
        \/ \E p \in Procs : path[p] = f /\ c \in InHand(p)
BY DEF CookiesOf

\* What a successful load leaves in the goroutine's hands: nothing, or its
\* request and a record with the loaded cookie, none, or the one to be saved.
LEMMA LoadedHand ==
    ASSUME TypeOK, NEW p \in Procs, NEW sc \in Sidecars, Loaded(p, sc),
           NEW c \in InHand(p)', c # NoCookie
    PROVE  c \in InHand(p) \/ c = sc.cookie
<1>1. CASE Return(p)
  <2>1. request'[p] = Read /\ buf'[p] = EmptySidecar
    BY <1>1 DEF Return, TypeOK
  <2>2. c \in Cookies => SaveCookie(c) \in Updates  BY DEF Updates
  <2> QED  BY <2>1, <2>2, SidecarAssumption DEF InHand, EmptySidecar
<1>2. CASE request[p] # Read /\ ~Return(p)
  <2>1. /\ request[p] \in Updates /\ request' = request
        /\ buf'[p] = Apply(request[p], sc)
    BY <1>2 DEF Loaded, TypeOK
  <2>2. CASE c \in Cookies /\ request'[p] = SaveCookie(c)
    BY <2>1, <2>2 DEF InHand
  <2>3. CASE c = Apply(request[p], sc).cookie
    BY <2>1, <2>3, ApplyCookie DEF InHand
  <2> QED  BY <2>1, <2>2, <2>3 DEF InHand
<1> QED  BY <1>1, <1>2 DEF Loaded

\* A step fills a goroutine's hands from its path's files, or by a new call.
LEMMA HandStep ==
    ASSUME TypeOK, TypeOK', QuietIsEmpty, [Next]_vars,
           NEW q \in Procs, NEW c \in InHand(q)', c # NoCookie
    PROVE  \/ path'[q] = path[q] /\ c \in CookiesOf(path[q])
           \/ At(q, "idle") /\ request'[q] = SaveCookie(c)
<1>0. /\ path[q] \in Paths /\ NoCookie = EmptySidecar.cookie
      /\ c \in Cookies => SaveCookie(c) \in Updates
      /\ Read \notin Updates
  BY SidecarAssumption DEF TypeOK, EmptySidecar, Updates
<1>1. InHand(q) \subseteq CookiesOf(path[q])  BY CookiesAre
<1>2. CASE request'[q] = Read /\ buf'[q] = EmptySidecar
  BY <1>0, <1>2 DEF InHand
<1>3. CASE UNCHANGED <<path[q], request[q], buf[q]>>
  BY <1>1, <1>3 DEF InHand
<1>4. CASE Crash  BY <1>2, <1>4 DEF Crash
<1>5. CASE Call(q)
  <2>1. At(q, "idle") /\ buf'[q] = EmptySidecar
    BY <1>5 DEF Call, QuietIsEmpty
  <2> QED  BY <1>0, <2>1 DEF InHand
<1>6. CASE Lock(q)
  BY <1>3, <1>6 DEF Lock, locals
<1>7. CASE \E sc \in Sidecars : /\ Loaded(q, sc) /\ UNCHANGED path
                              /\ sc.cookie \in CookiesOf(path[q]) \cup {NoCookie}
  BY <1>1, <1>7, LoadedHand
<1>8. CASE Locate(q) \/ Write(q)
  BY <1>3, <1>8 DEF Locate, Write, locals
<1>9. CASE ReadFails(q) \/ WriteFails(q) \/ Rename(q) \/ RenameFails(q)
  <2>1. Return(q)  BY <1>9 DEF ReadFails, WriteFails, Rename, RenameFails
  <2>2. request'[q] = Read /\ buf'[q] = EmptySidecar
    BY <2>1 DEF Return, TypeOK
  <2> QED  BY <1>2, <2>2
<1>10. CASE Decode(q)
  <2>1. Decoded(Source(q)) \in Sidecars
    BY DecodedType
  <2>2. Decoded(Source(q)).cookie \in CookiesOf(path[q]) \cup {NoCookie}
    BY <1>0 DEF Decoded, Source, CookiesOf, CookieIn
  <2>3. CASE Loaded(q, Decoded(Source(q)))
    <3>1. UNCHANGED path  BY <2>3 DEF Loaded, Return
    <3> QED  BY <1>7, <2>1, <2>2, <2>3, <3>1
  <2>4. CASE UNCHANGED locals  BY <1>3, <2>4 DEF locals
  <2> QED  BY <1>10, <2>3, <2>4 DEF Decode
<1>11. CASE Quarantine(q)
  <2>1. Loaded(q, EmptySidecar)  BY <1>11 DEF Quarantine
  <2>2. UNCHANGED path  BY <2>1 DEF Loaded, Return
  <2> QED  BY <1>0, <1>7, <2>1, <2>2, DecodedType
<1>12. ASSUME NEW p \in Procs \ {q}, Call(p) \/ Lock(p) \/ Work(p)
       PROVE  UNCHANGED <<path[q], request[q], buf[q]>>
  BY <1>12
     DEF TypeOK, Call, Lock, Work, Locate, Decode, ReadFails, Quarantine, Write,
         WriteFails, Rename, RenameFails, Loaded, Return, locals
<1>13. CASE UNCHANGED vars  BY <1>3, <1>13 DEF vars
<1> QED
  BY <1>3, <1>4, <1>5, <1>6, <1>8, <1>9, <1>10, <1>11, <1>12, <1>13 DEF Next, Work

\* A step puts into a file of a path nothing but what another file of the path or
\* a goroutine at work on the path holds.
LEMMA FileStep ==
    ASSUME TypeOK, [Next]_vars, NEW f \in Paths
    PROVE  \A file \in {main'[f], tmp'[f], legacy'[f]} : CookieIn(file) \subseteq CookiesOf(f)
<1> DEFINE Kept == {main[f], tmp[f], legacy[f], Absent, Torn}
           Held == {buf[p] : p \in {q \in Procs : path[q] = f}}
<1>1. \A file \in Kept \cup Held : CookieIn(file) \subseteq CookiesOf(f)
  <2>1. ASSUME NEW p \in Procs, path[p] = f PROVE CookieIn(buf[p]) \subseteq CookiesOf(f)
    BY <2>1, CookiesAre DEF CookieIn, InHand
  <2>2. \A file \in Kept : CookieIn(file) \subseteq CookiesOf(f)
    BY CookiesAre, SidecarAssumption DEF CookieIn
  <2> QED  BY <2>1, <2>2
<1>2. \A file \in {main'[f], tmp'[f], legacy'[f]} : file \in Kept \cup Held
  <2>0. /\ main \in [Paths -> Content] /\ tmp \in [Paths -> Content]
        /\ legacy \in [Paths -> Content]
    BY DEF TypeOK
  <2>1. CASE Crash  BY <2>0, <2>1 DEF Crash
  <2>2. ASSUME NEW p \in Procs,
               \/ Call(p) \/ Lock(p) \/ Decode(p) \/ ReadFails(p) \/ RenameFails(p)
        PROVE  UNCHANGED disk
    BY <2>2 DEF Call, Lock, Decode, ReadFails, RenameFails
  <2>3. ASSUME NEW p \in Procs, Locate(p) \/ Quarantine(p)
        PROVE  /\ main'[f] \in Kept /\ legacy'[f] \in Kept /\ tmp' = tmp
    BY <2>0, <2>3 DEF Locate, Quarantine
  <2>4. ASSUME NEW p \in Procs, Write(p) \/ WriteFails(p) \/ Rename(p)
        PROVE  /\ main'[f] \in Kept /\ legacy' = legacy /\ tmp'[f] \in Kept \cup Held
    BY <2>0, <2>4 DEF Write, WriteFails, Rename
  <2>5. CASE UNCHANGED disk  BY <2>5 DEF disk
  <2>6. CASE UNCHANGED vars  BY <2>5, <2>6 DEF vars, disk
  <2> QED  BY <2>1, <2>2, <2>3, <2>4, <2>5, <2>6 DEF Next, Work
<1> QED  BY <1>1, <1>2

LEMMA QuietStep == TypeOK /\ TypeOK' /\ QuietIsEmpty /\ [Next]_vars => QuietIsEmpty'
<1> SUFFICES ASSUME TypeOK, TypeOK', QuietIsEmpty, [Next]_vars, NEW q \in Procs, At(q, "idle")'
             PROVE  request'[q] = Read /\ buf'[q] = EmptySidecar
  BY DEF QuietIsEmpty
<1>0. pc \in [Procs -> Stages] /\ request \in [Procs -> Updates \cup {Read}]
      /\ buf \in [Procs -> Sidecars]
  BY DEF TypeOK
<1>1. CASE Crash  BY <1>1 DEF Crash
<1>2. CASE Return(q)  BY <1>0, <1>2 DEF Return
<1>3. CASE pc'[q] = pc[q] /\ UNCHANGED <<request[q], buf[q]>>
  BY <1>3 DEF QuietIsEmpty, At
<1>4. CASE Call(q) \/ Lock(q) \/ Locate(q) \/ Write(q)
  BY <1>0, <1>4 DEF Call, Lock, Locate, Write, Goto, At
<1>5. CASE Decode(q) \/ Quarantine(q)
  <2>1. Return(q) \/ Goto(q, "write") \/ Goto(q, "quarantine")
    BY <1>5 DEF Decode, Quarantine, Loaded
  <2> QED  BY <1>0, <1>2, <2>1 DEF Goto, At
<1>6. CASE ReadFails(q) \/ WriteFails(q) \/ Rename(q) \/ RenameFails(q)
  BY <1>2, <1>6 DEF ReadFails, WriteFails, Rename, RenameFails
<1>7. ASSUME NEW p \in Procs \ {q}, Call(p) \/ Lock(p) \/ Work(p)
      PROVE  pc'[q] = pc[q] /\ UNCHANGED <<request[q], buf[q]>>
  BY <1>0, <1>7
     DEF Call, Lock, Work, Locate, Decode, ReadFails, Quarantine, Write,
         WriteFails, Rename, RenameFails, Loaded, Return, Goto, locals
<1>8. CASE UNCHANGED vars  BY <1>3, <1>8 DEF vars
<1> QED  BY <1>1, <1>3, <1>4, <1>5, <1>6, <1>7, <1>8 DEF Next, Work

\* No cookie gets from one credential's sidecar into another's, whatever fails,
\* whenever the process dies, and however many instances of the plugin work on
\* the files: what a hot swap can bring back was once saved on this very path.
THEOREM CookiesStayOnPath == Spec => CookiesKeepToPath
<1> DEFINE Called(f, c) ==
      \E p \in Procs : At(p, "idle") /\ path'[p] = f /\ request'[p] = SaveCookie(c)
<1>1. Init => QuietIsEmpty  BY DEF Init, QuietIsEmpty
<1>2. ASSUME TypeOK, TypeOK', QuietIsEmpty, [Next]_vars,
             NEW f \in Paths, NEW c \in CookiesOf(f)' \ (CookiesOf(f) \cup {NoCookie})
      PROVE  Called(f, c)
  <2>1. \/ c \in CookieIn(main'[f]) \/ c \in CookieIn(tmp'[f]) \/ c \in CookieIn(legacy'[f])
        \/ \E p \in Procs : path'[p] = f /\ c \in InHand(p)'
    BY <1>2 DEF CookiesOf
  <2>2. PICK p \in Procs : path'[p] = f /\ c \in InHand(p)'
    BY <1>2, <2>1, FileStep
  <2> QED  BY <1>2, <2>2, HandStep
<1>3. ASSUME TypeOK, TypeOK', QuietIsEmpty, [Next]_vars
      PROVE  [\A f \in Paths : \A c \in CookiesOf(f)' \ (CookiesOf(f) \cup {NoCookie}) :
                 Called(f, c)]_vars
  BY <1>2, <1>3
<1> QED
  BY TypeInit, TypeStep, QuietStep, <1>1, <1>3, PTL DEF Spec, CookiesKeepToPath

----------------------------------------------------------------------------
(* The inductive invariant *)

\* A load reads the legacy file only where there is no current one.
Located(p) == src[p] = "legacy" => main[path[p]] = Absent

\* What is true of a goroutine on its way through a request.
Consistent(p) ==
    /\ pc[p] \in Holding => lock[InstanceOf[p]][path[p]] = p
    /\ pc[p] \in {"decode", "quarantine"} => Located(p)
    /\ At(p, "quarantine") => Source(p) = Torn
    /\ pc[p] \in {"write", "rename"} =>
          request[p] # Read /\ buf[p] = Apply(request[p], Base(p))
    /\ At(p, "rename") => tmp[path[p]] = buf[p]

IInv == TypeOK /\ \A p \in Procs : Consistent(p)

----------------------------------------------------------------------------
(* What a step leaves alone *)

\* A step of p touches the files and locks of p's path and p's locals only.
TouchesOnly(p) ==
    /\ \A f \in Paths \ {path[p]} :
          /\ main'[f] = main[f] /\ legacy'[f] = legacy[f] /\ tmp'[f] = tmp[f]
          /\ \A i \in Instances : lock'[i][f] = lock[i][f]
    /\ \A q \in Procs \ {p} :
          /\ pc'[q] = pc[q] /\ path'[q] = path[q] /\ request'[q] = request[q]
          /\ buf'[q] = buf[q] /\ src'[q] = src[q]

\* A goroutine stays consistent while its locals and its path's files and lock
\* stay.
LEMMA Frame ==
    ASSUME TypeOK, NEW q \in Procs, Consistent(q),
           pc'[q] = pc[q], path'[q] = path[q], request'[q] = request[q],
           buf'[q] = buf[q], src'[q] = src[q],
           pc[q] \in Holding =>
             /\ main'[path[q]] = main[path[q]] /\ legacy'[path[q]] = legacy[path[q]]
             /\ tmp'[path[q]] = tmp[path[q]]
             /\ lock'[InstanceOf[q]][path[q]] = lock[InstanceOf[q]][path[q]]
    PROVE  Consistent(q)'
<1>1. CASE pc[q] \notin Holding
  BY <1>1 DEF Consistent, Holding, Stages, At
<1>2. CASE pc[q] \in Holding
  <2>1. path[q] \in Paths  BY DEF TypeOK
  <2>2. Visible'[path[q]] = Visible[path[q]]  BY <1>2, <2>1 DEF Visible
  <2>3. Located(q)' = Located(q) /\ Source(q)' = Source(q) /\ Base(q)' = Base(q)
    BY <1>2, <2>2 DEF Located, Source, Base, Overlooked
  <2> QED  BY <1>2, <2>2, <2>3 DEF Consistent, At
<1> QED  BY <1>1, <1>2

\* With one instance, the lock keeps the others away from p's path.
LEMMA OthersStayConsistent ==
    ASSUME SingleInstance, IInv, NEW p \in Procs, NEW q \in Procs, p # q,
           pc[p] \in Holding \/ lock[InstanceOf[p]][path[p]] = NoProc,
           TouchesOnly(p)
    PROVE  Consistent(q)'
<1>1. InstanceOf[p] = InstanceOf[q] /\ InstanceOf[q] \in Instances
  BY SidecarAssumption DEF SingleInstance
<1>2. Consistent(p) /\ Consistent(q) /\ TypeOK  BY DEF IInv
<1>3. pc[q] \in Holding => path[q] # path[p]
  BY <1>1, <1>2, SidecarAssumption DEF Consistent
<1>4. path[q] \in Paths  BY <1>2 DEF TypeOK
<1> QED  BY <1>1, <1>2, <1>3, <1>4, Frame DEF TouchesOnly

\* After a return the goroutine has nothing to be consistent about.
LEMMA IdleConsistent ==
    ASSUME NEW p \in Procs, pc'[p] \in {"idle", "waiting"}
    PROVE  Consistent(p)'
BY DEF Consistent, Holding, Stages, At

\* Return touches p's lock and locals only.
LEMMA ReturnFrame ==
    ASSUME TypeOK, NEW p \in Procs, Return(p)
    PROVE  /\ pc'[p] = "idle"
           /\ \A i \in Instances, f \in Paths \ {path[p]} : lock'[i][f] = lock[i][f]
           /\ \A q \in Procs \ {p} :
                 /\ pc'[q] = pc[q] /\ path'[q] = path[q] /\ request'[q] = request[q]
                 /\ buf'[q] = buf[q] /\ src'[q] = src[q]
BY SidecarAssumption DEF TypeOK, Return, Goto

\* Loaded touches p's lock and locals only; what it buffers for a save is the
\* update applied to what was loaded.
LEMMA LoadedFrame ==
    ASSUME TypeOK, NEW p \in Procs, NEW sc, Loaded(p, sc)
    PROVE  /\ \A i \in Instances, f \in Paths \ {path[p]} : lock'[i][f] = lock[i][f]
           /\ \A q \in Procs \ {p} :
                 /\ pc'[q] = pc[q] /\ path'[q] = path[q] /\ request'[q] = request[q]
                 /\ buf'[q] = buf[q] /\ src'[q] = src[q]
           /\ \/ pc'[p] = "idle"
              \/ /\ pc'[p] = "write" /\ request[p] # Read
                 /\ buf'[p] = Apply(request[p], sc)
                 /\ request'[p] = request[p] /\ path'[p] = path[p] /\ lock' = lock
                 /\ src'[p] = src[p]
<1>1. CASE Return(p)  BY <1>1, ReturnFrame
<1>2. CASE ~Return(p)  BY <1>2 DEF TypeOK, Loaded, Goto
<1> QED  BY <1>1, <1>2

\* What is loaded must be what the goroutine works on for the save to be
\* consistent.
LEMMA LoadedConsistent ==
    ASSUME TypeOK, NEW p \in Procs, NEW sc, Loaded(p, sc),
           lock[InstanceOf[p]][path[p]] = p,
           sc = IF /\ src[p] = "main"
                   /\ main'[path[p]] = Absent /\ legacy'[path[p]] # Absent
                THEN EmptySidecar ELSE Visible'[path[p]]
    PROVE  Consistent(p)'
<1>1. CASE pc'[p] = "idle"  BY <1>1, IdleConsistent
<1>2. CASE pc'[p] # "idle"
  <2>1. /\ pc'[p] = "write" /\ request'[p] # Read
        /\ buf'[p] = Apply(request'[p], sc)
        /\ lock'[InstanceOf[p]][path'[p]] = p
        /\ path'[p] = path[p] /\ src'[p] = src[p]
    BY <1>2, LoadedFrame
  <2>2. Base(p)' = sc  BY <2>1 DEF Base, Overlooked
  <2> QED  BY <2>1, <2>2 DEF Consistent, At
<1> QED  BY <1>1, <1>2

----------------------------------------------------------------------------
(* The invariant is inductive *)

LEMMA InvInit == Init => IInv
<1> SUFFICES ASSUME Init PROVE IInv
  OBVIOUS
<1>1. TypeOK  BY TypeInit
<1>2. \A p \in Procs : Consistent(p)
  BY DEF Init, Consistent, Holding, Stages, At
<1> QED  BY <1>1, <1>2 DEF IInv

\* One step of one goroutine.
LEMMA WorkStep ==
    ASSUME SingleInstance, IInv, TypeOK', NEW p \in Procs, Work(p)
    PROVE  TouchesOnly(p) /\ pc[p] \in Holding /\ Consistent(p)'
<1> DEFINE f == path[p]
<1>0. /\ TypeOK /\ Consistent(p)
      /\ f \in Paths /\ pc[p] \in Stages /\ InstanceOf[p] \in Instances
  BY SidecarAssumption DEF IInv, TypeOK
<1>1. CASE Locate(p)
  <2>1. TouchesOnly(p) /\ pc[p] \in Holding
    BY <1>0, <1>1 DEF TypeOK, TouchesOnly, Locate, Goto, At, Holding, Stages
  <2>2. Located(p)'
    BY <1>0, <1>1 DEF TypeOK, Located, Locate
  <2>3. pc'[p] = "decode" /\ lock' = lock /\ path' = path
    BY <1>0, <1>1 DEF TypeOK, Locate, Goto
  <2>4. lock[InstanceOf[p]][path[p]] = p
    BY <1>0, <2>1 DEF Consistent
  <2> QED  BY <2>1, <2>2, <2>3, <2>4 DEF Consistent, At
<1>2. CASE Decode(p)
  <2>1. pc[p] = "decode" /\ main' = main /\ legacy' = legacy /\ tmp' = tmp
    BY <1>2 DEF Decode, At, disk
  <2>2. pc[p] \in Holding /\ lock[InstanceOf[p]][f] = p /\ Located(p)
    BY <1>0, <2>1 DEF Consistent, Holding, Stages
  <2>3. CASE Source(p) # Torn /\ Loaded(p, Decoded(Source(p)))
    <3>1. TouchesOnly(p)  BY <1>0, <2>1, <2>3, LoadedFrame DEF TouchesOnly
    <3>2. Decoded(Source(p)) = Base(p) /\ Visible' = Visible
      BY <1>0, <2>1, <2>2, SidecarAssumption
         DEF TypeOK, Visible, Source, Located, Decoded, Base, Overlooked
    <3>3. Consistent(p)'
      BY <1>0, <2>1, <2>2, <2>3, <3>2, LoadedConsistent DEF Base, Overlooked
    <3> QED  BY <2>2, <3>1, <3>3
  <2>4. CASE Source(p) = Torn /\ Goto(p, "quarantine") /\ UNCHANGED <<lock, locals>>
    <3>1. pc'[p] = "quarantine" /\ TouchesOnly(p)
      BY <1>0, <2>1, <2>4 DEF TypeOK, Goto, locals, TouchesOnly, Stages
    <3>2. Located(p)' = Located(p) /\ Source(p)' = Source(p)
      BY <2>1, <2>4 DEF Located, Source, locals
    <3> QED  BY <2>2, <2>4, <3>1, <3>2 DEF Consistent, At, locals
  <2> QED  BY <1>2, <2>3, <2>4 DEF Decode
<1>3. CASE ReadFails(p)
  <2>1. TouchesOnly(p) /\ pc'[p] = "idle"
    BY <1>0, <1>3, ReturnFrame DEF ReadFails, disk, TouchesOnly
  <2> QED  BY <1>0, <1>3, <2>1, IdleConsistent DEF ReadFails, At, Holding, Stages
<1>4. CASE Quarantine(p)
  <2>1. pc[p] = "quarantine" /\ Loaded(p, EmptySidecar) /\ tmp' = tmp
    BY <1>4 DEF Quarantine, At
  <2>2. /\ pc[p] \in Holding /\ lock[InstanceOf[p]][f] = p
        /\ Located(p) /\ Source(p) = Torn
    BY <1>0, <2>1 DEF Consistent, Holding, Stages, At
  <2>3. \/ /\ src[p] = "main" /\ legacy' = legacy
           /\ main' = [main EXCEPT ![f] = Absent]
        \/ /\ src[p] = "legacy" /\ main' = main
           /\ legacy' = [legacy EXCEPT ![f] = Absent]
        \/ main' = main /\ legacy' = legacy
    BY <1>4, Zenon DEF Quarantine
  <2>4. \A g \in Paths \ {f} : main'[g] = main[g] /\ legacy'[g] = legacy[g]
    BY <1>0, <2>3 DEF TypeOK
  <2>5. TouchesOnly(p)  BY <1>0, <2>1, <2>4, LoadedFrame DEF TouchesOnly
  <2>6. \/ src[p] = "main" /\ main'[f] = Absent /\ legacy'[f] # Absent
        \/ Visible'[f] = EmptySidecar
    BY <1>0, <2>2, <2>3, SidecarAssumption
       DEF TypeOK, Visible, Source, Located, Decoded
  <2>7. Consistent(p)'
    BY <1>0, <2>1, <2>2, <2>6, LoadedConsistent
  <2> QED  BY <2>2, <2>5, <2>7
<1>5. CASE Write(p)
  <2>1. pc[p] = "write" /\ main' = main /\ legacy' = legacy /\ UNCHANGED <<lock, locals>>
    BY <1>5 DEF Write, At
  <2>2. pc[p] \in Holding  BY <2>1 DEF Holding, Stages
  <2>3. pc'[p] = "rename" /\ tmp'[f] = buf[p] /\ TouchesOnly(p)
    BY <1>0, <1>5 DEF TypeOK, Write, Goto, locals, TouchesOnly, Stages
  <2>4. Base(p)' = Base(p)  BY <2>1 DEF Base, Overlooked, Visible, locals
  <2>5. Consistent(p)'
    BY <1>0, <2>1, <2>2, <2>3, <2>4 DEF Consistent, At, locals
  <2> QED  BY <2>2, <2>3, <2>5
<1>6. CASE WriteFails(p)
  <2>1. \A g \in Paths \ {f} : tmp'[g] = tmp[g]
    BY <1>0, <1>6 DEF TypeOK, WriteFails
  <2>2. TouchesOnly(p) /\ pc'[p] = "idle"
    BY <1>0, <1>6, <2>1, ReturnFrame DEF WriteFails, TouchesOnly
  <2> QED  BY <1>0, <1>6, <2>2, IdleConsistent DEF WriteFails, At, Holding, Stages
<1>7. CASE Rename(p)
  <2>1. \A g \in Paths \ {f} :
           main'[g] = main[g] /\ tmp'[g] = tmp[g] /\ legacy'[g] = legacy[g]
    BY <1>0, <1>7 DEF TypeOK, Rename
  <2>2. TouchesOnly(p) /\ pc'[p] = "idle"
    BY <1>0, <1>7, <2>1, ReturnFrame DEF Rename, TouchesOnly
  <2> QED  BY <1>0, <1>7, <2>2, IdleConsistent DEF Rename, At, Holding, Stages
<1>8. CASE RenameFails(p)
  <2>1. TouchesOnly(p) /\ pc'[p] = "idle"
    BY <1>0, <1>8, ReturnFrame DEF RenameFails, disk, TouchesOnly
  <2> QED  BY <1>0, <1>8, <2>1, IdleConsistent DEF RenameFails, At, Holding, Stages
<1> QED  BY <1>1, <1>2, <1>3, <1>4, <1>5, <1>6, <1>7, <1>8 DEF Work

LEMMA InvStep ==
    ASSUME SingleInstance PROVE IInv /\ [Next]_vars => IInv'
<1> SUFFICES ASSUME IInv, [Next]_vars PROVE IInv'
  OBVIOUS
<1>0. TypeOK /\ TypeOK' /\ \A p \in Procs : Consistent(p)
  BY TypeStep DEF IInv
<1>1. CASE Crash
  <2>1. \A p \in Procs : pc'[p] = "idle"  BY <1>1 DEF Crash
  <2> QED  BY <1>0, <2>1, IdleConsistent DEF IInv
<1>2. ASSUME NEW p \in Procs, Call(p) PROVE IInv'
  <2>1. pc'[p] = "waiting" /\ UNCHANGED <<disk, lock, buf, src>>
    BY <1>0, <1>2 DEF Call, Goto, TypeOK
  <2>2. ASSUME NEW q \in Procs, q # p PROVE Consistent(q)'
    <3>1. pc'[q] = pc[q] /\ path'[q] = path[q] /\ request'[q] = request[q]
      BY <1>0, <1>2, <2>2 DEF Call, Goto, TypeOK
    <3> QED  BY <1>0, <2>1, <3>1, Frame DEF disk
  <2>3. Consistent(p)'  BY <2>1, IdleConsistent
  <2> QED  BY <1>0, <2>2, <2>3 DEF IInv
<1>3. ASSUME NEW p \in Procs, Lock(p) PROVE IInv'
  <2>1. TouchesOnly(p) /\ lock[InstanceOf[p]][path[p]] = NoProc
    BY <1>0, <1>3, SidecarAssumption
       DEF TypeOK, Lock, Goto, disk, locals, TouchesOnly
  <2>2. /\ pc'[p] = "load" /\ path' = path
        /\ lock'[InstanceOf[p]][path[p]] = p
    BY <1>0, <1>3, SidecarAssumption DEF TypeOK, Lock, Goto, locals
  <2>3. Consistent(p)'  BY <2>2 DEF Consistent, At
  <2> QED  BY <1>0, <2>1, <2>3, OthersStayConsistent DEF IInv
<1>4. ASSUME NEW p \in Procs, Work(p) PROVE IInv'
  BY <1>0, <1>4, WorkStep, OthersStayConsistent DEF IInv
<1>5. CASE UNCHANGED vars
  BY <1>0, <1>5, Frame DEF IInv, vars
<1> QED  BY <1>1, <1>2, <1>3, <1>4, <1>5 DEF Next

\* While one instance is loaded, no goroutine overwrites what another saved
\* after it had read: a save always applies its update to what the path holds
\* at that moment, or to an empty record where the load overlooked a legacy file.
THEOREM NothingLost == ASSUME SingleInstance PROVE Spec => []NoLostUpdate
<1>1. IInv => NoLostUpdate  BY DEF IInv, Consistent, NoLostUpdate
<1> QED  BY InvInit, InvStep, <1>1, PTL DEF Spec

----------------------------------------------------------------------------
(* What the paths show *)

\* What a path shows changes only when an update is renamed into place ...
RenamesUpdate(p) ==
    LET f == path[p]
        base == IF Overlooked(p) THEN EmptySidecar ELSE Visible[f] IN
    /\ At(p, "rename") /\ request[p] \in Updates /\ f \in Paths
    /\ main' = [main EXCEPT ![f] = Apply(request[p], base)] /\ legacy' = legacy
    /\ Visible' = [Visible EXCEPT ![f] = Apply(request[p], base)]
    /\ Inherited' = [Inherited EXCEPT ![f] = {}]

\* ... or when a damaged file is moved away from in front of a legacy record, ...
MovesDamage(p) ==
    LET f == path[p] IN
    /\ At(p, "quarantine") /\ f \in Paths
    /\ main[f] = Torn /\ main'[f] = Absent /\ legacy[f] \in Sidecars
    /\ Visible' = [Visible EXCEPT ![f] = legacy[f]]
    /\ Inherited' = Inherited /\ Inherited[f] = {legacy[f]}

\* ... and no more than the migration of a legacy record passes unseen.
Migrates(p) ==
    LET f == path[p] IN
    /\ f \in Paths /\ Visible' = Visible
    /\ Visible[f] \in Inherited[f]
    /\ Inherited' = [Inherited EXCEPT ![f] = {}]

LEMMA VisibleStep ==
    ASSUME IInv, [Next]_vars
    PROVE  \/ UNCHANGED <<Visible, Inherited>>
           \/ \E p \in Procs : RenamesUpdate(p) \/ MovesDamage(p) \/ Migrates(p)
<1>0. /\ TypeOK /\ \A p \in Procs : Consistent(p)
      /\ Absent \notin Sidecars /\ Torn \notin Sidecars /\ Absent # Torn
  BY SidecarAssumption DEF IInv
<1>a. UNCHANGED <<main, legacy>> => UNCHANGED <<Visible, Inherited>>
  BY DEF Visible, Inherited
<1>1. CASE Crash  BY <1>1, <1>a DEF Crash
<1>2. ASSUME NEW p \in Procs, Call(p) \/ Lock(p) PROVE UNCHANGED <<Visible, Inherited>>
  BY <1>2, <1>a DEF Call, Lock, disk
<1>3. ASSUME NEW p \in Procs, Work(p)
      PROVE  \/ UNCHANGED <<Visible, Inherited>>
             \/ RenamesUpdate(p) \/ MovesDamage(p) \/ Migrates(p)
  <2> DEFINE f == path[p]
  <2>0. f \in Paths /\ Consistent(p) /\ main[f] \in Content /\ legacy[f] \in Content
    BY <1>0 DEF TypeOK
  <2>1. CASE Locate(p)
    <3>1. CASE UNCHANGED <<main, legacy>>  BY <1>a, <3>1
    <3>2. CASE /\ main[f] = Absent /\ legacy[f] # Absent
               /\ main' = [main EXCEPT ![f] = legacy[f]]
               /\ legacy' = [legacy EXCEPT ![f] = Absent]
      <4>0. /\ \A g \in Paths \ {f} : main'[g] = main[g] /\ legacy'[g] = legacy[g]
            /\ main'[f] = legacy[f] /\ legacy'[f] = Absent
        BY <1>0, <2>0, <3>2 DEF TypeOK
      <4>1. Visible' = Visible
        <5>1. \A g \in Paths : Visible'[g] = Visible[g]
          BY <1>0, <2>0, <3>2, <4>0 DEF Visible
        <5> QED  BY <5>1 DEF Visible
      <4>2. Inherited' = [Inherited EXCEPT ![f] = {}]
        <5>1. \A g \in Paths : Inherited'[g] = IF g = f THEN {} ELSE Inherited[g]
          BY <1>0, <2>0, <4>0 DEF Inherited
        <5>2. /\ Inherited = [g \in Paths |-> Inherited[g]]
               /\ Inherited' = [g \in Paths |-> Inherited'[g]]
          BY DEF Inherited
        <5> QED  BY <5>1, <5>2
      <4>3. CASE legacy[f] \in Sidecars
        <5>1. Visible[f] \in Inherited[f]
          BY <1>0, <2>0, <3>2, <4>3 DEF Visible, Inherited, Decoded
        <5> QED  BY <2>0, <4>1, <4>2, <5>1 DEF Migrates
      <4>4. CASE legacy[f] \notin Sidecars
        <5>1. Inherited[f] = {}  BY <2>0, <4>4 DEF Inherited
        <5>2. Inherited' = Inherited  BY <2>0, <4>2, <5>1 DEF Inherited
        <5> QED  BY <4>1, <5>2
      <4> QED  BY <4>3, <4>4
    <3> QED  BY <2>1, <3>1, <3>2, Zenon DEF Locate
  <2>2. CASE Decode(p) \/ ReadFails(p) \/ Write(p) \/ WriteFails(p) \/ RenameFails(p)
    <3>1. UNCHANGED <<main, legacy>>
      BY <2>2 DEF Decode, ReadFails, Write, WriteFails, RenameFails, disk
    <3> QED  BY <1>a, <3>1
  <2>3. CASE Quarantine(p)
    <3>1. At(p, "quarantine") /\ Located(p) /\ Source(p) = Torn
      BY <2>0, <2>3 DEF Consistent, Quarantine, At
    <3>2. CASE src[p] = "main" /\ legacy' = legacy /\ main' = [main EXCEPT ![f] = Absent]
      <4>0. /\ \A g \in Paths \ {f} : main'[g] = main[g]
            /\ main'[f] = Absent /\ main[f] = Torn
        BY <1>0, <2>0, <3>1, <3>2 DEF TypeOK, Source
      <4>1. Visible' = [Visible EXCEPT ![f] = Decoded(legacy[f])]
        <5>1. \A g \in Paths : Visible'[g] = IF g = f THEN Decoded(legacy[f]) ELSE Visible[g]
          BY <2>0, <3>2, <4>0 DEF Visible
        <5> QED  BY <5>1 DEF Visible
      <4>2. Inherited' = Inherited
        <5>1. \A g \in Paths : Inherited'[g] = Inherited[g]
          BY <1>0, <2>0, <3>2, <4>0 DEF Inherited
        <5> QED  BY <5>1 DEF Inherited
      <4>3. CASE legacy[f] \in Sidecars
        <5>1. Inherited[f] = {legacy[f]}  BY <1>0, <2>0, <4>0, <4>3 DEF Inherited
        <5> QED  BY <2>0, <3>1, <4>0, <4>1, <4>2, <4>3, <5>1 DEF MovesDamage, Decoded
      <4>4. CASE legacy[f] \notin Sidecars
        <5>1. Visible[f] = Decoded(legacy[f])
          BY <1>0, <2>0, <4>0, <4>4 DEF Visible, Decoded
        <5>2. Visible' = Visible  BY <2>0, <4>1, <5>1 DEF Visible
        <5> QED  BY <4>2, <5>2
      <4> QED  BY <4>3, <4>4
    <3>3. CASE src[p] = "legacy" /\ main' = main /\ legacy' = [legacy EXCEPT ![f] = Absent]
      <4>0. /\ \A g \in Paths \ {f} : legacy'[g] = legacy[g]
            /\ legacy'[f] = Absent /\ main[f] = Absent /\ legacy[f] = Torn
        BY <1>0, <2>0, <3>1, <3>3 DEF TypeOK, Source, Located
      <4>1. \A g \in Paths : Visible'[g] = Visible[g] /\ Inherited'[g] = Inherited[g]
        BY <1>0, <2>0, <3>3, <4>0 DEF Visible, Inherited, Decoded
      <4> QED  BY <4>1 DEF Visible, Inherited
    <3>4. CASE UNCHANGED <<main, legacy>>  BY <1>a, <3>4
    <3> QED  BY <2>3, <3>2, <3>3, <3>4, Zenon DEF Quarantine
  <2>4. CASE Rename(p)
    <3> DEFINE new == Apply(request[p], Base(p))
    <3>1. /\ At(p, "rename") /\ request[p] \in Updates
          /\ tmp[f] = buf[p] /\ buf[p] \in Sidecars /\ buf[p] = new
      BY <1>0, <2>0, <2>4 DEF TypeOK, Consistent, Rename, At
    <3>2. /\ main' = [main EXCEPT ![f] = new] /\ legacy' = legacy
          /\ new \in Sidecars
      BY <2>4, <3>1 DEF Rename
    <3>3. /\ \A g \in Paths \ {f} : main'[g] = main[g]
          /\ main'[f] = new
      BY <1>0, <2>0, <3>2 DEF TypeOK
    <3>4. Visible' = [Visible EXCEPT ![f] = new]
      <4>1. \A g \in Paths : Visible'[g] = IF g = f THEN new ELSE Visible[g]
        BY <1>0, <2>0, <3>2, <3>3 DEF Visible, Decoded
      <4> QED  BY <4>1 DEF Visible
    <3>5. Inherited' = [Inherited EXCEPT ![f] = {}]
      <4>1. \A g \in Paths : Inherited'[g] = IF g = f THEN {} ELSE Inherited[g]
        BY <1>0, <2>0, <3>2, <3>3 DEF Inherited
      <4>2. /\ Inherited = [g \in Paths |-> Inherited[g]]
             /\ Inherited' = [g \in Paths |-> Inherited'[g]]
        BY DEF Inherited
      <4> QED  BY <4>1, <4>2
    <3> QED  BY <2>0, <3>1, <3>2, <3>4, <3>5 DEF RenamesUpdate, Base
  <2> QED  BY <1>3, <2>1, <2>2, <2>3, <2>4 DEF Work
<1>4. CASE UNCHANGED vars  BY <1>4, <1>a DEF vars
<1> QED  BY <1>1, <1>2, <1>3, <1>4 DEF Next

\* The records a path shows are records, and so is one it inherits.
LEMMA VisibleType ==
    /\ Visible \in [Paths -> Sidecars]
    /\ Inherited \in [Paths -> {{}} \cup {{sc} : sc \in Sidecars}]
<1>1. Visible \in [Paths -> Sidecars]  BY DecodedType DEF Visible
<1>2. \A f \in Paths : Inherited[f] \in {{}} \cup {{sc} : sc \in Sidecars}
  BY DEF Inherited
<1> QED  BY <1>1, <1>2 DEF Inherited

\* While one instance is loaded, a cookie appears only because this very cookie
\* was saved, or was v0.2.4's and lay behind a damaged file: nothing that runs next
\* to a clear brings the cleared one back.
THEOREM NoResurrection ==
    ASSUME SingleInstance PROVE Spec => CookieOnlyFromSave
<1> DEFINE Appears(f) == Visible'[f].cookie \notin {NoCookie, Visible[f].cookie}
           Saved(f) == \E p \in Procs : /\ At(p, "rename") /\ path[p] = f
                                        /\ request[p] = SaveCookie(Visible'[f].cookie)
           Uncovered(f) == Uncovers(f, Visible'[f].cookie)
<1>1. ASSUME IInv, [Next]_vars, NEW f \in Paths, Appears(f) PROVE Uncovered(f) \/ Saved(f)
  <2>1. PICK p \in Procs : RenamesUpdate(p) \/ MovesDamage(p)
    BY <1>1, VisibleStep DEF Migrates
  <2>2. path[p] = f  BY <1>1, <2>1, VisibleType DEF RenamesUpdate, MovesDamage
  <2>3. CASE RenamesUpdate(p)
    <3>1. PICK sc \in {EmptySidecar, Visible[f]} : Visible'[f] = Apply(request[p], sc)
      BY <2>2, <2>3, VisibleType DEF RenamesUpdate
    <3>2. /\ sc \in Sidecars /\ request[p] \in Updates
          /\ sc.cookie \in {NoCookie, Visible[f].cookie}
      BY <2>3, <3>1, VisibleType, EmptyType DEF RenamesUpdate, EmptySidecar
    <3>3. At(p, "rename")  BY <2>3 DEF RenamesUpdate
    <3> QED  BY <1>1, <2>2, <3>1, <3>2, <3>3, ApplyCookie
  <2>4. CASE MovesDamage(p)
    <3>1. Visible'[f] = legacy[f]  BY <2>2, <2>4, VisibleType DEF MovesDamage
    <3> QED  BY <2>2, <2>4, <3>1 DEF MovesDamage, Uncovers
  <2> QED  BY <2>1, <2>3, <2>4
<1>2. ASSUME IInv, [Next]_vars
      PROVE  [\A f \in Paths :
                 LET c == Visible'[f].cookie IN
                 c \notin {NoCookie, Visible[f].cookie} =>
                     \/ Uncovers(f, c)
                     \/ \E p \in Procs : /\ At(p, "rename") /\ path[p] = f
                                         /\ request[p] = SaveCookie(c)]_vars
  BY <1>1, <1>2
<1> QED  BY InvInit, InvStep, <1>2, PTL DEF Spec, CookieOnlyFromSave

\* While one instance is loaded, a stored cookie disappears only because it is
\* cleared or replaced, or because an update overlooked the legacy file it is in: no
\* failed write and no crash loses it, and no file damaged in front of it either.
THEOREM CookieStays == ASSUME SingleInstance PROVE Spec => CookieKept
<1> DEFINE Goes(f) == Visible[f].cookie \notin {NoCookie, Visible'[f].cookie}
           Asked(f) == \E p \in Procs : /\ At(p, "rename") /\ path[p] = f
                                        /\ request[p] # Read
                                        /\ \/ request[p].kind \in {"save", "clear"}
                                           \/ Overlooked(p)
<1>1. ASSUME IInv, [Next]_vars, NEW f \in Paths, Goes(f) PROVE Asked(f)
  <2>1. PICK p \in Procs : RenamesUpdate(p) \/ MovesDamage(p)
    BY <1>1, VisibleStep DEF Migrates
  <2>2. path[p] = f  BY <1>1, <2>1, VisibleType DEF RenamesUpdate, MovesDamage
  <2>3. ~ MovesDamage(p)
    <3>1. main[f] = Torn => Visible[f] = EmptySidecar
      BY SidecarAssumption DEF Visible, Decoded
    <3> QED  BY <1>1, <2>2, <3>1 DEF MovesDamage, EmptySidecar
  <2>4. /\ request[p] \in Updates /\ request[p] # Read /\ At(p, "rename")
    BY <2>1, <2>3, SidecarAssumption DEF RenamesUpdate
  <2>5. CASE Overlooked(p)  BY <2>2, <2>4, <2>5
  <2>6. CASE ~ Overlooked(p)
    <3>1. Visible[f] \in Sidecars /\ Visible'[f] = Apply(request[p], Visible[f])
      BY <2>1, <2>2, <2>3, <2>6, VisibleType DEF RenamesUpdate
    <3> QED
      BY <1>1, <2>2, <2>4, <3>1, ApplyCookie DEF SaveCookie, ClearCookie
  <2> QED  BY <2>5, <2>6
<1>2. ASSUME IInv, [Next]_vars PROVE [\A f \in Paths : Goes(f) => Asked(f)]_vars
  BY <1>1, <1>2
<1> QED  BY InvInit, InvStep, <1>2, PTL DEF Spec, CookieKept

----------------------------------------------------------------------------
(* Refinement *)

\* The register speaks of the same records and updates.
LEMMA SameRecords ==
    /\ Register!Sidecars = Sidecars
    /\ Register!Updates = Updates
    /\ Register!EmptySidecar = EmptySidecar
    /\ \A u, sc : Register!Apply(u, sc) = Apply(u, sc)
BY DEF Register!Sidecars, Sidecars, Register!Updates, Updates,
       Register!SaveCookie, SaveCookie, Register!ClearCookie, ClearCookie,
       Register!RecordRun, RecordRun, Register!Apply, Apply,
       Register!EmptySidecar, EmptySidecar

\* An update that overlooked a legacy file which holds no record is an update of
\* what the path shows, an empty record.
LEMMA OverlooksRecord ==
    ASSUME NEW p, path[p] \in Paths, Overlooked(p)
    PROVE  Inherited[path[p]] # {} \/ Visible[path[p]] = EmptySidecar
BY SidecarAssumption DEF Overlooked, Inherited, Visible, Decoded

\* While one instance is loaded, the files implement one register per path:
\* whatever fails and whenever the process dies, a path's record changes by
\* whole updates only, and a record of v0.2.4 is taken over, overlooked or uncovered
\* as the register says.
THEOREM FilesImplementRegister ==
    ASSUME SingleInstance PROVE Spec => ImplementsRegister
<1>1. Init => Register!Init
  BY VisibleType, SameRecords DEF Register!Init
<1>2. IInv /\ [Next]_vars => [Register!Next]_<<Visible, Inherited>>
  <2> SUFFICES ASSUME IInv, [Next]_vars, ~ UNCHANGED <<Visible, Inherited>>
               PROVE  Register!Next
    OBVIOUS
  <2>1. PICK p \in Procs : RenamesUpdate(p) \/ MovesDamage(p) \/ Migrates(p)
    BY VisibleStep
  <2>2. CASE RenamesUpdate(p)
    <3>1. Register!Update(path[p], request[p])
      <4>1. CASE Overlooked(p) /\ Visible[path[p]] # EmptySidecar
        <5>1. Inherited[path[p]] # {}
          BY <2>2, <4>1, OverlooksRecord DEF RenamesUpdate
        <5> QED
          BY <2>2, <4>1, <5>1, SameRecords
             DEF RenamesUpdate, Register!Update, Register!Settle
      <4>2. CASE ~ Overlooked(p) \/ Visible[path[p]] = EmptySidecar
        BY <2>2, <4>2, SameRecords DEF RenamesUpdate, Register!Update, Register!Settle
      <4> QED  BY <4>1, <4>2
    <3> QED  BY <2>2, <3>1, SameRecords DEF RenamesUpdate, Register!Next
  <2>3. CASE MovesDamage(p)
    <3>1. Register!Uncover(path[p])  BY <2>3 DEF MovesDamage, Register!Uncover
    <3> QED  BY <2>3, <3>1 DEF MovesDamage, Register!Next
  <2>4. CASE Migrates(p)
    <3>1. Register!Migrate(path[p])
      BY <2>4 DEF Migrates, Register!Migrate, Register!Settle
    <3> QED  BY <2>4, <3>1 DEF Migrates, Register!Next
  <2> QED  BY <2>1, <2>2, <2>3, <2>4
<1> QED
  BY InvInit, InvStep, <1>1, <1>2, PTL DEF Spec, ImplementsRegister, Register!Spec
=============================================================================
