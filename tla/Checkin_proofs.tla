--------------------------- MODULE Checkin_proofs ---------------------------
(***************************************************************************)
(* Proofs about the daily check-in, for any number of credentials,         *)
(* accounts, sessions, passes and panel requests.                          *)
(***************************************************************************)
EXTENDS Checkin, TLAPS

\* A save changes a record's cookie, a clear empties it, and a recorded run
\* leaves it alone; each yields a record.
LEMMA UpdateIs ==
    ASSUME NEW sc \in Sidecars
    PROVE  /\ \A k \in Cookies : /\ Apply(SaveCookie(k), sc) \in Sidecars
                                 /\ Apply(SaveCookie(k), sc).cookie = k
           /\ Apply(ClearCookie, sc) \in Sidecars
           /\ Apply(ClearCookie, sc).cookie = NoCookie
           /\ \A r \in Runs : /\ Apply(RecordRun(r), sc) \in Sidecars
                              /\ Apply(RecordRun(r), sc).cookie = sc.cookie
BY DEF SaveCookie, ClearCookie, RecordRun, Apply, Sidecars

\* A run works on a credential, with a session of its own, and what it is about
\* to record is an outcome a sidecar can hold.
RunInv(p) ==
    /\ pc[p] \in {"get", "read", "me", "claim", "record", "return"} => cred[p] \in Creds
    /\ pc[p] \in {"me", "claim", "record"} => cookie[p] \in Cookies
    /\ pc[p] \notin {"me", "claim", "record"} => cookie[p] = NoCookie
    /\ pc[p] \in {"idle", "next", "get", "read", "me", "claim"} => result[p] = "none"
    /\ began[p] <= today

\* An edit works on a credential with a cookie it has validated before it
\* stores it.
EditInv(e) ==
    /\ pc[e] \in {"validate", "store"} => cred[e] \in Creds /\ cookie[e] \in Cookies
    /\ At(e, "store") => Matches(cred[e], cookie[e])

\* A credential's cookie, once saved and until cleared, is in its sidecar.
KeptCookies == \A c \in kept \cap Paths : sidecar[c].cookie # NoCookie

CInv == /\ TypeOK
        /\ \A p \in Runners : RunInv(p)
        /\ \A e \in Editors : EditInv(e)
        /\ CookiesStayHome /\ SuccessIsReal /\ KeptCookies

LEMMA CInvInit == Init => CInv
<1> SUFFICES ASSUME Init PROVE CInv
  OBVIOUS
<1> USE CheckinAssumption, RecordsAssumption
<1>1. TypeOK
  <2>1. sidecar \in [Paths -> Sidecars]  BY DEF Init, EmptySidecar, Sidecars
  <2>2. today \in 0..MaxDay /\ \A p \in Runners : began[p] \in 0..MaxDay
    BY DEF Init
  <2>3. began \in [Runners -> 0..MaxDay]  BY <2>2 DEF Init
  <2>4. claimed \in [0..MaxDay -> SUBSET Accounts]  BY DEF Init
  <2>5. /\ pc \in [Procs -> Stages] /\ cred \in [Procs -> Creds \cup {NoCred}]
        /\ cookie \in [Procs -> Cookies \cup {NoCookie}]
    BY DEF Init, Stages
  <2>6. /\ todo \in [Runners -> SUBSET Creds] /\ answer \in [Runners -> Answers]
        /\ result \in [Runners -> Results]
    BY DEF Init, Answers, Results
  <2>7. \A p \in Runners : ~At(p, "record")  BY DEF Init, At, Procs
  <2> QED  BY <2>1, <2>2, <2>3, <2>4, <2>5, <2>6, <2>7 DEF Init, TypeOK
<1>2. \A p \in Runners : RunInv(p)
  BY DEF Init, RunInv, Procs
<1>3. \A e \in Editors : EditInv(e)
  BY DEF Init, EditInv, At, Procs
<1>4. CookiesStayHome
  BY DEF Init, CookiesStayHome, EmptySidecar, Procs
<1>5. SuccessIsReal /\ KeptCookies
  BY DEF Init, SuccessIsReal, KeptCookies, At, Procs
<1> QED  BY <1>1, <1>2, <1>3, <1>4, <1>5 DEF CInv

\* The website moves on: sessions expire, accounts check in, days pass.
LEMMA SiteStep ==
    ASSUME CInv,
           \/ \E k \in Cookies : SessionExpires(k)
           \/ \E a \in Accounts : BrowserClaim(a)
           \/ NewDay
    PROVE  CInv'
<1>0. TypeOK /\ today \in 0..MaxDay /\ MaxDay \in Nat
  BY CheckinAssumption DEF CInv, TypeOK
<1>1. UNCHANGED <<sidecar, kept, pc, cred, cookie, todo, began, answer, result>>
  BY DEF SessionExpires, BrowserClaim, NewDay
<1>2. today' \in 0..MaxDay /\ today <= today'
  BY <1>0 DEF SessionExpires, BrowserClaim, NewDay
<1>3. /\ live' \subseteq Cookies
      /\ claimed' \in [0..MaxDay -> SUBSET Accounts]
      /\ \A d \in 0..MaxDay : claimed[d] \subseteq claimed'[d]
  <2>1. CASE \E k \in Cookies : SessionExpires(k)
    BY <1>0, <2>1 DEF SessionExpires, TypeOK
  <2>2. CASE \E a \in Accounts : BrowserClaim(a)
    BY <1>0, <2>2 DEF BrowserClaim, TypeOK
  <2>3. CASE NewDay
    BY <1>0, <2>3 DEF NewDay, TypeOK
  <2> QED  BY <2>1, <2>2, <2>3
<1>4. TypeOK'  BY <1>0, <1>1, <1>2, <1>3 DEF TypeOK, At
<1>5. \A p \in Runners : RunInv(p)'
  BY <1>0, <1>1, <1>2 DEF CInv, RunInv, TypeOK
<1>6. \A e \in Editors : EditInv(e)'
  BY <1>1 DEF CInv, EditInv, At, Matches
<1>7. CookiesStayHome' /\ KeptCookies'
  BY <1>1 DEF CInv, CookiesStayHome, KeptCookies
<1>8. SuccessIsReal'
  <2> SUFFICES ASSUME NEW p \in Runners, At(p, "record"), result[p] \in {"ok", "already"}
               PROVE  \E d \in began[p]..today' : OwnerOf[cookie[p]] \in claimed'[d]
    BY <1>1 DEF SuccessIsReal, At
  <2>1. PICK d \in began[p]..today : OwnerOf[cookie[p]] \in claimed[d]
    BY DEF CInv, SuccessIsReal
  <2>2. began[p] \in 0..MaxDay  BY <1>0 DEF TypeOK
  <2> QED  BY <1>0, <1>2, <1>3, <2>1, <2>2
<1> QED  BY <1>4, <1>5, <1>6, <1>7, <1>8 DEF CInv

----------------------------------------------------------------------------
(* One step of a goroutine *)

\* Nothing happens to the others: the step changes p's locals, perhaps one
\* sidecar by an update that respects ownership, and books claims only.
Apart(p) ==
    /\ today' = today /\ live' = live
    /\ claimed' \in [0..MaxDay -> SUBSET Accounts]
    /\ \A d \in 0..MaxDay : claimed[d] \subseteq claimed'[d]
    /\ \A q \in Procs \ {p} : pc'[q] = pc[q] /\ cred'[q] = cred[q] /\ cookie'[q] = cookie[q]
    /\ \A q \in Runners \ {p} : /\ began'[q] = began[q] /\ result'[q] = result[q]

LEMMA OthersUntouched ==
    ASSUME CInv, NEW p \in Procs, Apart(p)
    PROVE  /\ \A q \in Runners \ {p} :
                 /\ RunInv(q)'
                 /\ SiteNamesOwner /\ cred'[q] \in HasEmail /\ cookie'[q] # NoCookie =>
                       OwnerOf[cookie'[q]] = AccountOf[cred'[q]]
                 /\ pc'[q] = "record" /\ result'[q] \in {"ok", "already"} =>
                       \E d \in began'[q]..today' : OwnerOf[cookie'[q]] \in claimed'[d]
                 /\ pc'[q] = "record" => result'[q] \in Runs
           /\ \A e \in Editors \ {p} : EditInv(e)'
<1>0. TypeOK /\ today \in 0..MaxDay /\ MaxDay \in Nat
      /\ Runners \subseteq Procs /\ Editors \subseteq Procs
  BY CheckinAssumption DEF CInv, TypeOK, Procs
<1>1. ASSUME NEW q \in Runners \ {p} PROVE RunInv(q)'
  BY <1>0, <1>1 DEF CInv, RunInv, Apart
<1>2. ASSUME NEW q \in Runners \ {p}
      PROVE  SiteNamesOwner /\ cred'[q] \in HasEmail /\ cookie'[q] # NoCookie =>
                OwnerOf[cookie'[q]] = AccountOf[cred'[q]]
  BY <1>0, <1>2 DEF CInv, CookiesStayHome, Apart
<1>3. ASSUME NEW q \in Runners \ {p}, pc'[q] = "record", result'[q] \in {"ok", "already"}
      PROVE  \E d \in began'[q]..today' : OwnerOf[cookie'[q]] \in claimed'[d]
  <2>1. PICK d \in began[q]..today : OwnerOf[cookie[q]] \in claimed[d]
    BY <1>0, <1>3 DEF CInv, SuccessIsReal, At, Apart
  <2>2. began[q] \in 0..MaxDay  BY <1>0 DEF TypeOK
  <2> QED  BY <1>0, <1>3, <2>1, <2>2 DEF Apart
<1>4. ASSUME NEW q \in Runners \ {p}, pc'[q] = "record" PROVE result'[q] \in Runs
  BY <1>0, <1>4 DEF TypeOK, At, Apart
<1>5. ASSUME NEW e \in Editors \ {p} PROVE EditInv(e)'
  BY <1>0, <1>5 DEF CInv, EditInv, At, Apart, Matches
<1> QED  BY <1>1, <1>2, <1>3, <1>4, <1>5

\* What must be shown of the goroutine that steps, and of the sidecars.
Mine(p) ==
    /\ RunInv(p)
    /\ SiteNamesOwner /\ cred[p] \in HasEmail /\ cookie[p] # NoCookie =>
          OwnerOf[cookie[p]] = AccountOf[cred[p]]
    /\ pc[p] = "record" /\ result[p] \in {"ok", "already"} =>
          \E d \in began[p]..today : OwnerOf[cookie[p]] \in claimed[d]

SidecarsHome ==
    SiteNamesOwner => \A c \in Paths \cap HasEmail :
        sidecar[c].cookie # NoCookie => OwnerOf[sidecar[c].cookie] = AccountOf[c]

LEMMA RunnerPreserves ==
    ASSUME CInv, NEW p \in Runners, Apart(p), TypeOK', Mine(p)', SidecarsHome', KeptCookies'
    PROVE  CInv'
<1>1. p \in Procs /\ p \notin Editors  BY CheckinAssumption DEF Procs
<1>2. \A q \in Runners : Mine(q)'  BY <1>1, OthersUntouched DEF Mine
<1>3. \A e \in Editors : EditInv(e)'  BY <1>1, OthersUntouched
<1> QED
  BY <1>2, <1>3 DEF CInv, Mine, SidecarsHome, CookiesStayHome, SuccessIsReal, At

LEMMA EditorPreserves ==
    ASSUME CInv, NEW e \in Editors, Apart(e), TypeOK', EditInv(e)', SidecarsHome', KeptCookies'
    PROVE  CInv'
<1>1. e \in Procs /\ e \notin Runners  BY CheckinAssumption DEF Procs
<1>2. \A q \in Runners : Mine(q)'  BY <1>1, OthersUntouched DEF Mine
<1>3. \A f \in Editors : EditInv(f)'  BY <1>1, OthersUntouched
<1> QED
  BY <1>2, <1>3 DEF CInv, Mine, SidecarsHome, CookiesStayHome, SuccessIsReal, At

\* The parts of CInv a step of p starts from.
LEMMA Parts ==
    ASSUME CInv
    PROVE  /\ TypeOK /\ SidecarsHome /\ KeptCookies
           /\ \A p \in Runners : Mine(p) /\ p \in Procs
           /\ \A e \in Editors : EditInv(e) /\ e \in Procs
           /\ Runners \cap Editors = {} /\ MaxDay \in Nat /\ today \in 0..MaxDay
           /\ pc \in [Procs -> Stages] /\ cred \in [Procs -> Creds \cup {NoCred}]
           /\ cookie \in [Procs -> Cookies \cup {NoCookie}]
           /\ began \in [Runners -> 0..MaxDay] /\ result \in [Runners -> Results]
           /\ claimed \in [0..MaxDay -> SUBSET Accounts]
BY CheckinAssumption
   DEF CInv, Mine, SidecarsHome, CookiesStayHome, SuccessIsReal, At, TypeOK, Procs

LEMMA RunnerStep ==
    ASSUME CInv, NEW p \in Runners, StartPass(p) \/ RunStep(p)
    PROVE  CInv'
<1>0. /\ TypeOK /\ SidecarsHome /\ KeptCookies /\ Mine(p) /\ p \in Procs
      /\ MaxDay \in Nat /\ today \in 0..MaxDay
      /\ pc \in [Procs -> Stages] /\ cred \in [Procs -> Creds \cup {NoCred}]
      /\ cookie \in [Procs -> Cookies \cup {NoCookie}]
      /\ began \in [Runners -> 0..MaxDay] /\ result \in [Runners -> Results]
      /\ claimed \in [0..MaxDay -> SUBSET Accounts]
  BY Parts
<1>1. CASE StartPass(p)
  <2>1. Apart(p)  BY <1>0, <1>1 DEF StartPass, Goto, Apart, site
  <2>2. TypeOK'  BY <1>0, <1>1 DEF StartPass, Goto, At, TypeOK, Stages, site
  <2>3. Mine(p)'  BY <1>0, <1>1 DEF StartPass, Goto, Mine, RunInv, site, At
  <2>4. SidecarsHome' /\ KeptCookies'
    BY <1>0, <1>1 DEF StartPass, SidecarsHome, KeptCookies
  <2> QED  BY <2>1, <2>2, <2>3, <2>4, RunnerPreserves
<1>2. CASE Visit(p)
  <2>1. Apart(p)  BY <1>0, <1>2 DEF Visit, Goto, Apart, site
  <2>2. PICK c \in todo[p] : /\ todo' = [todo EXCEPT ![p] = @ \ {c}]
                             /\ cred' = [cred EXCEPT ![p] = c]
    BY <1>2 DEF Visit
  <2>3. c \in Creds  BY <2>2 DEF CInv, TypeOK
  <2>4. TypeOK'  BY <1>0, <1>2, <2>2, <2>3 DEF Visit, Goto, At, TypeOK, Stages, site
  <2>5. Mine(p)'  BY <1>0, <1>2, <2>2, <2>3 DEF Visit, Goto, Mine, RunInv, site, At
  <2>6. SidecarsHome' /\ KeptCookies'
    BY <1>0, <1>2 DEF Visit, SidecarsHome, KeptCookies
  <2> QED  BY <2>1, <2>4, <2>5, <2>6, RunnerPreserves
<1>3. CASE EndPass(p)
  <2>1. Apart(p)  BY <1>0, <1>3 DEF EndPass, Goto, Apart, site
  <2>2. TypeOK'  BY <1>0, <1>3 DEF EndPass, Goto, At, TypeOK, Stages, site
  <2>3. Mine(p)'  BY <1>0, <1>3 DEF EndPass, Goto, Mine, RunInv, site, At
  <2>4. SidecarsHome' /\ KeptCookies'
    BY <1>0, <1>3 DEF EndPass, SidecarsHome, KeptCookies
  <2> QED  BY <2>1, <2>2, <2>3, <2>4, RunnerPreserves
<1>4. CASE Get(p)
  <2>1. Apart(p)  BY <1>0, <1>4 DEF Get, Goto, Apart, site
  <2>2. TypeOK'
    <3>1. PICK stage \in {"read", "next"} : pc' = [pc EXCEPT ![p] = stage]
      BY <1>4 DEF Get, Goto
    <3> QED  BY <1>0, <1>4, <3>1 DEF Get, At, TypeOK, Stages, site
  <2>3. Mine(p)'  BY <1>0, <1>4 DEF Get, Goto, Mine, RunInv, site, At
  <2>4. SidecarsHome' /\ KeptCookies'
    BY <1>0, <1>4 DEF Get, SidecarsHome, KeptCookies
  <2> QED  BY <2>1, <2>2, <2>3, <2>4, RunnerPreserves
<1>5. CASE ReadCookie(p)
  <2>1. Apart(p)  BY <1>0, <1>5 DEF ReadCookie, Goto, Apart, site
  <2>2. SidecarsHome' /\ KeptCookies'
    BY <1>0, <1>5 DEF ReadCookie, SidecarsHome, KeptCookies
  <2>3. pc[p] = "read" /\ cred' = cred /\ cred[p] \in Creds /\ UNCHANGED <<sidecar, site>>
    BY <1>0, <1>5 DEF ReadCookie, At, Mine, RunInv
  <2>4. CASE Goto(p, "return") /\ UNCHANGED <<cookie, began>>
             /\ \E r \in {"error", "no_cookie"} : result' = [result EXCEPT ![p] = r]
    <3>1. TypeOK'
      BY <1>0, <1>5, <2>3, <2>4, CheckinAssumption
         DEF ReadCookie, Goto, At, TypeOK, Stages, site, Results
    <3>2. Mine(p)'  BY <1>0, <2>3, <2>4 DEF Goto, Mine, RunInv, site
    <3> QED  BY <2>1, <2>2, <3>1, <3>2, RunnerPreserves
  <2>5. CASE /\ Stored(cred[p]).cookie # NoCookie
             /\ cookie' = [cookie EXCEPT ![p] = Stored(cred[p]).cookie]
             /\ began' = [began EXCEPT ![p] = today]
             /\ Goto(p, "me") /\ UNCHANGED result
    <3>1. cred[p] \in Paths /\ Stored(cred[p]) = sidecar[cred[p]]
      BY <2>5 DEF Stored, EmptySidecar
    <3>2. sidecar[cred[p]].cookie \in Cookies
      BY <1>0, <2>5, <3>1 DEF TypeOK, Sidecars
    <3>3. TypeOK'
      BY <1>0, <1>5, <2>3, <2>5, <3>1, <3>2
         DEF ReadCookie, Goto, At, TypeOK, Stages, site
    <3>4. Mine(p)'
      BY <1>0, <2>3, <2>5, <3>1, <3>2 DEF Goto, Mine, RunInv, site, SidecarsHome
    <3> QED  BY <2>1, <2>2, <3>3, <3>4, RunnerPreserves
  <2> QED  BY <1>5, <2>4, <2>5 DEF ReadCookie
<1>6. CASE AskMe(p)
  <2>1. Apart(p)  BY <1>0, <1>6 DEF AskMe, Conclude, Goto, Apart, site
  <2>2. SidecarsHome' /\ KeptCookies'
    BY <1>0, <1>6 DEF AskMe, SidecarsHome, KeptCookies
  <2>3. /\ pc[p] = "me" /\ cookie[p] \in Cookies /\ began[p] \in 0..MaxDay /\ began[p] <= today
        /\ UNCHANGED <<cookie, cred, began, site, sidecar, kept, todo>>
    BY <1>0, <1>6 DEF AskMe, At, Mine, RunInv
  <2>4. answer' \in [Runners -> Answers]
    BY <1>0, <1>6 DEF AskMe, AnswersTo, TypeOK, Answers
  <2>5. CASE \E r \in Runs : /\ Conclude(p, r)
                             /\ r \in {"ok", "already"} => CheckedIn(cookie[p])
    <3>1. TypeOK'
      BY <1>0, <2>3, <2>4, <2>5
         DEF Conclude, Goto, At, TypeOK, Stages, site, Results
    <3>2. Mine(p)'
      BY <1>0, <2>3, <2>5 DEF Conclude, Goto, Mine, RunInv, site, CheckedIn
    <3> QED  BY <2>1, <2>2, <3>1, <3>2, RunnerPreserves
  <2>6. CASE Goto(p, "claim") /\ UNCHANGED result
    <3>1. TypeOK'
      BY <1>0, <2>3, <2>4, <2>6 DEF Goto, At, TypeOK, Stages, site
    <3>2. Mine(p)'  BY <1>0, <2>3, <2>6 DEF Goto, Mine, RunInv, site
    <3> QED  BY <2>1, <2>2, <3>1, <3>2, RunnerPreserves
  <2> QED  BY <1>6, <2>5, <2>6, CheckinAssumption DEF AskMe
<1>7. CASE SubmitClaim(p)
  <2>1. /\ pc[p] = "claim" /\ cookie[p] \in Cookies /\ began[p] \in 0..MaxDay /\ began[p] <= today
        /\ UNCHANGED <<cookie, cred, began, today, live, sidecar, kept, todo>>
    BY <1>0, <1>7 DEF SubmitClaim, At, Mine, RunInv
  <2>2. OwnerOf[cookie[p]] \in Accounts  BY <2>1, CheckinAssumption
  <2>3. claimed' \in {claimed, Booked(cookie[p])}  BY <1>7 DEF SubmitClaim
  <2>4. /\ claimed' \in [0..MaxDay -> SUBSET Accounts]
        /\ \A d \in 0..MaxDay : claimed[d] \subseteq claimed'[d]
    BY <1>0, <2>2, <2>3 DEF Booked
  <2>5. PICK r \in Runs : /\ Conclude(p, r)
                          /\ r \in {"ok", "already"} => claimed' = Booked(cookie[p])
    BY <1>7, CheckinAssumption DEF SubmitClaim
  <2>6. answer' \in [Runners -> Answers]
    BY <1>0, <1>7 DEF SubmitClaim, TypeOK, Answers
  <2>7. Apart(p)  BY <1>0, <2>1, <2>4, <2>5 DEF Conclude, Goto, Apart
  <2>8. SidecarsHome' /\ KeptCookies'
    BY <1>0, <2>1 DEF SidecarsHome, KeptCookies
  <2>9. TypeOK'
    <3>1. /\ pc' = [pc EXCEPT ![p] = "record"] /\ result' = [result EXCEPT ![p] = r]
          /\ r \in Results /\ "record" \in Stages
      BY <2>5 DEF Conclude, Goto, Stages, Results
    <3>2. pc' \in [Procs -> Stages] /\ result' \in [Runners -> Results]
      BY <1>0, <3>1
    <3>3. \A q \in Runners : pc'[q] = "record" => result'[q] \in Runs
      BY <1>0, <3>1 DEF TypeOK, At, Procs
    <3> QED  BY <1>0, <2>1, <2>4, <2>6, <3>2, <3>3 DEF TypeOK, At
  <2>10. Mine(p)'
    <3>1. /\ pc'[p] = "record" /\ result'[p] = r /\ began' = began /\ today' = today
          /\ cookie' = cookie /\ cred' = cred
      BY <1>0, <2>1, <2>5 DEF Conclude, Goto
    <3>2. RunInv(p)'  BY <1>0, <2>1, <3>1 DEF Mine, RunInv
    <3>3. r \in {"ok", "already"} => OwnerOf[cookie[p]] \in claimed'[today]
      BY <1>0, <2>5 DEF Booked
    <3>4. today \in began[p]..today  BY <1>0, <2>1
    <3> QED  BY <1>0, <3>1, <3>2, <3>3, <3>4 DEF Mine
  <2> QED  BY <2>7, <2>8, <2>9, <2>10, RunnerPreserves
<1>8. CASE Record(p)
  <2>1. /\ pc[p] = "record" /\ result[p] \in Runs
        /\ UNCHANGED <<kept, live, claimed, today, cred, todo>>
        /\ EndRun(p)
    BY <1>0, <1>8 DEF Record, At, TypeOK, site
  <2>2. /\ sidecar' \in [Paths -> Sidecars]
        /\ \A c \in Paths : sidecar'[c].cookie = sidecar[c].cookie
    <3>1. CASE UNCHANGED sidecar  BY <1>0, <3>1 DEF TypeOK
    <3>2. CASE /\ cred[p] \in Paths
               /\ sidecar' = [sidecar EXCEPT ![cred[p]] =
                                 Apply(RecordRun(result[p]), sidecar[cred[p]])]
      <4>1. sidecar[cred[p]] \in Sidecars /\ sidecar \in [Paths -> Sidecars]
        BY <1>0, <3>2 DEF TypeOK
      <4>2. /\ Apply(RecordRun(result[p]), sidecar[cred[p]]) \in Sidecars
            /\ Apply(RecordRun(result[p]), sidecar[cred[p]]).cookie = sidecar[cred[p]].cookie
        BY <2>1, <4>1, UpdateIs
      <4> QED  BY <3>2, <4>1, <4>2
    <3> QED  BY <1>8, <3>1, <3>2 DEF Record, UpdateStored
  <2>3. Apart(p)  BY <1>0, <2>1 DEF EndRun, Goto, Apart
  <2>4. TypeOK'
    BY <1>0, <2>1, <2>2 DEF EndRun, Goto, At, TypeOK, Stages, Answers, Results
  <2>5. Mine(p)'  BY <1>0, <2>1 DEF EndRun, Goto, Mine, RunInv
  <2>6. SidecarsHome' /\ KeptCookies'
    BY <1>0, <2>1, <2>2 DEF SidecarsHome, KeptCookies
  <2> QED  BY <2>3, <2>4, <2>5, <2>6, RunnerPreserves
<1>9. CASE ReturnUnrecorded(p)
  <2>1. /\ UNCHANGED <<sidecar, kept, live, claimed, today, cred, todo>> /\ EndRun(p)
        /\ pc[p] = "return"
    BY <1>9 DEF ReturnUnrecorded, site, At
  <2>2. Apart(p)  BY <1>0, <2>1 DEF EndRun, Goto, Apart
  <2>3. TypeOK'
    BY <1>0, <2>1 DEF EndRun, Goto, At, TypeOK, Stages, Answers, Results
  <2>4. Mine(p)'  BY <1>0, <2>1 DEF EndRun, Goto, Mine, RunInv
  <2>5. SidecarsHome' /\ KeptCookies'
    BY <1>0, <2>1 DEF SidecarsHome, KeptCookies
  <2> QED  BY <2>2, <2>3, <2>4, <2>5, RunnerPreserves
<1> QED
  BY <1>1, <1>2, <1>3, <1>4, <1>5, <1>6, <1>7, <1>8, <1>9 DEF RunStep

LEMMA EditorStep ==
    ASSUME CInv, NEW e \in Editors, BeginSave(e) \/ Validate(e) \/ Store(e) \/ Clear(e)
    PROVE  CInv'
<1>0. /\ TypeOK /\ SidecarsHome /\ KeptCookies /\ EditInv(e) /\ e \in Procs /\ e \notin Runners
      /\ pc \in [Procs -> Stages] /\ cred \in [Procs -> Creds \cup {NoCred}]
      /\ cookie \in [Procs -> Cookies \cup {NoCookie}]
      /\ claimed \in [0..MaxDay -> SUBSET Accounts]
      /\ sidecar \in [Paths -> Sidecars] /\ Paths \subseteq Creds
  BY Parts, CheckinAssumption DEF TypeOK
<1>1. CASE BeginSave(e)
  <2>1. PICK c \in Creds, k \in Cookies : /\ cred' = [cred EXCEPT ![e] = c]
                                          /\ cookie' = [cookie EXCEPT ![e] = k]
    BY <1>1 DEF BeginSave
  <2>2. Apart(e)  BY <1>0, <1>1, <2>1 DEF BeginSave, Goto, Apart, site
  <2>3. TypeOK'
    BY <1>0, <1>1, <2>1 DEF BeginSave, Goto, At, TypeOK, Stages, site
  <2>4. EditInv(e)'
    BY <1>0, <1>1, <2>1 DEF BeginSave, Goto, EditInv, At
  <2>5. SidecarsHome' /\ KeptCookies'
    BY <1>0, <1>1 DEF BeginSave, SidecarsHome, KeptCookies
  <2> QED  BY <2>2, <2>3, <2>4, <2>5, EditorPreserves
<1>2. CASE Validate(e)
  <2>1. Apart(e)  BY <1>0, <1>2 DEF Validate, EndSave, Goto, Apart, site
  <2>2. TypeOK'
    <3>1. CASE Goto(e, "store") /\ UNCHANGED <<cred, cookie>>
      BY <1>0, <1>2, <3>1 DEF Validate, Goto, At, TypeOK, Stages, site
    <3>2. CASE EndSave(e)
      BY <1>0, <1>2, <3>2 DEF Validate, EndSave, Goto, At, TypeOK, Stages, site
    <3> QED  BY <1>2, <3>1, <3>2 DEF Validate
  <2>3. EditInv(e)'
    BY <1>0, <1>2 DEF Validate, EndSave, Goto, EditInv, At, Matches
  <2>4. SidecarsHome' /\ KeptCookies'
    BY <1>0, <1>2 DEF Validate, SidecarsHome, KeptCookies
  <2> QED  BY <2>1, <2>2, <2>3, <2>4, EditorPreserves
<1>3. CASE Store(e)
  <2>1. /\ cred[e] \in Creds /\ cookie[e] \in Cookies /\ Matches(cred[e], cookie[e])
        /\ EndSave(e) /\ UNCHANGED <<live, claimed, today, todo, began, answer, result>>
    BY <1>0, <1>3 DEF Store, EditInv, At, site
  <2>2. Apart(e)  BY <1>0, <2>1 DEF EndSave, Goto, Apart
  <2>3. EditInv(e)'  BY <1>0, <2>1 DEF EndSave, Goto, EditInv, At
  <2>4. CASE UNCHANGED <<sidecar, kept>>
    <3>1. TypeOK'  BY <1>0, <2>1, <2>4 DEF EndSave, Goto, At, TypeOK, Stages
    <3>2. SidecarsHome' /\ KeptCookies'
      BY <1>0, <2>4 DEF SidecarsHome, KeptCookies
    <3> QED  BY <2>2, <2>3, <3>1, <3>2, EditorPreserves
  <2>5. CASE UpdateStored(cred[e], SaveCookie(cookie[e])) /\ kept' = kept \cup {cred[e]}
    <3>1. \A c \in Paths : /\ sidecar'[c] \in Sidecars
                           /\ c # cred[e] => sidecar'[c] = sidecar[c]
                           /\ c = cred[e] => sidecar'[c].cookie = cookie[e]
      BY <1>0, <2>1, <2>5, UpdateIs DEF UpdateStored
    <3>2. sidecar' \in [Paths -> Sidecars]
      BY <1>0, <2>5, <3>1 DEF UpdateStored
    <3>3. TypeOK'
      BY <1>0, <2>1, <2>5, <3>2 DEF EndSave, Goto, At, TypeOK, Stages
    <3>4. SidecarsHome'
      BY <1>0, <2>1, <3>1 DEF SidecarsHome, Matches
    <3>5. KeptCookies'
      BY <1>0, <2>1, <2>5, <3>1, RecordsAssumption DEF KeptCookies
    <3> QED  BY <2>2, <2>3, <3>3, <3>4, <3>5, EditorPreserves
  <2> QED  BY <1>3, <2>4, <2>5 DEF Store
<1>4. CASE Clear(e)
  <2>1. PICK c \in Creds : UpdateStored(c, ClearCookie) /\ kept' = kept \ {c}
    BY <1>4 DEF Clear
  <2>2. /\ At(e, "idle")
        /\ UNCHANGED <<live, claimed, today, pc, cred, cookie, todo, began, answer, result>>
    BY <1>4 DEF Clear, site
  <2>3. \A d \in Paths : /\ sidecar'[d] \in Sidecars
                         /\ d # c => sidecar'[d] = sidecar[d]
                         /\ d = c => sidecar'[d].cookie = NoCookie
    BY <1>0, <2>1, UpdateIs DEF UpdateStored
  <2>4. sidecar' \in [Paths -> Sidecars]
    BY <1>0, <2>1, <2>3 DEF UpdateStored
  <2>5. Apart(e)  BY <1>0, <2>2 DEF Apart
  <2>6. TypeOK'  BY <1>0, <2>1, <2>2, <2>4 DEF At, TypeOK
  <2>7. EditInv(e)'  BY <1>0, <2>2 DEF EditInv, At
  <2>8. SidecarsHome'  BY <1>0, <2>3 DEF SidecarsHome
  <2>9. KeptCookies'  BY <1>0, <2>1, <2>3 DEF KeptCookies
  <2> QED  BY <2>5, <2>6, <2>7, <2>8, <2>9, EditorPreserves
<1> QED  BY <1>1, <1>2, <1>3, <1>4

LEMMA CInvStep == CInv /\ [Next]_vars => CInv'
<1> SUFFICES ASSUME CInv, [Next]_vars PROVE CInv'
  OBVIOUS
<1>1. CASE UNCHANGED vars
  <2>1. TypeOK'  BY <1>1 DEF CInv, TypeOK, At, vars
  <2>2. \A p \in Runners : RunInv(p)'  BY <1>1 DEF CInv, RunInv, vars
  <2>3. \A e \in Editors : EditInv(e)'  BY <1>1 DEF CInv, EditInv, At, Matches, vars
  <2>4. CookiesStayHome' /\ KeptCookies' /\ SuccessIsReal'
    BY <1>1 DEF CInv, CookiesStayHome, KeptCookies, SuccessIsReal, At, vars
  <2> QED  BY <2>1, <2>2, <2>3, <2>4 DEF CInv
<1> QED  BY <1>1, SiteStep, RunnerStep, EditorStep DEF Next

----------------------------------------------------------------------------

\* The variables keep their types and no outcome but the four a sidecar knows
\* is ever recorded.
THEOREM TypeCorrect == Spec => []TypeOK
<1>1. CInv => TypeOK  BY DEF CInv
<1> QED  BY CInvInit, CInvStep, <1>1, PTL DEF Spec

\* No session of one account is stored for, or used in a run of, another
\* account's credential when both names are known.
THEOREM NoForeignCookie == Spec => []CookiesStayHome
<1>1. CInv => CookiesStayHome  BY DEF CInv
<1> QED  BY CInvInit, CInvStep, <1>1, PTL DEF Spec

\* A recorded success is backed by a check-in the website booked since the run
\* began.
THEOREM NoImaginedSuccess == Spec => []SuccessIsReal
<1>1. CInv => SuccessIsReal  BY DEF CInv
<1> QED  BY CInvInit, CInvStep, <1>1, PTL DEF Spec

\* A saved cookie is found by every run until it is cleared.
THEOREM SavedIsFound == Spec => SavedCookieIsFound
<1>1. ASSUME CInv, [Next]_vars, NEW p \in Runners, At(p, "read"), cred[p] \in kept \cap Paths
      PROVE  result'[p] # "no_cookie"
  <2>1. /\ result[p] = "none" /\ result \in [Runners -> Results]
        /\ Stored(cred[p]).cookie # NoCookie /\ p \notin Editors
    BY <1>1, CheckinAssumption DEF CInv, RunInv, At, TypeOK, KeptCookies, Stored
  <2>2. CASE ReadCookie(p)
    BY <2>1, <2>2 DEF ReadCookie
  <2>3. CASE result'[p] = result[p]
    BY <2>1, <2>3
  <2>4. ASSUME NEW q \in Runners, q # p, StartPass(q) \/ RunStep(q)
        PROVE  result'[p] = result[p]
    BY <2>1, <2>4
       DEF StartPass, RunStep, Visit, EndPass, Get, ReadCookie, AskMe, SubmitClaim,
           Record, ReturnUnrecorded, Conclude, EndRun
  <2>5. CASE (StartPass(p) \/ RunStep(p)) /\ ~ReadCookie(p)
    BY <1>1, <2>5
       DEF StartPass, RunStep, Visit, EndPass, Get, AskMe, SubmitClaim, Record,
           ReturnUnrecorded, At
  <2>6. CASE \/ \E e \in Editors : BeginSave(e) \/ Validate(e) \/ Store(e) \/ Clear(e)
             \/ \E k \in Cookies : SessionExpires(k)
             \/ \E a \in Accounts : BrowserClaim(a)
             \/ NewDay \/ UNCHANGED vars
    BY <2>3, <2>6
       DEF BeginSave, Validate, Store, Clear, SessionExpires, BrowserClaim, NewDay, vars
  <2> QED  BY <1>1, <2>2, <2>3, <2>4, <2>5, <2>6 DEF Next
<1>2. ASSUME CInv, [Next]_vars
      PROVE  [\A p \in Runners : At(p, "read") /\ cred[p] \in kept \cap Paths =>
                 result'[p] # "no_cookie"]_vars
  BY <1>1, <1>2
<1> QED  BY CInvInit, CInvStep, <1>2, PTL DEF Spec, SavedCookieIsFound
----------------------------------------------------------------------------

\* The register speaks of the same records and updates.
LEMMA SameRecords ==
    /\ Register!Sidecars = Sidecars
    /\ Register!Updates = Updates
    /\ \A u, sc : Register!Apply(u, sc) = Apply(u, sc)
BY DEF Register!Sidecars, Sidecars, Register!Updates, Updates,
       Register!SaveCookie, SaveCookie, Register!ClearCookie, ClearCookie,
       Register!RecordRun, RecordRun, Register!Apply, Apply

\* A locked update of a credential leaves the sidecars alone, when there is no
\* path, or is one whole update of the register.
LEMMA StoredIsUpdate ==
    ASSUME NEW c, NEW u \in Updates, UpdateStored(c, u)
    PROVE  Register!Next \/ UNCHANGED sidecar
BY SameRecords DEF UpdateStored, Register!Next, Register!Update, Register!Settle

\* Whatever runs, edits and passes are interleaved, they reach the sidecars only
\* by whole updates, so that the files of CheckinSidecar can stand for them.
THEOREM RegisterUsed == Spec => UsesRegister
<1>1. Init => Register!Init
  BY SameRecords DEF Init, Register!Init, EmptySidecar, Sidecars
<1>2. CInv /\ [Next]_vars => [Register!Next]_<<sidecar, [f \in Paths |-> {}]>>
  <2> SUFFICES ASSUME CInv, [Next]_vars, ~ UNCHANGED sidecar PROVE Register!Next
    OBVIOUS
  <2>1. ASSUME NEW p \in Runners, Record(p) PROVE Register!Next
    <3>1. result[p] \in Runs  BY <2>1 DEF Record, CInv, TypeOK
    <3>2. RecordRun(result[p]) \in Updates  BY <3>1 DEF Updates
    <3>3. UpdateStored(cred[p], RecordRun(result[p]))  BY <2>1 DEF Record
    <3> QED  BY <3>2, <3>3, StoredIsUpdate
  <2>2. ASSUME NEW e \in Editors, Store(e) PROVE Register!Next
    <3>1. cookie[e] \in Cookies  BY <2>2 DEF Store, At, CInv, EditInv
    <3>2. SaveCookie(cookie[e]) \in Updates  BY <3>1 DEF Updates
    <3>3. UpdateStored(cred[e], SaveCookie(cookie[e]))  BY <2>2 DEF Store
    <3> QED  BY <3>2, <3>3, StoredIsUpdate
  <2>3. ASSUME NEW e \in Editors, Clear(e) PROVE Register!Next
    <3>1. ClearCookie \in Updates  BY DEF Updates
    <3>2. PICK c \in Creds : UpdateStored(c, ClearCookie)  BY <2>3 DEF Clear
    <3> QED  BY <3>1, <3>2, StoredIsUpdate
  <2>4. CASE \E p \in Runners : (StartPass(p) \/ RunStep(p)) /\ ~ Record(p)
    BY <2>4
       DEF StartPass, RunStep, Visit, EndPass, Get, ReadCookie, AskMe, SubmitClaim,
           ReturnUnrecorded
  <2>5. CASE \/ \E e \in Editors : BeginSave(e) \/ Validate(e)
             \/ \E k \in Cookies : SessionExpires(k)
             \/ \E a \in Accounts : BrowserClaim(a)
             \/ NewDay \/ UNCHANGED vars
    BY <2>5
       DEF BeginSave, Validate, SessionExpires, BrowserClaim, NewDay, vars
  <2> QED  BY <2>1, <2>2, <2>3, <2>4, <2>5 DEF Next, RunStep
<1> QED
  BY CInvInit, CInvStep, <1>1, <1>2, PTL DEF Spec, UsesRegister, Register!Spec
=============================================================================
