---------------------------- MODULE DeviceLogin -----------------------------
(***************************************************************************)
(* Browser device login: auth.login.start and the host's repeated, possibly*)
(* overlapping auth.login.poll calls, up to the credential file the host   *)
(* writes, and the file's later round trips through auth.parse,            *)
(* auth.refresh and model.for_auth.                                        *)
(*                                                                         *)
(* A round trip is two steps, the reading of the file and the writing back *)
(* after the gateway has answered, and the user may edit the file between  *)
(* them.  A poll is up to three steps, between which anything may happen:  *)
(* it loads the session, the gateway's answer is acted on, and the         *)
(* credential of an approved device is completed and handed over.  The     *)
(* gateway, the user, the clock and the host's writes are external.  A     *)
(* session, its key pair and its poll secret are named by the login state  *)
(* they belong to.                                                         *)
(***************************************************************************)
EXTENDS CredentialRecords, Integers

CONSTANTS Logins,     \* login states
          OldDevice,  \* the device of the file that is there already
          Accounts,   \* accounts; a file is named after one, or after a device
          AccountOf,  \* the account that approves each login
          Polls,      \* poll calls that can be under way at a time
          Lives,      \* expires_in values the gateway may offer
          MaxLife,    \* the longest the plugin accepts
          DefaultLife,\* what it assumes otherwise
          UserValue,  \* what the user has set a key to
          NewValue,   \* what the user changes it to
          Edits,      \* the sets of keys the user changes together
          NoLogin,    \* a poll that is not under way
          Trips,      \* round trips that can be under way at a time
          NoTrip      \* one that is not

Devices == Logins \cup {OldDevice}

ASSUME LoginAssumption ==
    /\ OldDevice \notin Logins
    /\ "" \notin Devices /\ "" \notin Accounts
    /\ NoLogin \notin Logins
    /\ Accounts \cap Devices = {}
    /\ AccountOf \in [Devices -> Accounts]
    /\ Lives \subseteq Int
    /\ MaxLife \in Nat /\ DefaultLife \in 1..MaxLife
    /\ UserValue # "" /\ NewValue # ""
    /\ Edits \subseteq SUBSET (UserKeys \cup {"prefix", IntervalKey})

VARIABLES sessions,  \* loginSessions: the time each has left, -1 once it lapsed
          device,    \* gateway: what became of each login
          pc,        \* where each poll is
          login,     \* the session it loaded
          files,     \* auth-dir
          trips,     \* the file each round trip has read, and what it read
          concluded  \* logins the host has been told the end of

polls == <<pc, login>>
vars  == <<sessions, device, pc, login, files, trips, concluded>>

Outcomes == {"none", "waiting", "approved", "delivered", "expired", "refused"}
Stages   == {"idle", "asking", "approved"}
\* The keys the user sets.
UserOwned == UserKeys \cup {"prefix"}
\* The keys the user may edit; the plugin does not give way on the last.
Editable == UserOwned \cup {IntervalKey}

\* The file of the device the account used so far, as an older CLI left it and
\* the user edited it.
OldFile(att) ==
    [k \in {"deviceToken", "keys", "email", "baseUrl"} \cup att \cup Editable |->
        CASE k \in DeviceKeys -> OldDevice
          [] k = "email"      -> AccountOf[OldDevice]
          [] k = "baseUrl"    -> LegacyBase
          [] OTHER            -> UserValue]

NoSessions == [l \in {} |-> 0]

Init ==
    /\ sessions = NoSessions
    /\ device = [l \in Logins |-> "none"]
    /\ pc = [p \in Polls |-> "idle"]
    /\ login = [p \in Polls |-> NoLogin]
    /\ \E att \in SUBSET {"attestation"} :
          files = [f \in {AccountOf[OldDevice]} |-> OldFile(att)]
    /\ trips = [t \in Trips |-> NoTrip]
    /\ concluded = {}

----------------------------------------------------------------------------
(* auth.login.start *)

\* Faulty: whatever lifetime the gateway offers is taken.
AcceptedPositive(offered) == IF offered > 0 THEN offered ELSE DefaultLife

Accepted(offered) == IF offered \in 1..MaxLife THEN offered ELSE DefaultLife

Lapsed(left) == left < 0

Pruned(ss) == Only(ss, {l \in DOMAIN ss : ~Lapsed(ss[l])})

\* The session is stored under a new random state, then the lapsed ones are
\* pruned.  A start that fails stores nothing.
Start(l) ==
    /\ device[l] = "none"
    /\ \E offered \in Lives :
          sessions' = Pruned(Over([k \in {l} |-> Accepted(offered)], sessions))
    /\ device' = [device EXCEPT ![l] = "waiting"]
    /\ UNCHANGED <<polls, files, trips, concluded>>

----------------------------------------------------------------------------
(* auth.login.poll *)

Known(l) == l \in DOMAIN sessions

Delete(l) == sessions' = Only(sessions, DOMAIN sessions \ {l})

\* The end of a login is reported to the host.
Conclude(l) == concluded' = concluded \cup {l}

\* The host knows the state from the start on.
Idle(p, l) == pc[p] = "idle" /\ device[l] # "none"

\* The state is unknown: the session ended, or the plugin was restarted.
PollUnknown(p, l) ==
    /\ Idle(p, l)
    /\ ~Known(l)
    /\ Conclude(l)
    /\ UNCHANGED <<sessions, device, polls, files, trips>>

PollLapsed(p, l) ==
    /\ Idle(p, l)
    /\ Known(l) /\ Lapsed(sessions[l])
    /\ Delete(l)
    /\ Conclude(l)
    /\ UNCHANGED <<device, polls, files, trips>>

\* Faulty: a session is polled however old it is.
PollWheneverKnown(p, l) ==
    /\ Idle(p, l)
    /\ Known(l)
    /\ login' = [login EXCEPT ![p] = l]
    /\ pc' = [pc EXCEPT ![p] = "asking"]
    /\ UNCHANGED <<sessions, device, files, trips, concluded>>

PollLive(p, l) ==
    /\ Idle(p, l)
    /\ Known(l) /\ ~Lapsed(sessions[l])
    /\ login' = [login EXCEPT ![p] = l]
    /\ pc' = [pc EXCEPT ![p] = "asking"]
    /\ UNCHANGED <<sessions, device, files, trips, concluded>>

Return(p) ==
    /\ pc' = [pc EXCEPT ![p] = "idle"]
    /\ login' = [login EXCEPT ![p] = NoLogin]

\* What the gateway may answer, and what it then holds of the device: its one
\* "ok" hands the device over, even if that answer is lost on its way
\* ("pending", as are all transport failures and undecodable bodies).
\* "limited" is a 429 or 5xx, "refused" any other 4xx; a device token that is
\* not shaped like one is "malformed".
Replies(outcome) ==
    {<<"pending", outcome>>, <<"limited", outcome>>} \cup
    (CASE outcome = "waiting"   -> {}
       [] outcome = "approved"  -> {<<"ok", "delivered">>, <<"pending", "delivered">>,
                                    <<"malformed", "approved">>}
       [] outcome = "delivered" -> {<<"ok", "delivered">>, <<"expired", "delivered">>}
       [] OTHER                 -> {<<outcome, outcome>>})

\* A poll under way is answered.
Answered(p, answers) ==
    /\ pc[p] = "asking"
    /\ \E r \in Replies(device[login[p]]) :
          /\ r[1] \in answers
          /\ device' = [device EXCEPT ![login[p]] = r[2]]

StillPending(p) ==
    /\ Answered(p, {"pending", "limited"})
    /\ Return(p)
    /\ UNCHANGED <<sessions, files, trips, concluded>>

\* Faulty: every 4xx ends the session, 429 too.
RefusedOrLimited(p) ==
    /\ Answered(p, {"expired", "refused", "limited"})
    /\ Delete(login[p])
    /\ Conclude(login[p])
    /\ Return(p)
    /\ UNCHANGED <<files, trips>>

\* A permanent error and an expired link end the session.
Refused(p) ==
    /\ Answered(p, {"expired", "refused"})
    /\ Delete(login[p])
    /\ Conclude(login[p])
    /\ Return(p)
    /\ UNCHANGED <<files, trips>>

\* An error for the host, but the session stays.
Malformed(p) ==
    /\ Answered(p, {"malformed"})
    /\ Conclude(login[p])
    /\ Return(p)
    /\ UNCHANGED <<sessions, files, trips>>

Approved(p) ==
    /\ Answered(p, {"ok"})
    /\ Delete(login[p])
    /\ pc' = [pc EXCEPT ![p] = "approved"]
    /\ UNCHANGED <<login, files, trips, concluded>>

\* The credential of an approved device: fetchAttestation and fetchMe give a token
\* and the account's email, or fail and leave them empty.
NewAuth(l, token, email) ==
    [known |-> [k \in Owned |-> CASE k \in {"deviceToken", "keys"} -> l
                                  [] k = "attestation" -> token
                                  [] k = "email"       -> email
                                  [] k = "baseUrl"     -> Base
                                  [] OTHER             -> ""],
     extra |-> [k \in {} |-> ""]]

\* Write a file as the host does.
Save(name, data) ==
    LET old == IF name \in DOMAIN files THEN files[name] ELSE [k \in {} |-> ""] IN
    files' = Over([f \in {name} |-> Saved(data, old)], files)

\* Faulty: a device whose account cannot be read is given up.
HandOverIfNamed(p) ==
    /\ pc[p] = "approved"
    /\ \E token \in {"", login[p]}, email \in {"", AccountOf[login[p]]} :
          LET data == AuthData(NewAuth(login[p], token, email))
          IN  IF email = "" THEN UNCHANGED files ELSE Save(data.name, data)
    /\ Conclude(login[p])
    /\ Return(p)
    /\ UNCHANGED <<sessions, device, trips>>

\* The poll answers with the credential and the host writes it.  The requests on
\* the way touch nothing that is shared, so they are part of this step.
HandOver(p) ==
    /\ pc[p] = "approved"
    /\ \E token \in {"", login[p]}, email \in {"", AccountOf[login[p]]} :
          LET data == AuthData(NewAuth(login[p], token, email))
          IN  Save(data.name, data)
    /\ Conclude(login[p])
    /\ Return(p)
    /\ UNCHANGED <<sessions, device, trips>>

----------------------------------------------------------------------------
(* The file's later life *)

\* auth.parse, auth.refresh and model.for_auth are handed the file, ...
ReadFile(t, f) ==
    /\ trips[t] = NoTrip
    /\ trips' = [trips EXCEPT ![t] = [name |-> f, read |-> files[f]]]
    /\ UNCHANGED <<sessions, device, polls, files, concluded>>

EndTrip(t) == trips' = [trips EXCEPT ![t] = NoTrip]

\* ... may list the models, which may renew the attestation, and hand back what
\* they decoded; the host writes it under the name the file has, with or without
\* completing it from the file that is there by then.
WriteBack(t) ==
    /\ trips[t] # NoTrip
    /\ LET sa == Decode(trips[t].read) IN
       \E token \in {sa.known["attestation"], sa.known["deviceToken"]} :
          LET data == AuthData([sa EXCEPT !.known["attestation"] = token]) IN
          \/ Save(trips[t].name, data)
          \/ files' = [files EXCEPT ![trips[t].name] = Over(data.metadata, data.storage)]
    /\ EndTrip(t)
    /\ UNCHANGED <<sessions, device, polls, concluded>>

\* The listing fails, or is not needed: nothing is written back.
NoWriteBack(t) ==
    /\ trips[t] # NoTrip
    /\ EndTrip(t)
    /\ UNCHANGED <<sessions, device, polls, files, concluded>>

\* The user edits the file, in the host's panel or by hand.
Edit(f) ==
    /\ \E keys \in Edits : files' = [files EXCEPT ![f] = Over([k \in keys |-> NewValue], @)]
    /\ UNCHANGED <<sessions, device, polls, trips, concluded>>

----------------------------------------------------------------------------
(* The gateway, the clock, the process *)

\* The user approves the device, or the link expires, or the gateway refuses.
Decide(l) ==
    /\ device[l] = "waiting"
    /\ \E outcome \in {"approved", "expired", "refused"} :
          device' = [device EXCEPT ![l] = outcome]
    /\ UNCHANGED <<sessions, polls, files, trips, concluded>>

Tick ==
    /\ sessions' = [l \in DOMAIN sessions |->
                       IF Lapsed(sessions[l]) THEN -1 ELSE sessions[l] - 1]
    /\ UNCHANGED <<device, polls, files, trips, concluded>>

\* The sessions live in memory only.
Restart ==
    /\ sessions' = NoSessions
    /\ pc' = [p \in Polls |-> "idle"]
    /\ login' = [p \in Polls |-> NoLogin]
    /\ trips' = [t \in Trips |-> NoTrip]
    /\ UNCHANGED <<device, files, concluded>>

Poll(p, l) == PollUnknown(p, l) \/ PollLapsed(p, l) \/ PollLive(p, l)

Continue(p) == \/ StillPending(p) \/ Refused(p) \/ Malformed(p)
               \/ Approved(p) \/ HandOver(p)

Next == \/ \E l \in Logins : Start(l) \/ Decide(l)
        \/ \E p \in Polls : Continue(p) \/ \E l \in Logins : Poll(p, l)
        \/ \E f \in DOMAIN files : Edit(f) \/ \E t \in Trips : ReadFile(t, f)
        \/ \E t \in Trips : WriteBack(t) \/ NoWriteBack(t)
        \/ Tick \/ Restart

Spec == Init /\ [][Next]_vars

\* A poll leaves its stage: it is answered, or hands over.
Moves(p) == /\ pc[p] # "idle"
            /\ \E stage \in Stages \ {pc[p]} : pc' = [pc EXCEPT ![p] = stage]

\* The host polls a login until it has been told its end, one poll at a time.
HostPolls(l) == /\ l \notin concluded
                /\ \A p \in Polls : login[p] # l
                /\ \E p \in Polls : Poll(p, l)

\* Requests return (doRequest's timeout), the clock runs, the host keeps polling.
Fairness == /\ \A p \in Polls : WF_pc(Moves(p))
            /\ \A l \in Logins : SF_vars(HostPolls(l))
            /\ WF_vars(Tick)

FairSpec == Spec /\ Fairness

----------------------------------------------------------------------------
(* Properties *)

FileOK(file) ==
    /\ DeviceKeys \ {"attestation"} \subseteq DOMAIN file
    /\ DOMAIN file \subseteq Owned \cup UserKeys \cup {IntervalKey}

\* The type invariant; no session outlives what startDeviceLogin accepts.
TypeOK ==
    /\ DOMAIN sessions \subseteq Logins
    /\ \A l \in DOMAIN sessions : sessions[l] \in -1..MaxLife
    /\ device \in [Logins -> Outcomes]
    /\ pc \in [Polls -> Stages]
    /\ login \in [Polls -> Logins \cup {NoLogin}]
    /\ DOMAIN files \subseteq Accounts \cup Devices
    /\ \A f \in DOMAIN files : FileOK(files[f])
    /\ \A t \in Trips : trips[t] # NoTrip =>
          trips[t].name \in DOMAIN files /\ FileOK(trips[t].read)
    /\ concluded \subseteq Logins

\* Whatever logins overlap, whatever of them fails half-way, whatever file they
\* replace and whatever is written back late, a credential file holds the token, the
\* keys and the attestation of one device (handleAuthLoginPoll, credentialMetadata
\* under the host's merge).
FileIsOneDevice ==
    \A f \in DOMAIN files : \A k \in DeviceKeys \cap DOMAIN files[f] :
        files[f][k] \in {files[f]["deviceToken"], ""}

ValueIn(file, k) == IF k \in DOMAIN file THEN file[k] ELSE ""

\* A round trip ends and leaves the key as it was when the trip read the file.
Reverts(f, k) ==
    \E t \in Trips : /\ trips[t] # NoTrip /\ trips'[t] = NoTrip /\ trips[t].name = f
                     /\ ValueIn(files'[f], k) = ValueIn(trips[t].read, k)

\* A key the user set survives every login, refresh and listing, the prefix by
\* being left out when unknown, foreign keys in Extra (authDataFor, MarshalJSON):
\* no write changes one, except that a round trip may undo an edit made after it had
\* read the file.  The refresh interval alone is the plugin's.  And none writes
\* a base back that withMigratedBaseURL would change.
SavesRespectFiles ==
    [][\/ \E f \in DOMAIN files : Edit(f)
       \/ \A f \in DOMAIN files' :
             \/ f \in DOMAIN files /\ files'[f] = files[f]
             \/ /\ f \in DOMAIN files => \A k \in UserOwned :
                      ValueIn(files'[f], k) = ValueIn(files[f], k) \/ Reverts(f, k)
                /\ files'[f][IntervalKey] = HalfDay
                /\ files'[f]["baseUrl"] = MigrateBase(files'[f]["baseUrl"])]_files

\* The plugin gives no login up while the gateway may still have its device, nor a
\* device it was given: a session goes only when it has lapsed or the gateway's word on
\* the login is final (handed over, expired, refused), never for a rate limit, a 5xx
\* or an answer that cannot be read; and a poll that received the device leaves
\* its credential, whatever fails after it deleted the session.  Only a restart
\* does neither.  A device handed over in an answer that is lost on the way is lost.
NothingGivenUp ==
    [][\/ Restart
       \/ /\ \A l \in DOMAIN sessions \ DOMAIN sessions' :
                Lapsed(sessions[l]) \/ device'[l] \in {"delivered", "expired", "refused"}
          /\ \A p \in Polls :
                pc[p] = "approved" /\ pc'[p] = "idle" =>
                    \E f \in DOMAIN files' :
                        files'[f]["deviceToken"] = login[p]]_vars

\* The host is told the end of every login, even if the gateway never gives a
\* usable answer (handleAuthLoginPoll's expiry test).
EveryLoginEnds == \A l \in Logins : device[l] # "none" ~> l \in concluded
=============================================================================
