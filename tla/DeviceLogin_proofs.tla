------------------------- MODULE DeviceLogin_proofs -------------------------
(***************************************************************************)
(* For any number of logins, overlapping polls and round trips, and any    *)
(* keys of the user's: whatever the host merges, and however late a round  *)
(* trip writes back, a credential file is one device's and keeps what is   *)
(* the user's; and the plugin itself gives up no login.                    *)
(***************************************************************************)
EXTENDS DeviceLogin, TLAPS

\* A file that can be written back without loss: it names its gateway, and what
\* the user set in it is not empty.
Complete(file) ==
    /\ "baseUrl" \in DOMAIN file /\ file["baseUrl"] # ""
    /\ "prefix" \in DOMAIN file => file["prefix"] # ""

OneDevice(file) ==
    \A k \in DeviceKeys \cap DOMAIN file : file[k] \in {file["deviceToken"], ""}

GoodFile(file) == FileOK(file) /\ Complete(file) /\ OneDevice(file)

\* A poll under way has its login.
PollsKnowLogin == \A p \in Polls : pc[p] # "idle" => login[p] \in Logins

\* What a round trip writes back was read from a good file.
TripsReadGood ==
    /\ trips = [t \in Trips |-> trips[t]]
    /\ \A t \in Trips : trips[t] # NoTrip => GoodFile(trips[t].read)

\* The inductive invariant.
DInv == /\ TypeOK
        /\ PollsKnowLogin
        /\ \A f \in DOMAIN files : GoodFile(files[f])
        /\ TripsReadGood

----------------------------------------------------------------------------
(* The credential file *)

\* A credential in memory: the known keys, with a gateway that is not the legacy
\* one's after WithBase, and nothing but the user's keys and the refresh interval beside them.
IsAuth(sa) ==
    /\ sa = [known |-> sa.known, extra |-> sa.extra]
    /\ sa.known = [k \in Owned |-> sa.known[k]]
    /\ sa.extra = [k \in DOMAIN sa.extra |-> sa.extra[k]]
    /\ DOMAIN sa.extra \subseteq UserKeys \cup {IntervalKey}
    /\ sa.known["baseUrl"] # ""

\* The known keys of the encoded credential are those of the credential, the empty
\* ones left out; the user's are all there.
LEMMA EncodeIs ==
    ASSUME NEW sa, IsAuth(sa)
    PROVE  /\ DOMAIN Encode(sa) = Always \cup {k \in Owned : sa.known[k] # ""}
                                         \cup DOMAIN sa.extra
           /\ \A k \in Owned \cap DOMAIN Encode(sa) : Encode(sa)[k] = sa.known[k]
           /\ \A k \in DOMAIN sa.extra : Encode(sa)[k] = sa.extra[k]
<1> DEFINE kept  == Only(sa.known, Always \cup {k \in Owned : sa.known[k] # ""})
           other == Only(sa.extra, DOMAIN sa.extra \ Owned)
<1>1. /\ DOMAIN sa.known = Owned
      /\ DOMAIN sa.extra \cap Owned = {}
  BY RecordsAssumption DEF IsAuth, Owned, IntervalKey
<1>2. /\ DOMAIN kept = Always \cup {k \in Owned : sa.known[k] # ""}
      /\ \A k \in DOMAIN kept : kept[k] = sa.known[k]
  BY <1>1 DEF Only, Always, Owned
<1>3. /\ DOMAIN other = DOMAIN sa.extra
      /\ \A k \in DOMAIN other : other[k] = sa.extra[k]
  BY <1>1 DEF Only
<1>4. DOMAIN kept \subseteq Owned
  BY <1>2 DEF Always, Owned
<1>5. Encode(sa) = Over(kept, other)
  BY DEF Encode
<1> HIDE DEF kept, other
<1> QED
  BY <1>1, <1>2, <1>3, <1>4, <1>5 DEF Over

\* The metadata, too, with every device key, empty or not, and the plugin's refresh
\* interval in place of any other.
LEMMA MetadataIs ==
    ASSUME NEW sa, IsAuth(sa)
    PROVE  /\ DOMAIN Metadata(sa) = DeviceKeys \cup {k \in Owned : sa.known[k] # ""}
                                       \cup DOMAIN sa.extra \cup {IntervalKey}
           /\ \A k \in Owned \cap DOMAIN Metadata(sa) : Metadata(sa)[k] = sa.known[k]
           /\ \A k \in DOMAIN sa.extra \ {IntervalKey} : Metadata(sa)[k] = sa.extra[k]
           /\ Metadata(sa)[IntervalKey] = HalfDay
<1> DEFINE set == [k \in {"attestation", IntervalKey} |->
                      IF k = IntervalKey THEN HalfDay ELSE sa.known[k]]
<1>1. IntervalKey \notin Owned /\ "attestation" \in Owned
  BY DEF Owned, IntervalKey
<1>2. /\ DOMAIN set = {"attestation", IntervalKey}
      /\ set["attestation"] = sa.known["attestation"]
      /\ set[IntervalKey] = HalfDay
  BY <1>1
<1>3. "attestation" \notin DOMAIN sa.extra
  BY RecordsAssumption DEF IsAuth, Owned, IntervalKey
<1>4. DeviceKeys = Always \cup {"attestation"}
  BY DEF DeviceKeys, Always
<1> DEFINE enc == Encode(sa)
<1>5. /\ DOMAIN enc = Always \cup {k \in Owned : sa.known[k] # ""} \cup DOMAIN sa.extra
      /\ \A k \in Owned \cap DOMAIN enc : enc[k] = sa.known[k]
      /\ \A k \in DOMAIN sa.extra : enc[k] = sa.extra[k]
  BY EncodeIs
<1>6. Metadata(sa) = Over(set, enc)
  BY DEF Metadata
<1> HIDE DEF set, enc
<1> QED
  BY <1>1, <1>2, <1>3, <1>4, <1>5, <1>6 DEF Over

\* withMigratedBaseURL touches the base only.
LEMMA WithBaseIs ==
    ASSUME NEW sa, IsAuth(sa)
    PROVE  /\ IsAuth(WithBase(sa))
           /\ WithBase(sa).known["baseUrl"] = MigrateBase(WithBase(sa).known["baseUrl"])
           /\ WithBase(sa).extra = sa.extra
           /\ \A k \in Owned \ {"baseUrl"} : WithBase(sa).known[k] = sa.known[k]
<1> DEFINE base  == MigrateBase(sa.known["baseUrl"])
           known == [k \in Owned |-> IF k = "baseUrl" THEN base ELSE sa.known[k]]
<1>1. base = MigrateBase(base) /\ base # ""
  BY RecordsAssumption DEF MigrateBase, IsAuth
<1>2. WithBase(sa) = [known |-> known, extra |-> sa.extra]
  <2>1. [sa.known EXCEPT !["baseUrl"] = base] = known
    BY DEF IsAuth, Owned
  <2>2. WithBase(sa) = [sa EXCEPT !.known = [sa.known EXCEPT !["baseUrl"] = base]]
    BY DEF WithBase
  <2> HIDE DEF known
  <2>3. WithBase(sa) = [sa EXCEPT !.known = known]
    BY <2>1, <2>2
  <2> QED
    BY <2>3 DEF IsAuth
<1> HIDE DEF base
<1>3. /\ known["baseUrl"] = base
      /\ \A k \in Owned \ {"baseUrl"} : known[k] = sa.known[k]
      /\ known = [k \in Owned |-> known[k]]
  BY DEF Owned
<1> DEFINE wb == WithBase(sa)
<1> HIDE DEF known, wb
<1>4. wb = [known |-> known, extra |-> sa.extra]
  BY <1>2 DEF wb
<1>5. wb.known = known /\ wb.extra = sa.extra
  BY <1>4
<1>6. IsAuth(wb)
  BY <1>1, <1>3, <1>4, <1>5 DEF IsAuth
<1> QED
  BY <1>1, <1>3, <1>5, <1>6 DEF wb

\* An empty value; omitempty leaves it out.
Blank(value) == value = ""

\* What becomes of the file, with the host's merge or without: the credential's
\* keys, a base as migrated, the plugin's refresh interval, and every key of the old
\* file the credential lacks.
LEMMA WrittenFile ==
    ASSUME NEW sa, IsAuth(sa), NEW old, NEW file,
           file \in {Saved(AuthData(sa), old),
                     Over(AuthData(sa).metadata, AuthData(sa).storage)}
    PROVE  /\ \A k \in DeviceKeys : k \in DOMAIN file /\ file[k] = sa.known[k]
           /\ "baseUrl" \in DOMAIN file /\ ~Blank(file["baseUrl"])
           /\ file["baseUrl"] = MigrateBase(file["baseUrl"])
           /\ file[IntervalKey] = HalfDay
           /\ DOMAIN file \subseteq Owned \cup {IntervalKey}
                                       \cup DOMAIN sa.extra \cup DOMAIN old
           /\ \A k \in DOMAIN sa.extra \ {IntervalKey} :
                 k \in DOMAIN file /\ file[k] = sa.extra[k]
           /\ ~Blank(sa.known["prefix"]) =>
                 "prefix" \in DOMAIN file /\ file["prefix"] = sa.known["prefix"]
           /\ \A k \in DOMAIN file \ (Owned \cup {IntervalKey}) :
                 k \notin DOMAIN sa.extra => k \in DOMAIN old /\ file[k] = old[k]
           /\ "prefix" \in DOMAIN file /\ Blank(sa.known["prefix"]) =>
                 "prefix" \in DOMAIN old /\ file["prefix"] = old["prefix"]
           /\ file = Saved(AuthData(sa), old) => DOMAIN old \subseteq DOMAIN file
<1> DEFINE wb   == WithBase(sa)
           meta == Metadata(wb)
           enc  == Encode(wb)
<1>1. /\ IsAuth(wb)
      /\ wb.known["baseUrl"] = MigrateBase(wb.known["baseUrl"])
      /\ wb.known["baseUrl"] # ""
      /\ wb.extra = sa.extra
      /\ \A k \in Owned \ {"baseUrl"} : wb.known[k] = sa.known[k]
  BY WithBaseIs DEF IsAuth
<1>2. AuthData(sa).metadata = meta /\ AuthData(sa).storage = enc
  BY DEF AuthData
<1> HIDE DEF wb
<1>3. /\ DOMAIN meta = DeviceKeys \cup {k \in Owned : wb.known[k] # ""}
                          \cup DOMAIN sa.extra \cup {IntervalKey}
      /\ \A k \in Owned \cap DOMAIN meta : meta[k] = wb.known[k]
      /\ \A k \in DOMAIN sa.extra \ {IntervalKey} : meta[k] = sa.extra[k]
      /\ meta[IntervalKey] = HalfDay
  <2>1. /\ DOMAIN meta = DeviceKeys \cup {k \in Owned : wb.known[k] # ""}
                            \cup DOMAIN wb.extra \cup {IntervalKey}
        /\ \A k \in Owned \cap DOMAIN meta : meta[k] = wb.known[k]
        /\ \A k \in DOMAIN wb.extra \ {IntervalKey} : meta[k] = wb.extra[k]
        /\ meta[IntervalKey] = HalfDay
    BY <1>1, MetadataIs
  <2> QED
    BY <1>1, <2>1
<1>4. DOMAIN enc = Always \cup {k \in Owned : wb.known[k] # ""} \cup DOMAIN sa.extra
  BY <1>1, EncodeIs
<1> HIDE DEF meta, enc
<1>5. DOMAIN enc \subseteq DOMAIN meta
  BY <1>3, <1>4 DEF Always, DeviceKeys
<1>6. /\ DOMAIN file \in {DOMAIN meta, DOMAIN meta \cup DOMAIN old}
      /\ \A k \in DOMAIN meta : file[k] = meta[k]
      /\ \A k \in DOMAIN file \ DOMAIN meta : k \in DOMAIN old /\ file[k] = old[k]
  <2>1. CASE file = Saved(AuthData(sa), old)
    <3>1. file = Over(Over(meta, old), enc)
      BY <1>2, <2>1 DEF Saved
    <3> QED
      BY <1>5, <3>1 DEF Over
  <2>2. CASE file = Over(AuthData(sa).metadata, AuthData(sa).storage)
    BY <1>2, <1>5, <2>2 DEF Over
  <2> QED
    BY <2>1, <2>2
<1>7. file = Saved(AuthData(sa), old) => DOMAIN old \subseteq DOMAIN file
  BY <1>2 DEF Saved, Over
<1>8. /\ DeviceKeys \subseteq Owned /\ "baseUrl" \notin DeviceKeys
      /\ "baseUrl" \in Owned
      /\ "prefix" \in Owned \ {"baseUrl"} /\ "prefix" \notin DeviceKeys
      /\ IntervalKey \notin Owned
      /\ DOMAIN sa.extra \cap Owned = {}
  BY RecordsAssumption DEF DeviceKeys, Owned, IntervalKey, IsAuth
<1>9. DOMAIN meta \subseteq Owned \cup {IntervalKey} \cup DOMAIN sa.extra
  BY <1>3, <1>8
<1>10. \A k \in DeviceKeys : k \in DOMAIN file /\ file[k] = sa.known[k]
  BY <1>1, <1>3, <1>6, <1>8
<1>11. /\ "baseUrl" \in DOMAIN file /\ file["baseUrl"] # ""
       /\ file["baseUrl"] = MigrateBase(file["baseUrl"])
  <2>1. "baseUrl" \in DOMAIN meta /\ meta["baseUrl"] = wb.known["baseUrl"]
    BY <1>1, <1>3, <1>8
  <2> QED
    BY <1>1, <1>6, <2>1
<1>12. \A k \in DOMAIN sa.extra \ {IntervalKey} :
          k \in DOMAIN file /\ file[k] = sa.extra[k]
  BY <1>3, <1>6
<1>13. sa.known["prefix"] # "" =>
          "prefix" \in DOMAIN file /\ file["prefix"] = sa.known["prefix"]
  BY <1>1, <1>3, <1>6, <1>8
<1>14. \A k \in DOMAIN file \ (Owned \cup {IntervalKey}) :
          k \notin DOMAIN sa.extra => k \in DOMAIN old /\ file[k] = old[k]
  BY <1>6, <1>9
<1>15. "prefix" \in DOMAIN file /\ sa.known["prefix"] = "" =>
          "prefix" \in DOMAIN old /\ file["prefix"] = old["prefix"]
  <2>1. sa.known["prefix"] = "" => "prefix" \notin DOMAIN meta
    <3>1. wb.known["prefix"] = sa.known["prefix"]
      BY <1>1, <1>8
    <3>2. "prefix" # IntervalKey /\ "prefix" \notin DOMAIN sa.extra
      BY <1>8
    <3> QED
      BY <1>3, <1>8, <3>1, <3>2
  <2> QED
    BY <1>6, <2>1
<1>16. DOMAIN file \subseteq Owned \cup {IntervalKey} \cup DOMAIN sa.extra \cup DOMAIN old
  BY <1>6, <1>9
<1>17. file[IntervalKey] = HalfDay
  BY <1>3, <1>6
<1> QED
  BY <1>7, <1>10, <1>11, <1>12, <1>13, <1>14, <1>15, <1>16, <1>17 DEF Blank

\* The credential of an approved device.
LEMMA NewAuthIs ==
    ASSUME NEW l, NEW token, NEW email, NEW sa, sa = NewAuth(l, token, email)
    PROVE  /\ IsAuth(sa)
           /\ DOMAIN sa.extra = {}
           /\ sa.known["deviceToken"] = l /\ sa.known["keys"] = l
           /\ sa.known["attestation"] = token /\ sa.known["email"] = email
           /\ Blank(sa.known["prefix"])
<1> DEFINE known == [k \in Owned |-> CASE k \in {"deviceToken", "keys"} -> l
                                     [] k = "attestation" -> token
                                     [] k = "email"       -> email
                                     [] k = "baseUrl"     -> Base
                                     [] OTHER             -> ""]
           extra == [k \in {} |-> ""]
<1>1. /\ known["deviceToken"] = l /\ known["keys"] = l
      /\ known["attestation"] = token /\ known["email"] = email
      /\ known["prefix"] = "" /\ known["baseUrl"] = Base
      /\ known = [k \in Owned |-> known[k]]
  BY DEF Owned
<1>2. extra = [k \in DOMAIN extra |-> extra[k]] /\ DOMAIN extra = {}
  OBVIOUS
<1>3. sa = [known |-> known, extra |-> extra]
  BY DEF NewAuth
<1> HIDE DEF known, extra
<1>4. sa.known = known /\ sa.extra = extra
  BY <1>3
<1>5. IsAuth(sa)
  BY <1>1, <1>2, <1>3, <1>4, RecordsAssumption DEF IsAuth
<1> QED
  BY <1>1, <1>2, <1>4, <1>5 DEF Blank

\* A file as it is decoded, with another attestation.
Renewed(file, token) == [Decode(file) EXCEPT !.known["attestation"] = token]

\* It keeps the device, and of the user's keys it loses none.
LEMMA DecodedIs ==
    ASSUME NEW file, GoodFile(file), NEW token, NEW sa, sa = Renewed(file, token)
    PROVE  /\ IsAuth(sa)
           /\ DOMAIN sa.extra = DOMAIN file \ Owned
           /\ \A k \in DOMAIN sa.extra : sa.extra[k] = file[k]
           /\ sa.known["deviceToken"] = file["deviceToken"]
           /\ sa.known["keys"] = file["keys"]
           /\ sa.known["attestation"] = token
           /\ "prefix" \in DOMAIN file => sa.known["prefix"] = file["prefix"]
           /\ "prefix" \notin DOMAIN file => Blank(sa.known["prefix"])
<1> DEFINE plain == [k \in Owned |-> IF k \in DOMAIN file THEN file[k] ELSE ""]
           known == [k \in Owned |-> IF k = "attestation" THEN token ELSE plain[k]]
           extra == Only(file, DOMAIN file \ Owned)
<1>1. sa = [known |-> known, extra |-> extra]
  <2>1. [plain EXCEPT !["attestation"] = token] = known
    BY DEF Owned
  <2>2. Decode(file) = [known |-> plain, extra |-> extra]
    BY DEF Decode
  <2> HIDE DEF plain, extra, known
  <2>3. sa = [[known |-> plain, extra |-> extra]
                  EXCEPT !.known = [plain EXCEPT !["attestation"] = token]]
    BY <2>2 DEF Renewed
  <2> QED
    BY <2>1, <2>3
<1>2. {"deviceToken", "keys", "baseUrl"} \subseteq DOMAIN file
  BY DEF GoodFile, FileOK, Complete, DeviceKeys
<1>3. /\ known["deviceToken"] = file["deviceToken"] /\ known["keys"] = file["keys"]
      /\ known["attestation"] = token /\ known["baseUrl"] = file["baseUrl"]
      /\ known["prefix"] = IF "prefix" \in DOMAIN file THEN file["prefix"] ELSE ""
      /\ known = [k \in Owned |-> known[k]]
  BY <1>2 DEF Owned
<1>4. /\ extra = [k \in DOMAIN extra |-> extra[k]]
      /\ DOMAIN extra = DOMAIN file \ Owned
      /\ \A k \in DOMAIN extra : extra[k] = file[k]
  BY DEF Only
<1> HIDE DEF known, extra
<1>5. sa.known = known /\ sa.extra = extra
  BY <1>1
<1>6. DOMAIN extra \subseteq UserKeys \cup {IntervalKey} /\ file["baseUrl"] # ""
  BY <1>4 DEF GoodFile, FileOK, Complete
<1>7. IsAuth(sa)
  BY <1>1, <1>3, <1>4, <1>5, <1>6 DEF IsAuth
<1> QED
  BY <1>3, <1>4, <1>5, <1>7 DEF Blank

----------------------------------------------------------------------------
(* What a step does to the files *)

\* Of the user's keys, a file keeps what it had, or gets what was read.
KeepsOrGets(read, old, new) ==
    \A k \in UserOwned : ValueIn(new, k) \in {ValueIn(old, k), ValueIn(read, k)}

\* One file was written by the plugin, by a login or a round trip.
WroteFile(name) ==
    /\ DOMAIN files' = DOMAIN files \cup {name}
    /\ \A f \in DOMAIN files \ {name} : files'[f] = files[f]
    /\ GoodFile(files'[name])
    /\ files'[name]["baseUrl"] = MigrateBase(files'[name]["baseUrl"])
    /\ files'[name][IntervalKey] = HalfDay

\* An approval writes one file, the device's own (handleAuthLoginPoll).
LEMMA HandOverWrites ==
    ASSUME DInv, NEW p \in Polls, HandOver(p)
    PROVE  \E name \in Accounts \cup Devices :
              /\ WroteFile(name) /\ files'[name]["deviceToken"] = login[p]
              /\ name \in DOMAIN files =>
                    \A k \in UserOwned : ValueIn(files'[name], k) = ValueIn(files[name], k)
<1>1. login[p] \in Logins
  BY DEF HandOver, DInv, PollsKnowLogin
<1>2. PICK token, email :
         /\ token \in {"", login[p]} /\ email \in {"", AccountOf[login[p]]}
         /\ LET data == AuthData(NewAuth(login[p], token, email)) IN Save(data.name, data)
  BY DEF HandOver
<1> DEFINE sa   == NewAuth(login[p], token, email)
           data == AuthData(sa)
           name == data.name
           old  == IF name \in DOMAIN files THEN files[name] ELSE [k \in {} |-> ""]
           file == Saved(data, old)
<1>3. /\ IsAuth(sa) /\ DOMAIN sa.extra = {}
      /\ sa.known["deviceToken"] = login[p] /\ sa.known["keys"] = login[p]
      /\ sa.known["attestation"] = token /\ sa.known["email"] = email
      /\ Blank(sa.known["prefix"])
  <2>1. sa = NewAuth(login[p], token, email)
    OBVIOUS
  <2> HIDE DEF sa
  <2> QED
    BY <2>1, NewAuthIs
<1>4. name \in Accounts \cup Devices
  <2>1. /\ WithBase(sa).known["email"] = email
        /\ WithBase(sa).known["deviceToken"] = login[p]
    BY <1>3, WithBaseIs DEF Owned
  <2>2. name \in {email, login[p]} /\ name # "" /\ email \in {"", AccountOf[login[p]]}
    <3>1. name = Identity(WithBase(sa))
      BY DEF AuthData
    <3>2. login[p] # ""
      BY <1>1, LoginAssumption DEF Devices
    <3> QED
      BY <1>2, <2>1, <3>1, <3>2 DEF Identity
  <2>3. login[p] \in Devices /\ AccountOf[login[p]] \in Accounts
    BY <1>1, LoginAssumption DEF Devices
  <2> QED
    BY <2>2, <2>3
<1>5. files' = Over([f \in {name} |-> file], files)
  BY <1>2 DEF Save
<1>6. \/ name \in DOMAIN files /\ old = files[name] /\ GoodFile(old)
      \/ name \notin DOMAIN files /\ DOMAIN old = {}
  BY DEF DInv
<1>7. file \in {Saved(AuthData(sa), old),
               Over(AuthData(sa).metadata, AuthData(sa).storage)}
  OBVIOUS
<1>8. file = Saved(AuthData(sa), old)
  OBVIOUS
<1> HIDE DEF sa, name, old, file
<1> HIDE DEF data
<1>9. IsAuth(sa)
  BY <1>3
<1>10. /\ \A k \in DeviceKeys : k \in DOMAIN file /\ file[k] = sa.known[k]
       /\ "baseUrl" \in DOMAIN file /\ ~Blank(file["baseUrl"])
       /\ file["baseUrl"] = MigrateBase(file["baseUrl"])
       /\ file[IntervalKey] = HalfDay
       /\ DOMAIN file \subseteq Owned \cup {IntervalKey}
                                   \cup DOMAIN sa.extra \cup DOMAIN old
       /\ \A k \in DOMAIN file \ (Owned \cup {IntervalKey}) :
             k \notin DOMAIN sa.extra => k \in DOMAIN old /\ file[k] = old[k]
       /\ "prefix" \in DOMAIN file /\ Blank(sa.known["prefix"]) =>
             "prefix" \in DOMAIN old /\ file["prefix"] = old["prefix"]
       /\ file = Saved(AuthData(sa), old) => DOMAIN old \subseteq DOMAIN file
  BY <1>7, <1>9, WrittenFile
<1>11. "prefix" \in DOMAIN file =>
           "prefix" \in DOMAIN old /\ file["prefix"] = old["prefix"]
  BY <1>3, <1>10
<1>12. GoodFile(file) /\ file["deviceToken"] = login[p]
  <2>1. \A k \in DeviceKeys : sa.known[k] \in {login[p], ""}
    BY <1>2, <1>3 DEF DeviceKeys
  <2>2. file["deviceToken"] = login[p]
    BY <1>3, <1>10 DEF DeviceKeys
  <2>3. OneDevice(file)
    BY <1>10, <2>1, <2>2 DEF OneDevice
  <2>4. FileOK(file)
    BY <1>3, <1>6, <1>10 DEF GoodFile, FileOK
  <2>5. Complete(file)
    <3>1. "baseUrl" \in DOMAIN file /\ file["baseUrl"] # ""
      <4>1. "baseUrl" \in DOMAIN file /\ ~Blank(file["baseUrl"])
        BY <1>10
      <4> QED
        BY <4>1 DEF Blank
    <3>2. ASSUME "prefix" \in DOMAIN file
          PROVE  file["prefix"] # ""
      <4>1. "prefix" \in DOMAIN old /\ file["prefix"] = old["prefix"]
        BY <3>2, <1>11
      <4>2. Complete(old)
        BY <4>1, <1>6 DEF GoodFile
      <4> QED
        BY <4>1, <4>2 DEF Complete
    <3> QED
      BY <3>1, <3>2 DEF Complete
  <2> QED
    BY <2>2, <2>3, <2>4, <2>5 DEF GoodFile
<1>13. \A k \in UserOwned : ValueIn(file, k) = ValueIn(old, k)
  <2>1. DOMAIN old \subseteq DOMAIN file
    BY <1>8, <1>10
  <2>2. ASSUME NEW k \in UserKeys
        PROVE  k \in DOMAIN file => k \in DOMAIN old /\ file[k] = old[k]
    <3>1. k \notin Owned \cup {IntervalKey} /\ k \notin DOMAIN sa.extra
      BY <1>3, RecordsAssumption
    <3> QED
      BY <3>1, <1>10
  <2>3. "prefix" \in DOMAIN old => file["prefix"] = old["prefix"]
    BY <2>1, <1>11
  <2> QED
    BY <2>1, <2>2, <2>3, <1>11 DEF ValueIn, UserOwned
<1>14. /\ DOMAIN files' = DOMAIN files \cup {name}
       /\ files'[name] = file
       /\ \A f \in DOMAIN files \ {name} : files'[f] = files[f]
  BY <1>5 DEF Over
<1>15. WroteFile(name) /\ files'[name]["deviceToken"] = login[p]
  BY <1>10, <1>12, <1>14 DEF WroteFile
<1> QED
  BY <1>4, <1>6, <1>13, <1>14, <1>15

\* A round trip leaves the file with the device it read there, and each of the
\* user's keys as it was read or as it is now.
LEMMA WriteBackWrites ==
    ASSUME DInv, NEW t \in Trips, WriteBack(t)
    PROVE  /\ trips[t] # NoTrip
           /\ trips[t].name \in DOMAIN files
           /\ WroteFile(trips[t].name)
           /\ KeepsOrGets(trips[t].read, files[trips[t].name], files'[trips[t].name])
<1> DEFINE read == trips[t].read
           f    == trips[t].name
           old  == files[f]
<1>1. PICK token :
         /\ token \in {Decode(read).known["attestation"],
                       Decode(read).known["deviceToken"]}
         /\ LET data == AuthData(Renewed(read, token)) IN
            \/ Save(f, data)
            \/ files' = [files EXCEPT ![f] = Over(data.metadata, data.storage)]
  BY DEF WriteBack, Renewed
<1> DEFINE sa   == Renewed(read, token)
           data == AuthData(sa)
<1>2. /\ trips[t] # NoTrip /\ f \in DOMAIN files
      /\ GoodFile(read) /\ GoodFile(old)
  BY DEF WriteBack, DInv, TypeOK, TripsReadGood
<1> HIDE DEF f, read
<1>3. PICK file \in {Saved(AuthData(sa), old),
                     Over(AuthData(sa).metadata, AuthData(sa).storage)} :
         /\ DOMAIN files' = DOMAIN files \cup {f}
         /\ files'[f] = file
         /\ \A g \in DOMAIN files \ {f} : files'[g] = files[g]
  <2>1. CASE Save(f, data)
    <3>1. files' = Over([g \in {f} |-> Saved(data, old)], files)
      BY <1>2, <2>1 DEF Save
    <3> HIDE DEF sa, old
    <3> QED
      BY <3>1 DEF Over
  <2>2. CASE files' = [files EXCEPT ![f] = Over(data.metadata, data.storage)]
    <3> HIDE DEF sa, old
    <3> QED
      BY <1>2, <2>2
  <2> QED
    BY <1>1, <2>1, <2>2
<1>4. token \in {read["deviceToken"], ""}
  <2>1. /\ Decode(read).known["attestation"] =
              IF "attestation" \in DOMAIN read THEN read["attestation"] ELSE ""
        /\ Decode(read).known["deviceToken"] =
              IF "deviceToken" \in DOMAIN read THEN read["deviceToken"] ELSE ""
    BY DEF Decode, Owned
  <2> QED
    BY <1>1, <1>2, <2>1 DEF GoodFile, OneDevice, DeviceKeys
<1>5. /\ IsAuth(sa)
      /\ DOMAIN sa.extra = DOMAIN read \ Owned
      /\ \A k \in DOMAIN sa.extra : sa.extra[k] = read[k]
      /\ sa.known["deviceToken"] = read["deviceToken"]
      /\ sa.known["keys"] = read["keys"]
      /\ sa.known["attestation"] = token
      /\ "prefix" \in DOMAIN read => sa.known["prefix"] = read["prefix"]
      /\ "prefix" \notin DOMAIN read => Blank(sa.known["prefix"])
  <2>1. sa = Renewed(read, token)
    OBVIOUS
  <2> HIDE DEF sa, read
  <2> QED
    BY <1>2, <2>1, DecodedIs
<1> HIDE DEF sa, old
<1>6. /\ \A k \in DeviceKeys : k \in DOMAIN file /\ file[k] = sa.known[k]
      /\ "baseUrl" \in DOMAIN file /\ ~Blank(file["baseUrl"])
      /\ file["baseUrl"] = MigrateBase(file["baseUrl"])
      /\ file[IntervalKey] = HalfDay
      /\ DOMAIN file \subseteq Owned \cup {IntervalKey}
                                  \cup DOMAIN sa.extra \cup DOMAIN old
      /\ \A k \in DOMAIN sa.extra \ {IntervalKey} :
            k \in DOMAIN file /\ file[k] = sa.extra[k]
      /\ ~Blank(sa.known["prefix"]) =>
            "prefix" \in DOMAIN file /\ file["prefix"] = sa.known["prefix"]
      /\ \A k \in DOMAIN file \ (Owned \cup {IntervalKey}) :
            k \notin DOMAIN sa.extra => k \in DOMAIN old /\ file[k] = old[k]
      /\ "prefix" \in DOMAIN file /\ Blank(sa.known["prefix"]) =>
            "prefix" \in DOMAIN old /\ file["prefix"] = old["prefix"]
  BY <1>5, WrittenFile
<1>7. OneDevice(file)
  <2>1. read["keys"] \in {read["deviceToken"], ""}
    BY <1>2 DEF GoodFile, FileOK, OneDevice, DeviceKeys
  <2> QED
    BY <1>4, <1>5, <1>6, <2>1 DEF OneDevice, DeviceKeys
<1>8. FileOK(file)
  BY <1>2, <1>5, <1>6 DEF GoodFile, FileOK, DeviceKeys
<1>9. Complete(file)
  <2>1. Complete(read) /\ Complete(old)
    BY <1>2 DEF GoodFile
  <2> QED
    BY <1>5, <1>6, <2>1 DEF Complete, Blank
<1>10. KeepsOrGets(read, old, file)
  <2>1. ASSUME NEW k \in UserKeys
        PROVE  ValueIn(file, k) \in {ValueIn(old, k), ValueIn(read, k)}
    <3>1. k \notin Owned \cup {IntervalKey}
      BY RecordsAssumption
    <3>2. CASE k \in DOMAIN read
      BY <1>5, <1>6, <3>1, <3>2 DEF ValueIn
    <3>3. CASE k \notin DOMAIN read
      BY <1>5, <1>6, <3>1, <3>3 DEF ValueIn
    <3> QED
      BY <3>2, <3>3
  <2>2. ValueIn(file, "prefix") \in {ValueIn(old, "prefix"), ValueIn(read, "prefix")}
    <3>1. CASE Blank(sa.known["prefix"])
      <4>1. "prefix" \notin DOMAIN read
        BY <1>2, <1>5, <3>1 DEF GoodFile, Complete, Blank
      <4> QED
        BY <1>6, <3>1, <4>1 DEF ValueIn
    <3>2. CASE ~Blank(sa.known["prefix"])
      BY <1>5, <1>6, <3>2 DEF ValueIn
    <3> QED
      BY <3>1, <3>2
  <2> QED
    BY <2>1, <2>2 DEF KeepsOrGets, UserOwned
<1> QED
  BY <1>2, <1>3, <1>6, <1>7, <1>8, <1>9, <1>10 DEF WroteFile, GoodFile, old, read, f

\* An edit touches none of the device's keys, and leaves nothing empty.
LEMMA EditKeepsGood ==
    ASSUME DInv, NEW f \in DOMAIN files, Edit(f)
    PROVE  /\ DOMAIN files' = DOMAIN files
           /\ \A g \in DOMAIN files' : GoodFile(files'[g])
<1>1. PICK keys \in Edits :
         files' = [files EXCEPT ![f] = Over([k \in keys |-> NewValue], files[f])]
  BY DEF Edit
<1> DEFINE new == Over([k \in keys |-> NewValue], files[f])
<1>2. /\ DOMAIN new = DOMAIN files[f] \cup keys
      /\ \A k \in keys : new[k] = NewValue
      /\ \A k \in DOMAIN files[f] \ keys : new[k] = files[f][k]
  BY DEF Over
<1> HIDE DEF new
<1>3. keys \subseteq UserKeys \cup {"prefix", IntervalKey} /\ NewValue # ""
  BY LoginAssumption
<1>4. keys \cap (DeviceKeys \cup {"baseUrl"}) = {}
  BY <1>3, RecordsAssumption DEF DeviceKeys, Owned, IntervalKey
<1>5. GoodFile(files[f])
  BY DEF DInv
<1>6. FileOK(new)
  BY <1>2, <1>3, <1>5 DEF GoodFile, FileOK, Owned
<1>7. Complete(new)
  BY <1>2, <1>3, <1>4, <1>5 DEF GoodFile, Complete
<1>8. OneDevice(new)
  <2>1. \A k \in DeviceKeys \cap DOMAIN new : k \in DOMAIN files[f] /\ new[k] = files[f][k]
    BY <1>2, <1>4
  <2>2. "deviceToken" \in DeviceKeys \cap DOMAIN new
    BY <1>2, <1>5 DEF GoodFile, FileOK, DeviceKeys
  <2> QED
    BY <1>5, <2>1, <2>2 DEF GoodFile, OneDevice
<1>9. /\ DOMAIN files' = DOMAIN files
      /\ \A g \in DOMAIN files : files'[g] = IF g = f THEN new ELSE files[g]
  BY <1>1 DEF new
<1> QED
  BY <1>6, <1>7, <1>8, <1>9 DEF GoodFile, DInv

----------------------------------------------------------------------------
(* The inductive invariant *)

\* What DInv says of the sessions and the polls.
LoginsOK ==
    /\ DOMAIN sessions \subseteq Logins
    /\ \A l \in DOMAIN sessions : sessions[l] \in -1..MaxLife
    /\ device \in [Logins -> Outcomes]
    /\ pc \in [Polls -> Stages]
    /\ login \in [Polls -> Logins \cup {NoLogin}]
    /\ concluded \subseteq Logins
    /\ PollsKnowLogin

\* What it says of the files and of the round trips.
FilesOK ==
    /\ DOMAIN files \subseteq Accounts \cup Devices
    /\ \A f \in DOMAIN files : GoodFile(files[f])

TripsOK ==
    /\ TripsReadGood
    /\ \A t \in Trips : trips[t] # NoTrip => trips[t].name \in DOMAIN files

\* The invariant in these parts.
LEMMA DInvParts == DInv <=> LoginsOK /\ FilesOK /\ TripsOK
BY DEF DInv, TypeOK, LoginsOK, FilesOK, TripsOK, TripsReadGood, GoodFile

\* An answer leaves the gateway with a known outcome; one that ends a session is
\* the end of the login for the gateway, too.
LEMMA RepliesKnown ==
    ASSUME NEW outcome \in Outcomes, NEW r \in Replies(outcome)
    PROVE  /\ r[2] \in Outcomes
           /\ r[1] \in {"ok", "expired", "refused"} =>
                 r[2] \in {"delivered", "expired", "refused"}
<1>1. \/ r = <<"pending", outcome>> \/ r = <<"limited", outcome>>
      \/ /\ outcome = "approved"
         /\ r \in {<<"ok", "delivered">>, <<"pending", "delivered">>,
                   <<"malformed", "approved">>}
      \/ /\ outcome = "delivered"
         /\ r \in {<<"ok", "delivered">>, <<"expired", "delivered">>}
      \/ /\ outcome \in {"none", "expired", "refused"}
         /\ r = <<outcome, outcome>>
  BY DEF Replies, Outcomes
<1> QED
  BY <1>1 DEF Outcomes

\* A poll that is answered: the gateway keeps to its outcomes.
LEMMA AnswerKnown ==
    ASSUME LoginsOK, NEW p \in Polls, NEW answers, Answered(p, answers)
    PROVE  /\ login[p] \in Logins
           /\ device' \in [Logins -> Outcomes]
           /\ answers \subseteq {"ok", "expired", "refused"} =>
                 device'[login[p]] \in {"delivered", "expired", "refused"}
<1>1. login[p] \in Logins
  BY DEF Answered, LoginsOK, PollsKnowLogin
<1>2. PICK r \in Replies(device[login[p]]) :
         r[1] \in answers /\ device' = [device EXCEPT ![login[p]] = r[2]]
  BY DEF Answered
<1>3. device[login[p]] \in Outcomes
  BY <1>1 DEF LoginsOK
<1>4. /\ r[2] \in Outcomes
      /\ r[1] \in {"ok", "expired", "refused"} =>
            r[2] \in {"delivered", "expired", "refused"}
  BY <1>3, RepliesKnown
<1> QED
  BY <1>1, <1>2, <1>4 DEF LoginsOK

\* The files before the first login are an older CLI's.
LEMMA InitDInv == Init => DInv
<1> SUFFICES ASSUME Init PROVE LoginsOK /\ FilesOK /\ TripsOK
  BY DInvParts
<1>1. LoginsOK
  BY DEF Init, LoginsOK, PollsKnowLogin, NoSessions, Outcomes, Stages
<1>2. PICK att \in SUBSET {"attestation"} :
         files = [f \in {AccountOf[OldDevice]} |-> OldFile(att)]
  BY DEF Init
<1> DEFINE old == OldFile(att)
<1>3. /\ DOMAIN old = {"deviceToken", "keys", "email", "baseUrl"} \cup att \cup Editable
      /\ \A k \in DeviceKeys \cap DOMAIN old : old[k] = OldDevice
      /\ old["baseUrl"] = LegacyBase
      /\ \A k \in UserOwned : old[k] = UserValue
  BY RecordsAssumption DEF OldFile, DeviceKeys, UserOwned, Editable, Owned, IntervalKey
<1> HIDE DEF old
<1>4. FileOK(old) /\ Complete(old)
  BY <1>3, RecordsAssumption, LoginAssumption
     DEF FileOK, Complete, DeviceKeys, Owned, UserOwned, Editable
<1>5. OneDevice(old)
  BY <1>3 DEF OneDevice, DeviceKeys
<1>6. /\ DOMAIN files = {AccountOf[OldDevice]}
      /\ \A f \in DOMAIN files : files[f] = old
  BY <1>2 DEF old
<1>7. AccountOf[OldDevice] \in Accounts
  BY LoginAssumption DEF Devices
<1>8. TripsOK
  BY DEF Init, TripsOK, TripsReadGood
<1> QED
  BY <1>1, <1>4, <1>5, <1>6, <1>7, <1>8 DEF FilesOK, GoodFile

\* The bounds of a lifetime.
LEMMA LifeIsNat == MaxLife \in Nat /\ DefaultLife \in 1..MaxLife
BY LoginAssumption, Zenon

\* What is known of a pruned table.
LEMMA StartKeepsLive ==
    ASSUME LoginsOK, NEW l \in Logins, NEW offered \in Lives,
           sessions' = Pruned(Over([k \in {l} |-> Accepted(offered)], sessions))
    PROVE  /\ DOMAIN sessions' \subseteq Logins
           /\ \A k \in DOMAIN sessions' : sessions'[k] \in -1..MaxLife
           /\ \A k \in DOMAIN sessions \ DOMAIN sessions' : Lapsed(sessions[k])
<1> DEFINE all == Over([k \in {l} |-> Accepted(offered)], sessions)
<1>1. Accepted(offered) \in 0..MaxLife
  BY LifeIsNat DEF Accepted
<1>2. /\ DOMAIN all = DOMAIN sessions \cup {l}
      /\ all[l] = Accepted(offered)
      /\ \A k \in DOMAIN sessions \ {l} : all[k] = sessions[k]
  BY DEF Over
<1> HIDE DEF all
<1>3. sessions' = Only(all, {k \in DOMAIN all : ~Lapsed(all[k])})
  BY DEF Pruned, all
<1>4. /\ DOMAIN sessions' = {k \in DOMAIN all : ~Lapsed(all[k])}
      /\ \A k \in DOMAIN sessions' : sessions'[k] = all[k]
  BY <1>3 DEF Only
<1>5. ~Lapsed(all[l])
  BY <1>1, <1>2 DEF Lapsed
<1> QED
  BY <1>1, <1>2, <1>4, <1>5 DEF LoginsOK

\* Deleting a session leaves the others as they are.
LEMMA DeleteOne ==
    ASSUME NEW l, Delete(l)
    PROVE  /\ DOMAIN sessions' = DOMAIN sessions \ {l}
           /\ \A k \in DOMAIN sessions' : sessions'[k] = sessions[k]
BY DEF Delete, Only

\* No step loses the types of the sessions, the devices and the polls.
LEMMA NextLogins ==
    ASSUME LoginsOK, FilesOK, [Next]_vars
    PROVE  LoginsOK'
<1> USE DEF LoginsOK, PollsKnowLogin
<1>1. ASSUME NEW l \in Logins, Start(l) PROVE LoginsOK'
  BY <1>1, StartKeepsLive DEF Start, polls, Outcomes
<1>2. ASSUME NEW l \in Logins, Decide(l) PROVE LoginsOK'
  BY <1>2 DEF Decide, polls, Outcomes
<1>3. ASSUME NEW p \in Polls, NEW l \in Logins, PollUnknown(p, l) PROVE LoginsOK'
  BY <1>3 DEF PollUnknown, Conclude, polls
<1>4. ASSUME NEW p \in Polls, NEW l \in Logins, PollLapsed(p, l) PROVE LoginsOK'
  BY <1>4, DeleteOne DEF PollLapsed, Conclude, polls
<1>5. ASSUME NEW p \in Polls, NEW l \in Logins, PollLive(p, l) PROVE LoginsOK'
  BY <1>5 DEF PollLive, Stages
<1>6. ASSUME NEW p \in Polls, StillPending(p) PROVE LoginsOK'
  BY <1>6, AnswerKnown DEF StillPending, Return, Stages
<1>7. ASSUME NEW p \in Polls, Refused(p) PROVE LoginsOK'
  BY <1>7, AnswerKnown, DeleteOne DEF Refused, Return, Conclude, Stages
<1>8. ASSUME NEW p \in Polls, Malformed(p) PROVE LoginsOK'
  BY <1>8, AnswerKnown DEF Malformed, Return, Conclude, Stages
<1>9. ASSUME NEW p \in Polls, Approved(p) PROVE LoginsOK'
  BY <1>9, AnswerKnown, DeleteOne DEF Approved, Stages
<1>10. ASSUME NEW p \in Polls, HandOver(p) PROVE LoginsOK'
  BY <1>10 DEF HandOver, Return, Conclude, Stages
<1>11. /\ \A t \in Trips : WriteBack(t) \/ NoWriteBack(t) => LoginsOK'
       /\ \A f \in DOMAIN files : Edit(f) => LoginsOK'
       /\ \A f \in DOMAIN files, t \in Trips : ReadFile(t, f) => LoginsOK'
  BY DEF ReadFile, WriteBack, NoWriteBack, Edit, polls
<1>12. CASE Tick
  <2>1. \A l \in DOMAIN sessions : Lapsed(sessions[l]) \/ sessions[l] - 1 \in -1..MaxLife
    BY LifeIsNat DEF Lapsed
  <2>2. -1 \in -1..MaxLife
    BY LifeIsNat
  <2> QED
    BY <1>12, <2>1, <2>2 DEF Tick, polls
<1>13. CASE Restart
  BY <1>13 DEF Restart, NoSessions, Stages
<1>14. CASE UNCHANGED vars
  BY <1>14 DEF vars, polls
<1> QED
  BY <1>1, <1>2, <1>3, <1>4, <1>5, <1>6, <1>7, <1>8, <1>9, <1>10, <1>11, <1>12, <1>13,
     <1>14 DEF Next, Poll, Continue

\* Only an edit, a login and a round trip touch a file.
LEMMA NextFiles ==
    ASSUME DInv, [Next]_vars, files' # files
    PROVE  \/ \E f \in DOMAIN files : Edit(f)
           \/ \E p \in Polls : HandOver(p)
           \/ \E t \in Trips : WriteBack(t)
BY DEF Next, vars, Start, Decide, Poll, PollUnknown, PollLapsed, PollLive, Continue,
       StillPending, Refused, Malformed, Approved, Tick, Restart, ReadFile, NoWriteBack

\* They leave good files, and delete none.
LEMMA NextFilesGood ==
    ASSUME DInv, FilesOK, [Next]_vars
    PROVE  FilesOK' /\ DOMAIN files \subseteq DOMAIN files'
<1>1. CASE files' = files
  BY <1>1 DEF FilesOK
<1>2. ASSUME NEW f \in DOMAIN files, Edit(f)
      PROVE  FilesOK' /\ DOMAIN files \subseteq DOMAIN files'
  BY <1>2, EditKeepsGood DEF FilesOK
<1>3. ASSUME NEW name \in Accounts \cup Devices, WroteFile(name)
      PROVE  FilesOK' /\ DOMAIN files \subseteq DOMAIN files'
  BY <1>3 DEF WroteFile, FilesOK
<1>4. ASSUME NEW p \in Polls, HandOver(p)
      PROVE  \E name \in Accounts \cup Devices : WroteFile(name)
  BY <1>4, HandOverWrites
<1>5. ASSUME NEW t \in Trips, WriteBack(t)
      PROVE  \E name \in Accounts \cup Devices : WroteFile(name)
  BY <1>5, WriteBackWrites DEF FilesOK
<1> QED
  BY <1>1, <1>2, <1>3, <1>4, <1>5, NextFiles

\* A round trip reads a good file, and its file stays where it is.
LEMMA NextTrips ==
    ASSUME DInv, FilesOK, TripsOK, [Next]_vars
    PROVE  TripsOK'
<1>1. DOMAIN files \subseteq DOMAIN files'
  BY NextFilesGood
<1>2. CASE trips' = trips
  BY <1>1, <1>2 DEF TripsOK, TripsReadGood
<1>3. ASSUME NEW t \in Trips, EndTrip(t) PROVE TripsOK'
  BY <1>1, <1>3 DEF EndTrip, TripsOK, TripsReadGood
<1>4. ASSUME NEW t \in Trips, NEW f \in DOMAIN files, ReadFile(t, f) PROVE TripsOK'
  <2>1. /\ trips' = [trips EXCEPT ![t] = [name |-> f, read |-> files[f]]]
        /\ GoodFile(files[f])
    BY <1>4 DEF ReadFile, FilesOK
  <2>2. \A u \in Trips : trips'[u] = IF u = t THEN [name |-> f, read |-> files[f]]
                                              ELSE trips[u]
    BY <2>1 DEF TripsOK, TripsReadGood
  <2>3. trips' = [u \in Trips |-> trips'[u]]
    BY <2>1 DEF TripsOK, TripsReadGood
  <2> QED
    BY <1>1, <2>1, <2>2, <2>3 DEF TripsOK, TripsReadGood
<1>5. CASE Restart
  BY <1>5 DEF Restart, TripsOK, TripsReadGood
<1>6. \/ trips' = trips \/ Restart
      \/ \E t \in Trips : EndTrip(t) \/ \E f \in DOMAIN files : ReadFile(t, f)
  BY DEF Next, vars, Start, Decide, Poll, PollUnknown, PollLapsed, PollLive, Continue,
         StillPending, Refused, Malformed, Approved, HandOver, Edit, Tick, WriteBack,
         NoWriteBack
<1> QED
  BY <1>2, <1>3, <1>4, <1>5, <1>6

\* So every step keeps the invariant.
LEMMA NextDInv == DInv /\ [Next]_vars => DInv'
<1> SUFFICES ASSUME DInv, LoginsOK, FilesOK, TripsOK, [Next]_vars
             PROVE  LoginsOK' /\ FilesOK' /\ TripsOK'
  BY DInvParts
     DEF DInv, TypeOK, LoginsOK, FilesOK, TripsOK, TripsReadGood, GoodFile
<1> QED
  BY NextLogins, NextFilesGood, NextTrips

\* The invariant holds for ever.
LEMMA Inductive == Spec => []DInv
BY InitDInv, NextDInv, PTL DEF Spec

----------------------------------------------------------------------------
(* The theorems *)

\* Sessions, polls, round trips and files keep their types, for any number of them;
\* no session outlives what startDeviceLogin accepts.
THEOREM TypeCorrect == Spec => []TypeOK
<1>1. DInv => TypeOK
  BY DEF DInv
<1> QED
  BY <1>1, Inductive, PTL

\* Whatever the host completes a file with, and whatever a round trip that began before
\* a login writes back after it, a file is one device's (credentialMetadata).
THEOREM OneDevicePerFile == Spec => []FileIsOneDevice
<1>1. DInv => FileIsOneDevice
  BY DEF DInv, GoodFile, OneDevice, FileIsOneDevice
<1> QED
  BY <1>1, Inductive, PTL

\* What the user set survives every write but that of a round trip under way while it
\* was set, and no write restores a legacy base (MarshalJSON, authDataFor).
THEOREM UserKeysSurvive == Spec => SavesRespectFiles
<1> DEFINE Respected(f) ==
      \/ f \in DOMAIN files /\ files'[f] = files[f]
      \/ /\ f \in DOMAIN files => \A k \in UserOwned :
               ValueIn(files'[f], k) = ValueIn(files[f], k) \/ Reverts(f, k)
         /\ files'[f][IntervalKey] = HalfDay
         /\ files'[f]["baseUrl"] = MigrateBase(files'[f]["baseUrl"])
    Respects == \/ \E f \in DOMAIN files : Edit(f)
                \/ \A f \in DOMAIN files' : Respected(f)
<1>1. DInv /\ [Next]_vars => [Respects]_files
  <2> SUFFICES ASSUME DInv, [Next]_vars, files' # files,
                      ~ \E f \in DOMAIN files : Edit(f),
                      NEW f \in DOMAIN files'
               PROVE  Respected(f)
    OBVIOUS
  <2>1. ASSUME NEW p \in Polls, HandOver(p) PROVE Respected(f)
    <3>1. PICK name \in Accounts \cup Devices :
             /\ WroteFile(name)
             /\ name \in DOMAIN files =>
                   \A k \in UserOwned : ValueIn(files'[name], k) = ValueIn(files[name], k)
      BY <2>1, HandOverWrites
    <3> QED
      BY <3>1 DEF WroteFile
  <2>2. ASSUME NEW t \in Trips, WriteBack(t) PROVE Respected(f)
    <3> DEFINE name == trips[t].name
    <3>1. /\ trips[t] # NoTrip /\ name \in DOMAIN files
          /\ WroteFile(name)
          /\ KeepsOrGets(trips[t].read, files[name], files'[name])
      BY <2>2, WriteBackWrites
    <3>2. trips'[t] = NoTrip
      BY <2>2 DEF WriteBack, EndTrip, DInv, TripsReadGood
    <3>3. CASE f = name
      <4>1. ASSUME NEW k \in UserOwned
            PROVE  ValueIn(files'[f], k) = ValueIn(files[f], k) \/ Reverts(f, k)
        BY <3>1, <3>2, <3>3 DEF KeepsOrGets, Reverts
      <4> QED
        BY <3>1, <3>3, <4>1 DEF WroteFile
    <3>4. CASE f # name
      BY <3>1, <3>4 DEF WroteFile
    <3> QED
      BY <3>3, <3>4
  <2> QED
    BY <2>1, <2>2, NextFiles
<1> QED
  BY <1>1, Inductive, PTL DEF Spec, SavesRespectFiles

\* A session goes for a reason, and a poll that was given the device leaves its
\* credential (handleAuthLoginPoll, pruneLoginSessions).
THEOREM LoginsAreKept == Spec => NothingGivenUp
<1> DEFINE Reason(l) ==
              Lapsed(sessions[l]) \/ device'[l] \in {"delivered", "expired", "refused"}
           Sessions  == \A l \in DOMAIN sessions \ DOMAIN sessions' : Reason(l)
           Spent(p)  == pc[p] = "approved" /\ pc'[p] = "idle" =>
                           \E f \in DOMAIN files' : files'[f]["deviceToken"] = login[p]
           Kept      == \/ Restart
                        \/ /\ Sessions
                           /\ \A p \in Polls : Spent(p)
<1>1. DInv /\ [Next]_vars => [Kept]_vars
  <2> SUFFICES ASSUME LoginsOK, DInv, Next, ~Restart
               PROVE  Sessions /\ \A p \in Polls : Spent(p)
    BY DInvParts
  <2>1. ASSUME NEW l \in Logins, Start(l) PROVE Sessions
    BY <2>1, StartKeepsLive DEF Start
  <2>2. ASSUME NEW p \in Polls, NEW l \in Logins, PollLapsed(p, l) PROVE Sessions
    BY <2>2, DeleteOne DEF PollLapsed
  <2>3. ASSUME NEW p \in Polls, Refused(p) \/ Approved(p) PROVE Sessions
    <3>1. device'[login[p]] \in {"delivered", "expired", "refused"}
      BY <2>3, AnswerKnown DEF Refused, Approved
    <3>2. Delete(login[p])
      BY <2>3 DEF Refused, Approved
    <3> QED
      BY <3>1, <3>2, DeleteOne
  <2>4. ASSUME NEW l \in Logins, Decide(l) \/ \E p \in Polls : PollUnknown(p, l)
                                                          \/ PollLive(p, l)
        PROVE  Sessions
    BY <2>4 DEF Decide, PollUnknown, PollLive
  <2>5. ASSUME NEW p \in Polls, StillPending(p) \/ Malformed(p) \/ HandOver(p)
        PROVE  Sessions
    BY <2>5 DEF StillPending, Malformed, HandOver
  <2>6. ASSUME NEW f \in DOMAIN files, Edit(f) \/ \E t \in Trips : ReadFile(t, f)
        PROVE  Sessions /\ UNCHANGED <<pc, login>>
    BY <2>6 DEF ReadFile, Edit, polls
  <2>7. ASSUME NEW t \in Trips, WriteBack(t) \/ NoWriteBack(t)
        PROVE  Sessions /\ UNCHANGED <<pc, login>>
    BY <2>7 DEF WriteBack, NoWriteBack, polls
  <2>8. ASSUME Tick PROVE Sessions /\ UNCHANGED <<pc, login>>
    <3>1. DOMAIN sessions' = DOMAIN sessions
      BY <2>8 DEF Tick
    <3> QED
      BY <2>8, <3>1 DEF Tick, polls
  <2>9. Sessions
    <3> HIDE DEF Sessions
    <3> QED
      BY <2>1, <2>2, <2>3, <2>4, <2>5, <2>6, <2>7, <2>8 DEF Next, Poll, Continue
  <2>10. ASSUME NEW p \in Polls, NEW q \in Polls, Continue(q) PROVE Spent(p)
    <3>1. CASE HandOver(q)
      <4>1. CASE q = p
        <5>1. PICK name \in Accounts \cup Devices :
                 WroteFile(name) /\ files'[name]["deviceToken"] = login[p]
          BY <3>1, <4>1, HandOverWrites
        <5> QED
          BY <5>1 DEF WroteFile
      <4>2. CASE q # p
        BY <3>1, <4>2 DEF HandOver, Return, LoginsOK
      <4> QED
        BY <4>1, <4>2
    <3>2. CASE Approved(q)
      BY <3>2 DEF Approved, Answered, LoginsOK
    <3>3. CASE StillPending(q) \/ Refused(q) \/ Malformed(q)
      BY <3>3 DEF StillPending, Refused, Malformed, Answered, Return, LoginsOK
    <3> QED
      BY <2>10, <3>1, <3>2, <3>3 DEF Continue
  <2>11. ASSUME NEW p \in Polls, NEW q \in Polls, NEW l \in Logins, Poll(q, l)
         PROVE  Spent(p)
    BY <2>11 DEF Poll, PollUnknown, PollLapsed, PollLive, Idle, polls, LoginsOK
  <2>12. ASSUME NEW p \in Polls, NEW l \in Logins, Start(l) \/ Decide(l)
         PROVE  Spent(p)
    BY <2>12 DEF Start, Decide, polls
  <2>13. ASSUME NEW p \in Polls, UNCHANGED <<pc, login>> PROVE Spent(p)
    BY <2>13
  <2>14. ASSUME NEW p \in Polls PROVE Spent(p)
    <3> HIDE DEF Spent, Sessions
    <3> QED
      BY <2>6, <2>7, <2>8, <2>10, <2>11, <2>12, <2>13, <2>14 DEF Next
  <2> QED
    BY <2>9, <2>14
<1> QED
  BY <1>1, Inductive, PTL DEF Spec, NothingGivenUp
=============================================================================
