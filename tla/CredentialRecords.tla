------------------------- MODULE CredentialRecords --------------------------
(***************************************************************************)
(* The credential file and its round trip through the plugin: storedAuth   *)
(* with its custom JSON, the AuthData published to the host, and the merge *)
(* the host performs when it writes the file.                              *)
(*                                                                         *)
(* A JSON object is a function from its keys to values, so that an absent  *)
(* key and an empty value differ: the host fills in absent keys only.      *)
(* "keys" stands for the device key pair, "attestation" for the token and  *)
(* its expiry; type, apiKey, deviceId and createdAt, which are stored and  *)
(* never sent, are left out.  A device is identified with its login.  File *)
(* names are taken to differ when accounts, or devices, do: authIdentity   *)
(* cleans the email and cuts the device token to its last 8 characters.    *)
(***************************************************************************)
CONSTANTS UserKeys,   \* keys of the file neither storedAuth nor the host knows
          LegacyBase, \* the API root of older CLI installs
          Base,       \* the configured API root
          HalfDay     \* the plugin's refresh interval

\* The modelled keys; those without omitempty are always written.
Owned  == {"deviceToken", "keys", "email", "prefix", "attestation", "baseUrl"}
Always == {"deviceToken", "keys"}
\* The keys that belong to one device registration.
DeviceKeys == {"deviceToken", "keys", "attestation"}
\* The host's key that the plugin sets although storedAuth does not model it.
IntervalKey == "refresh_interval_seconds"

ASSUME RecordsAssumption ==
    /\ UserKeys \cap (Owned \cup {IntervalKey}) = {}
    /\ LegacyBase # "" /\ Base # ""

\* f, with the keys it lacks taken from g.
Over(f, g) == [k \in DOMAIN f \cup DOMAIN g |-> IF k \in DOMAIN f THEN f[k] ELSE g[k]]

Only(f, keys) == [k \in DOMAIN f \cap keys |-> f[k]]

\* A stored base is rewritten when it is the legacy one; none stays none.
MigrateBase(base) == IF base = LegacyBase THEN Base ELSE base

\* UnmarshalJSON: the known keys, and every other key in Extra.
Decode(file) ==
    [known |-> [k \in Owned |-> IF k \in DOMAIN file THEN file[k] ELSE ""],
     extra |-> Only(file, DOMAIN file \ Owned)]

\* Faulty: only what the struct models is written back.
EncodeKnown(sa) == Only(sa.known, Always \cup {k \in Owned : sa.known[k] # ""})

\* MarshalJSON: omitempty drops empty known keys; Extra follows, never over a
\* known key.
Encode(sa) ==
    Over(Only(sa.known, Always \cup {k \in Owned : sa.known[k] # ""}),
         Only(sa.extra, DOMAIN sa.extra \ Owned))

\* Faulty: an empty attestation is left out like every other empty key.
MetadataAsStored(sa) == Over([k \in {IntervalKey} |-> HalfDay], Encode(sa))

\* credentialMetadata: the whole file, with the attestation even when empty and
\* the plugin's refresh interval whatever the file says.
Metadata(sa) ==
    Over([k \in {"attestation", IntervalKey} |->
             IF k = IntervalKey THEN HalfDay ELSE sa.known[k]],
         Encode(sa))

\* authIdentity names the file after the account, else after the device.
Identity(sa) == IF sa.known["email"] # "" THEN sa.known["email"]
                                          ELSE sa.known["deviceToken"]

WithBase(sa) == [sa EXCEPT !.known["baseUrl"] = MigrateBase(@)]

\* authDataFor.
AuthData(sa) ==
    [name     |-> Identity(WithBase(sa)),
     storage  |-> Encode(WithBase(sa)),
     metadata |-> Metadata(WithBase(sa))]

\* The host's write: metadata, completed from the file it replaces, wins over
\* the storage JSON.
Saved(data, old) == Over(Over(data.metadata, old), data.storage)
=============================================================================
