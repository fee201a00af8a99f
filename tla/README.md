# A TLA+ model of u1s1-cpa-plugin

The plugin connects CLIProxyAPI (CPA, "the host") to the u1s1 gateway: it logs
devices in, keeps their credentials usable, forwards chat requests, shows quota
in a management panel, and performs the website's daily login check-in. This
directory holds a TLA+ model of the parts of it where goroutines, files, the
gateway and the host meet, TLC configurations that check the model on small
instances, and TLAPS proofs for instances of any size.

Paths below are relative to `src/`.

## 1. The system

| component | code | state it keeps | operations | interacts with |
|---|---|---|---|---|
| Check-in sidecars | `checkin.go` 172-262, `state.go` 85-90 | one JSON file per credential (cookie, last run), a legacy file name, a temporary file, per-path mutexes | load (migrate, quarantine), save (write + rename), locked read, locked update | disk; check-in runs, panel handlers |
| Check-in runs and edits | `checkin.go` 304-396, 446-466, 613-697 | none of their own between steps but the cookie in hand | scheduled pass, manual run, set cookie, clear cookie | sidecars, website `/api/me` and claim, host credential list |
| Check-in scheduler | `checkin.go` 113-167, 404-439 | `checkinStarted`, the loop's next wake-up | start, wait, pass | configuration, clock, runs |
| Attestation tokens | `attestation.go`, `auth.go` 134-171 and 355-394, `models.go` 55-84 | `attestationCache` entry (token, expiry, last failure), a copy in the credential file | `attestationFor`, `auth.refresh`, `model.for_auth`, login | gateway `/models`, host persistence |
| Quota snapshot | `management.go` 103-108, 268-424, 446-474, 535-542 | `usageCache`, `usageCollectMu` | usage, refresh | host list/get, attestation, gateway `/v1/me` |
| Streamed execution | `executor.go` 120-297, `upstream.go` 145-377 | one goroutine per stream, upstream handle, reader buffer | open, read, re-frame, emit, report, close | gateway SSE, host stream bridge, client |
| Device login | `auth.go` 45-194, `gateway_device.go` | `loginSessions` | start, poll, prune | gateway, host |
| Credential format | `credentials.go`, `auth.go` 209-292 | the credential record | parse, marshal, migrate base URL, publish metadata | host merge |
| Request shaping | `thinking.go`, `profiles.go`, `executor.go` 46-90 | `thinkingProfiles` | suffix, level, body | model list |
| Model list | `models.go`, `gateway_models.go` | `modelCache` | list, describe | attestation |
| Packages | `management.go` 110-265 | none | group, label | quota snapshot |
| Diagnostics | `diagnostics.go`, `gateway_errors.go` | ring of ten | record, list | every failed call |
| ABI, dispatch, bridge, signing, config, panel page | the other files | - | - | - |

Host calls run concurrently: the host may call any handler from any thread at
any time, the scheduler and each stream are goroutines of their own, and after
a hot swap a second instance of the library runs next to the first. What is
hard here:

* **Sidecars.** Every writer replaces the whole object. Correct means: an update
  is applied to what the file holds now, a cookie appears only by being saved
  and disappears only by being cleared or replaced, through I/O errors, crashes
  and migrations. Next to a file of v0.2.4 this has two exceptions, which the
  properties name (section 3).
* **Runs.** Two round-trips separate reading the cookie from recording the
  outcome, and the answer to a claim can get lost. Correct means: no success is
  recorded that did not happen, no session serves another account, a saved
  cookie is found.
* **Attestation.** Expiry is computed late, may be missing, is seeded from disk;
  refreshes are concurrent. Correct means: a token handed out as fresh is
  honoured, refreshes are single and spaced, failure never wedges the entry.
* **Quota.** Collections take long and run outside the cache's mutex. Correct
  means: a refresh refreshes, readings never go back, a failed listing does not
  empty the panel, everyone is answered.
* **Streams.** Lines are cut anywhere, anything can break anywhere. Correct
  means: a truncated answer is never presented as complete, the client of every
  stream is told how it ended, handles are given back once.
* **Scheduler.** One loop for all days, started at most once, sleeping on slots
  that may be reconfigured meanwhile. Correct means: it wakes at the next slot,
  no day is skipped, an enabled check-in has its loop.
* **Login.** Polls of one session overlap; the session is deleted before the
  credential is built; the host completes the new file from the one it replaces.
  Later round trips of the file through the plugin take as long as a request.
  Correct means: a login is not given up while the gateway may still deliver it,
  nor a device that was received; a file is one device's; what the user put into
  it survives; the host learns the end of every login.
* **Request shaping.** Suffix, client effort and a contract that changes combine,
  and the gateway rejects what it did not advertise. Correct means: the fields of
  the model's format say something its contract offers, they say what the suffix
  asked for, and the cached contracts follow the catalogue of listed models.

`PROJECT.json` lists the hazards one by one, at their lines.

## 2. Modules

| module | models | checked by | proved in |
|---|---|---|---|
| `SidecarRecords` | the sidecar record and the closures applied to it | (all below) | lemmas in `CheckinSidecar_proofs` |
| `SidecarRegister` | abstract: an atomic register per path, settled by its first update | refinement in `sidecar` | `CheckinSidecar_proofs`, `Checkin_proofs` |
| `CheckinSidecar` | sidecar files, one step per file operation | `sidecar`, `sidecar_swap` | `CheckinSidecar_proofs` |
| `Checkin` | passes, runs, cookie edits, website; sidecars as registers | `checkin`, `checkin_expiry` | `Checkin_proofs` |
| `CheckinScheduler` | when passes start: slots, the loop, register and reconfigure calls, the clock | `scheduler` | `CheckinScheduler_proofs` |
| `Attestation` | one attestation entry and everything that touches it | `attestation`, `attestation_relogin` | `Attestation_proofs` |
| `UsageCache` | the quota snapshot | `usage` | `UsageCache_proofs` |
| `CredentialRecords` | the credential file: decode, encode, metadata, the host's merge (operators) | `login` | `DeviceLogin_proofs` |
| `DeviceLogin` | device logins, their polls, the files they leave | `login` | `DeviceLogin_proofs` |
| `Thinking` | thinking contracts, suffixes, the reasoning fields of a body (operators) | `shaping`, `shaping_off` | `ThinkingProfiles_proofs` |
| `ThinkingProfiles` | the profile cache and the fetches that fill it | `shaping`, `shaping_off` | `ThinkingProfiles_proofs` |
| `ClientStream` | abstract: what the client of a stream is promised | refinement in `stream` | `StreamPump_proofs` |
| `StreamPump` | one streamed call, pumped or collected | `stream` | `StreamPump_proofs` |

The check-in is split in two levels. `CheckinSidecar` shows that the files, with
their locks, implement `SidecarRegister`: each locked read or update takes
effect at once, or not at all. `Checkin` then uses a sidecar as such a register
and spends its states on the interleaving of runs, edits and the website. The two
meet in `SidecarRegister`: `ImplementsRegister` says that the files behave as it
does, `UsesRegister` that runs and edits touch the sidecars in no other way.

Operators whose comment begins with "Faulty" are not part of any specification.
They are variants of the definition that follows them, each a plausible bug; a
property that did not notice its variant would say nothing about the code
(`mutants` in `PROJECT.json`).

### State and actions against the code

**CheckinSidecar.** `main`, `tmp`, `legacy` are the files `path`, `path.tmp`,
`path.json`; a file is absent, torn (not JSON), or a record. `lock` is
`checkinSidecarLocks`, one table per instance. A goroutine goes `Call`, `Lock`
(`checkinSidecarLock`), `Locate` (the two stats and the rename of a legacy file),
`Decode` or `ReadFails`, `Quarantine`, and for an update `Write`/`WriteFails`
and `Rename`/`RenameFails`; `Return` is the deferred unlock. `Crash` drops all
goroutines and locks and may leave a torn temporary file. `updated_at` is left
out: it is written with the cookie and only displayed. `Init` allows every
content of both names, a damaged current file in front of a legacy one included:
a save after a failed rename leaves both. Of a stat that fails for another reason
than a missing file, `Locate` has the one effect that matters, a legacy file that
is passed over (with a current file there, the load reads it either way).
`Inherited` is the legacy record that no intact current file replaces.

**Checkin.** A pass lists the credentials (`StartPass`), and per credential does
`Get`, `ReadCookie`, `AskMe`, `SubmitClaim`, `Record` or `ReturnUnrecorded`, as
`runCheckinFor` does. `BeginSave`, `Validate`, `Store` are
`handleCheckinSetCookie`, `Clear` is `handleCheckinClearCookie`. The second read
with which the former fills the panel's row is left out (its error is ignored, so
a failing one dereferences nil at line 646, which the dispatcher's panic guard
turns into an error after the cookie was saved). Paths start settled
(`inherited` is empty), a v0.2.4 record being `CheckinSidecar`'s matter. The website
(external) keeps who has checked in on which day and which sessions live;
sessions expire, the user may claim in a browser, days pass. `Paths` is the set
of credentials for which the host reports a file path; for others every access
draws a new temporary name (`Stored`, `UpdateStored`).

**CheckinScheduler.** `minute` is the Beijing minute of the day; a `checkin-times`
value is a sequence of entries, and an entry that is no minute of the day does
not parse. `Slots` is `checkinSlots`, `MinutesUntil` is `nextCheckinAfter` as a
distance. A register or reconfigure call is `Configure`
(`applyRegistrationConfig`) and `Start` (`startCheckinScheduler`), with anything
in between. `Launch`, `Wake`, `BeginPass`, `EndPass`, `Plan` are `checkinLoop` and
`runScheduledCheckins`; what a pass does is in `Checkin`. `sleep` is the duration
given to `time.Sleep`, which `Tick` counts down and `Suspend` does not: Go's
timers use the monotonic clock, which stands still while the machine is
suspended. Steps of the loop itself take no minute, and a sleep ends in the
minute it is due. Suspension is considered during sleeps only. A pass counts as
serving the day it begins on and the day it ends on, also when it could not list
the credentials: the code makes up for no part of a pass.

**Attestation.** `entry` is the `attestationEntry`, whose critical sections
under `entry.mu` are one step each; `fetching` is its second mutex. `Decide`,
`Lock`, `Recheck`, `Issue` (the gateway answers), `Store` or `FetchFails` are
`attestationFor`; `Refreshed` is `handleAuthRefresh` with `cacheAttestation`,
and `RefreshedWithout` the same for an answer without a token, which hands back
the credential as it was when the call was made; `Listed` is the part of
`handleModelForAuth` that persists a token; `Login` is the end of
`handleAuthLoginPoll`; `Restart` empties the cache. Time is an integer clock; a
token carries the device it was issued to and the moment the gateway stops
honouring it. The host may or may not write what it is asked to.

**UsageCache.** A request goes `Ask`, `Check`, `Lock` (`usageCollectMu`),
`Recheck`, `List`, `Read` once per account (a cancelled read once more), `Store`
or `ListFails`, `Stamp` (`snapshotTime`). A reading is abstracted to the moment
it was taken, a card with an error to `Unread`. `served` is a history variable: the
refreshes that were waiting when another request's collection completed.

**DeviceLogin.** A session, its key pair and its poll secret go by the login state
they belong to; `sessions` holds the time each has left, -1 once it lapsed.
`Start` is `handleAuthLoginStart` with the clamp of `startDeviceLogin` and
`pruneLoginSessions`. A poll loads its session (`PollUnknown`, `PollLapsed`,
`PollLive`), the gateway's answer is acted on (`StillPending`, `Refused`,
`Malformed`, `Approved`), and an approved one hands its credential over
(`HandOver`: `fetchAttestation` and `fetchMe`, either of which may fail, then
`authDataFor`). What the gateway answers (`Replies`), what the user decides and
how the host writes files (`Save`, `Saved`) are external, the last as the comment
on `credentialMetadata` describes it. What `auth.parse`, `auth.refresh` and
`model.for_auth` do to a file is `ReadFile` and, after the gateway's answer,
`WriteBack` or `NoWriteBack`; in between the user may `Edit` the file and a login
may replace it, and what is written back late is the older state. In
`CredentialRecords` a JSON object is a function on its keys, because the host
fills in absent keys only: an absent key and an empty one are different things.
`refresh_interval_seconds` is put into the metadata whatever the file says
(`IntervalKey`), so it is the plugin's. File names are taken to differ when
accounts, or devices, do: `sanitizeIdentity` and the last 8 characters of a
token are not modelled.

**ThinkingProfiles.** `fetchModels` is two steps, the gateway's answer and
`storeThinkingProfile` for each model, so answers overtake each other; `List`
stands for `model.for_auth`, which asks again after `modelCacheTTL` (`Expire`),
`Refresh` for `auth.refresh` and `fetchAttestation`. A chat request reads one
profile and changes nothing, so it is no action: the properties range over all
requests that could be sent in a state, by `Body` (`prepareBody` with
`applyThinking`). A client may send any of the three reasoning fields, those of
another format too, and an effort that is blank or not a string (`Blank`); the
gateway may advertise levels that are not canonical (`OtherLevels`), and take a
model from its list, whose profile then stays. It lists the same contracts to
every credential. Case and blanks of names are left out.

**StreamPump.** A call with a stream ID runs `pumpStream` (mode `pump`), one
without runs `collectStream` (mode `collect`). A line of the upstream body is two
fragments, so a chunk can end inside it; `ReadMore` is `upstreamStream.Read`
under `streamReader`, `ScanLine` and `ScanEnds` are `scanSSE` and what the two
callers make of its result, `Emit` is `streamEmit`, `Collect` the collector's
callback with its limit. `Release`, `Recover`, `Close` are the pump's three
defers in their order; the collector only has `Release`, then `Return`. `told` is
what the client has been told: `complete` when the host closes a stream without
an error and appends `[DONE]`, or when the collected answer is returned.

## 3. Runs

| run | instance | what it shows |
|---|---|---|
| `sidecar` | 2 goroutines (scheduler records, panel saves 2 cookies, clears, reads), 1 instance, 1 path, every content of the current and the v0.2.4 file to begin with, disk faults, crashes | types, `NoLostUpdate`, `CookieOnlyFromSave`, `CookieKept`, `ImplementsRegister`; under fairness `EveryCallReturns` |
| `sidecar_swap` | the same with the scheduler in the old instance, no faults | **violation** of `CookieOnlyFromSave` |
| `checkin` | scheduler and panel run, 1 editor, 1 credential, sessions of 2 accounts, 2 days, disk faults | types, `CookiesStayHome`, `SuccessIsReal`, `SavedCookieIsFound` |
| `checkin_expiry` | 1 run, 2 credentials, no faults | **violation** of `ExpiryReported` |
| `scheduler` | a day of 5 minutes, 4 slot lists (sorted; unsorted with a duplicate; partly and wholly invalid), any initial settings and minute, 2 overlapping calls, passes of up to 2 minutes, up to 2 minutes of suspension per sleep; days without end | types, `WakesAtNextSlot`, `EnabledIsRunning`, `NoDaySkipped`; under fairness `KeepsPassing` |
| `attestation` | 2 requests, 1 refresher, 2 devices, clock 1..4, margin 2, cooldown 1, unknown TTL 3, lifetime 3, latency 1 | types, `FreshMeansAlive`, `SingleFlight`, `RefresherHoldsLock`, `RefreshesAreSpaced`, `UsableUnlessFailing` |
| `attestation_relogin` | 1 request, 1 refresher, 2 devices | **violation** of `NoInheritedToken` |
| `usage` | 2 requests, 1 credential, clock 0..2, TTL 2 | types, `RefreshRefreshes`, `StampNotOlder`, `CollectorHoldsLock`, `ReadingsNeverGoBack`, `RefreshesCollapse`; under fairness `EveryRequestAnswered` |
| `stream` | every body of up to 4 lines, every chunking, pumped or collected, at most 2 events collected | types, `ReleasedAndClosedOnce`, `ImplementsClientStream`; under fairness `EveryClientTold` |
| `login` | 2 logins of one account, the older file of a third device, 2 polls and 1 round trip under way, user edits, offered lifetimes 0, 1, 2 of which 1 is the longest accepted | types, `FileIsOneDevice`, `SavesRespectFiles`, `NothingGivenUp`; under fairness `EveryLoginEnds` |
| `shaping` | 1 model, 5 contracts (one per request format, one that has only a level of its own and cannot be disabled, one without levels), none, or not listed, 2 credentials, 3 changes or restarts, 14 suffixes, 7 client efforts with every value of the other two fields | `OwnFieldsAccepted`, `IntentHonoured`; under fairness `ProfilesCatchUp` |
| `shaping_off` | the same with a client effort of "off" | **violation** of `ExplicitOffIsOff` |

**Why the bounds suffice.** Sidecars of different paths share nothing but the
lock table, so one path is enough; two goroutines are enough for a lost update,
two cookies for a resurrected one. That a cookie does not get from one path to
another is the theorem `CookiesStayOnPath`; no run asks it, as two paths with
the scheduler and the rest of `sidecar` are too many states, but
`MCCheckinSidecarPaths.cfg` is kept for it: two instances that save and clear,
two paths, one cookie, disk faults, crashes (`SYMMETRY`; minutes). In `checkin`
one credential with sessions of two accounts gives every wrong pairing; two runs
and an editor give every overlap; the second day separates "claimed today" from
"claimed". Attestation entries of different keys share nothing; clock 1..4 with
lifetime 3 lets a fetched token be issued, go stale, be refreshed and die, and a
cooldown pass. Requests are interchangeable (`SYMMETRY`; no liveness is checked
there). In `usage` the clock lets a snapshot go stale while a request waits;
readings are compared account by account, so one account is enough. Four lines
let noise, events, an oversized line and the sentinel appear in every order. An
answer of three events exceeds the collector's limit. The scheduler's day is
cyclic, so no bound ends it; five minutes hold adjacent slots, slots a pass
overruns, and midnight as a slot. Two logins of one account replace each other's
file and the old one; two polls can both be handed one device; a lifetime of 1
lets a session lapse under a poll; one round trip is enough for a stale write, and
the user's keys are edited together, as no step treats them differently. Models
share no profile, so one is enough; two credentials' fetches overtake each other,
and three upsets let a contract go, or the model be delisted, and come back
around a restart. `shaping` has no type invariant: the one it
needs (`IInv`) is proved. Every safety property the runs check is also proved
without bounds (section 5), and four more that no run repeats: `LockIsHolders`,
`CookiesKeepToPath`, `UsesRegister`, `ReadsAreBounded` (TLC finds them true on
the instances of `sidecar`, `MCCheckinSidecarPaths.cfg`, `checkin` and `usage`).

`StreamPump` switches deadlock checking off, because the goroutine really ends.

### The v0.2.4 sidecar

The sidecar properties hold from every content of the files, with two exceptions
that they spell out because the code has them:

* When one of the two `os.Stat` of `checkin.go` 192-194 fails for another reason
  than a missing file, the load reads a current file that is not there and goes on
  from an empty record (`Overlooked`). The next save then hides the legacy file, and
  the cookie in it (`NoLostUpdate`, `CookieKept`).
* When a damaged current file is moved aside in front of a legacy one
  (`checkin.go` 211-219) and the save that follows fails, or there is none, the
  legacy record is what the next load finds (`Uncovers`, in `CookieOnlyFromSave`).

`SidecarRegister` has both as `inherited`: a record that an update may pass over,
or that may come back, until the first update or the migration settles the path.
After that neither can happen again.

### The violations

They are places where the code does not do what a comment or a document of the
repository says; `PROJECT.json` quotes both sides.

* `sidecar_swap`: the per-path lock does not cover a retired instance whose
  scheduler goroutine lives on: its recorded outcome can resurrect a cleared
  cookie.
* `checkin_expiry`: a session that expires between `/api/me` and the claim is
  recorded as `error`, not `auth_expired`.
* `attestation_relogin`: a newly approved device keeps sending the old device's
  cached token until that goes stale.
* `shaping_off`: a client's own `reasoning_effort` of "off" is treated as a level
  like any other, and sent as thinking enabled with the mapped off as effort;
  the same wish as a suffix disables thinking.

Smaller disagreements, without a run: a credential whose path the host does not
report gets a sidecar name drawn anew on every call, where `checkin.go` 170-171
says state "still works for the session"; the status route computes `next_run`
from the slots configured now, while a sleeping loop keeps those it read;
`state.go` 23 says sessions are "pruned on poll", but `handleAuthLoginStart`
prunes; `thinking.go` 83-85 speaks of dropping reasoning fields of a model
without a profile, but returns and leaves them in; `thinking.go` 106-107 says that
a client effort the model does not support leaves "the body untouched", where
111-113 send the default in its place (`OwnFieldsAccepted` and its run show what
the code does: the effort sent is an offered one); `checkin.go` 186-188 says of the
migration that "the stored cookie survives the upgrade", which a stat error
undoes as told above.

An approved device whose one delivering answer is lost on its way is lost with it:
the next poll is told the link expired, and the session goes. So does an approval
that comes after the session lapsed at the plugin, and a malformed token ends the
login for the host. `NothingGivenUp` promises no more than the code can: that the
plugin itself drops neither a session the gateway may still answer nor a device it
received, but for a restart.

## 4. Fairness

* `CheckinSidecar` (`FairSpec`): a goroutine that holds a lock keeps running
  (weak fairness of its steps: file calls return); a waiter for the lock is
  strongly fair, because `sync.Mutex` hands the lock to a waiter starved for
  1 ms. No fairness of `Call` or `Crash`.
* `UsageCache`: the same; host calls are answered or fail (`Read`, `List`,
  `ListFails` are steps of the request). No fairness of `Ask` or of the clock.
* `StreamPump`: weak fairness of the goroutine's steps as a whole. It includes
  that the upstream does not hang for ever and does not send empty chunks for
  ever; the code has no timeout of its own there. Panics and hang-ups are not
  fair.
* `CheckinScheduler`: weak fairness of the clock, of the loop (a runnable
  goroutine runs; a pass ends, its requests go through the host, which ends
  them) and of a call's second half. No fairness of `Configure` or `Suspend`;
  `KeepsPassing` assumes that a call was made and that the check-in stays
  enabled from some point on.
* `DeviceLogin`: weak fairness of each poll leaving its stage (requests end,
  `doRequest` has a timeout) and of the clock; strong fairness of the host
  polling a login whose end it has not been told, because overlapping calls and
  restarts come in between. It is the host that drives the polling
  (`gateway_device.go` 72-75). The user and the gateway need not act.
* `ThinkingProfiles`: weak fairness of the host's refreshes
  (`refreshIntervalSeconds`), strong fairness of `Store`: not every fetch fails.
  `ProfilesCatchUp` starts counting when the catalogue is left alone, which the
  bound `MaxUpsets` brings about.
* `Checkin` and `Attestation` state safety only.

## 5. Proofs

`tlapm` checks every theorem from the named assumptions of the modules
(`SidecarAssumption`, `CheckinAssumption`, `ScheduleAssumption`,
`AttestationAssumption`, `UsageAssumption`, `SnapshotAssumption`,
`LoginAssumption`, `ThinkingAssumption`, `ProfilesAssumption`, `LinesAssumption`,
`CollectAssumption`, and the `RecordsAssumption` of both record modules), for any
number of goroutines, requests, credentials (finitely many in `UsageCache`),
cookies, days and devices, and for all durations in the assumed order
(`MaxLatency < Margin`, `Margin + Cooldown <= UnknownTTL <= Lifetime`; in the
code a day, 30 seconds and two days).

* **CheckinSidecar.** Three theorems hold for any number of instances, so they say
  what a hot swap cannot break. `TypeCorrect` needs nothing else; `LocksReturned`
  is inductive by itself: in each instance a mutex is held exactly by the goroutine
  inside its path, on every way out. `CookiesStayOnPath` needs no lock: every step
  copies a cookie only between the files and the goroutines of one path. The other
  theorems assume `SingleInstance`; `sidecar_swap` shows the assumption is needed.
  The inductive invariant adds to the types that a goroutine past its load holds the
  lock, that a legacy file is read only where there is no current one (`Located`),
  and that what a goroutine is about to save is its update of what the path shows,
  or of an empty record where its load overlooked a legacy file (`Consistent`); it
  needs no assumption on the contents to begin with. `VisibleStep` says of every
  step that it changes nothing a reader sees, or renames an update into place
  (`RenamesUpdate`), moves a damaged file away (`MovesDamage`) or migrates a legacy
  record (`Migrates`). From it follow `NothingLost`, `NoResurrection`,
  `CookieStays`, and step by step `FilesImplementRegister`, where
  `OverlooksRecord` covers a legacy file that is damaged itself.
* **Checkin.** `CInv` strengthens the properties by what each stage of a run
  knows: the cookie in hand came from the credential's sidecar, a run at
  `record` with a success has its account booked on a day since it began, and a
  credential in `kept` has a cookie. `NoForeignCookie`, `NoImaginedSuccess`,
  `SavedIsFound` follow. `RegisterUsed` needs the types only: `Store`, `Clear` and
  `Record` are updates of the register, everything else leaves it alone.
* **CheckinScheduler.** For days of any length and any lists. `SortedListing` shows
  that every finite set of naturals has the ascending listing `Slots` chooses
  (induction over finite sets, as the absence of a minimal counterexample:
  `NoCounterexample`), `NextSlotIsNext` that the first larger slot of a sorted
  list is the next one, across midnight. `SInv` adds to the checked invariants
  that a sleep which is not prolonged ends by tomorrow, by tonight while the day
  is unserved, and that a planning loop has served its day (`ServesItsDay`);
  `EveryDayServed` follows step by step. `MaxSuspend <= Day` keeps instants
  within a day of the current one.
* **Attestation.** `TInv` adds which calls and answers exist at which stage.
  `LockHeldByRefresher` is inductive on the lock alone and gives `OneRefresh`
  through cardinality. `AInv` says that every recorded expiry - in the entry, on
  file, in a call - is at most the token's death plus the latency
  (`HonestEntry`, `HonestFiles`); with `MaxLatency < Margin` this gives
  `FreshIsAlive`, and that `UsableOrFailing`. `Spaced` says that a request's failure
  is remembered by the entry until a token arrives that stays fresh for longer than the
  cooldown; as `Margin + Cooldown <= UnknownTTL`, `RefreshesSpaced` follows.
* **UsageCache.** For any number of requests and any finite set of accounts. The
  inductive invariant `IInv` has four parts: the types; the collection lock is
  held exactly by the request that collects (`CollectorHoldsLock`, inductive with
  `LockFrame`); the snapshot is not newer than the clock and its readings not
  newer than itself (`CacheInv`); and per request (`RequestInv`) that what a
  collection has read so far is no older than the snapshot it will replace, and
  that what a request answers is no newer than the cache. The lock is what makes
  the last part inductive: only its holder replaces the snapshot
  (`OthersKeep`), so nothing a collection read can be overtaken, which gives
  `NoReadingGoesBack`; `RefreshIsFresh` and `TimeNotOlder` follow from `AnswerInv`.
  `RefreshesAreShared` needs an invariant of its own (`ServedInv`): a refresh that
  was waiting when a collection completed was asked for before the snapshot in the
  cache was taken, and as snapshots only get newer (`CacheForward`), both checks
  answer it from then on. `CollectionsEnd` counts the turns left (`TurnTaken`), a finite
  cardinality that every read lowers.
* **DeviceLogin.** For any number of logins, overlapping polls and user keys. The
  inductive invariant `DInv` adds to the types that a poll under way has its login
  and that every file is a `GoodFile`: it names its gateway, what the user set in
  it is not empty, and its device keys are one device's. That a poll's write
  keeps this rests on the records: `EncodeIs` and `MetadataIs` say what a
  credential becomes, `WrittenFile` what the host's merge leaves of it and of the
  file it replaces, with or without the metadata. `HandOverWrites` and
  `WriteBackWrites` then show that a step writes one good file or none, however old
  what a round trip read is by then (`TripsReadGood`: it was a good file when it was
  read), and `EditKeepsGood` that the user's edits leave a file good (`NextFiles`).
  From these follow `OneDevicePerFile`, `UserKeysSurvive` and, with `AnswerKnown`
  (an answer that ends a session ends the login at the gateway), `LoginsAreKept`. An
  empty value set by the user is outside the model: `omitempty` drops it.
* **StreamPump.** For bodies of any length, cut anywhere, and any limit of the
  collector. The inductive invariant `PInv` relates the scanner to the client:
  what was sent is exactly the events scanned (`SentSoFar`), the scanner is past
  no sentinel (`Framed`), an end of file is the end of the body (`EndIsEnd`), an
  answer that ends without a failure is whole unless the client left
  (`QuietIsWhole`), and a failure is told before the stream is closed
  (`FailureIsTold`). `WantedIs` and `NextEvent` connect these to what
  `ClientStream` wants; `PumpImplements` maps every step to a step of
  `ClientStream` or a stutter, and `ReleasedOnce` follows from `ClosesLast`.
* **ThinkingProfiles.** For all contracts, levels that are not canonical included,
  all suffixes, budgets and client bodies. The inductive invariant `IInv` says that
  what is on its way is a list of contracts, and `Cached` that what the cache holds
  is a contract with levels and without blank mappings (`CachedContracts`); it rests
  on what `storeThinkingProfile` keeps (`ProfileIsContract`). The rest is about
  `Body`: `LowestIsOffered` (a sane contract's least effort is one it offers),
  `IntentShape` and `DecisionCases` (the cases of `applyThinking` exclude each other
  and leave none out), `DecisionOffered` (every decision is off, an effort on offer,
  or nothing for a request that says nothing), `BodySays` (what a decision makes of
  the fields of the format, and that it leaves the others), and from them
  `OwnFieldsAcceptedHolds` and, by `IntentMet`, `IntentHonouredHolds`. A sane
  contract is one whose default is a level it offers, other than off; without
  that, the fallback itself would be rejected, and the code has no other.

Only model-checked: liveness (`EveryCallReturns`, `EveryRequestAnswered`,
`EveryClientTold`, `KeepsPassing`, `EveryLoginEnds`, `ProfilesCatchUp`;
temporal reasoning about fairness is out of the prover's reach). Of
`EveryRequestAnswered`, the part that is an argument about the code rather than
about fairness is proved: the lock is held by a collecting request only, and its
collection runs out of turns (`LockHeld`, `CollectionsEnd`); of `EveryCallReturns`
likewise `LocksReturned`. That the violated properties do not hold needs no
theorem: TLC's trace is the proof.

## 6. Plan

1. Done: every state machine is checked, and every safety property a run checks
   is proved.
2. Open: the ranking arguments behind the liveness properties, as action
   properties where the code bounds what it repeats, as `ReadsAreBounded` does
   (the scanner of `StreamPump` against a body that shrinks, a login's remaining
   time); the slots a status answer shows against those the loop sleeps on.

Not modelled, and why:

* cgo and envelopes, DPoP signing, headers, price notes, package labels, token
  estimates, the panel's HTML: formatting, cryptography or glue without protocol
  state. The panic barrier appears as an outcome of the calls that use it.
* The diagnostics ring: each of its operations is one critical section.
* `handleExecExecute`: one request and its answer, no state of its own; its body
  is in `Thinking`, its token in `Attestation`.
* `apiKey`, `deviceId` and `createdAt` of a credential: stored, never sent. Being
  `omitempty`, an `apiKey` the gateway does not issue again is filled in from the
  replaced file.
* Profiles of credentials with base URLs of different gateways: the cache is keyed
  by the model id alone, `ThinkingProfiles` has one gateway.
