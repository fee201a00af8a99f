-------------------------- MODULE CheckinScheduler --------------------------
(***************************************************************************)
(* When the daily check-in runs: the goroutine of checkinLoop, the         *)
(* register and reconfigure calls that change its settings and start it,   *)
(* and the clock.  A day has Day minutes of Beijing time; instants are     *)
(* minutes, as in nextCheckinAfter.  What a pass does is in Checkin.       *)
(*                                                                         *)
(* time.Sleep measures a duration, not a deadline: it does not run while   *)
(* the machine is suspended, so the wall clock and the sleep are two       *)
(* variables.                                                              *)
(***************************************************************************)
EXTENDS Integers, Sequences, FiniteSets

CONSTANTS Day,         \* minutes of a day
          Specs,       \* values of checkin-times: sequences of entries; an
                       \* entry that is no minute of the day does not parse
          Default,     \* defaultCheckinTimes
          HostBridge,  \* does the host offer its callbacks
          MaxPass,     \* bound: minutes a pass lasts
          MaxSuspend,  \* bound: minutes of suspension during one sleep
          MaxCalls     \* bound: register and reconfigure calls in flight

Minutes == 0 .. Day - 1

\* The entries of a checkin-times value that parse.
Parsed(spec) == {spec[i] : i \in DOMAIN spec} \cap Minutes

\* q lists the set S in ascending order.
Ascending(q, S) ==
    /\ \A m \in S : \E i \in DOMAIN q : q[i] = m
    /\ \A i, j \in DOMAIN q : i < j => q[i] < q[j]

Listings(S) == [1 .. Cardinality(S) -> S]

ASSUME ScheduleAssumption ==
    /\ Day \in Nat /\ Day > 1
    /\ MaxPass \in Nat /\ MaxPass < Day
    /\ MaxSuspend \in 0..Day /\ MaxCalls \in Nat
    /\ HostBridge \in BOOLEAN
    /\ Default \in Specs /\ Parsed(Default) # {}

VARIABLES minute,     \* the wall clock: Beijing minute of the day
          config,     \* pluginCfg: checkin-enabled and checkin-times
          started,    \* checkinStarted
          calls,      \* register calls between their two halves
          registered, \* has any register call been made
          loop,       \* where checkinLoop is
          slots,      \* the slots it last read
          sleep,      \* minutes left of its sleep
          passed,     \* minutes the pass in progress has taken
          suspended,  \* history: minutes lost to suspension in this sleep
          today       \* history: "open", "served" by a pass, or found "off"

vars == <<minute, config, started, calls, registered, loop, slots, sleep,
          passed, suspended, today>>

Configs == [enabled : BOOLEAN, times : Specs]

----------------------------------------------------------------------------
(* The timetable *)

\* Faulty: the entries in the order they were written.
SlotsAsWritten(spec) ==
    IF Parsed(spec) = {} THEN Default ELSE SelectSeq(spec, LAMBDA m : m \in Minutes)

\* checkinSlots: entries that do not parse are dropped, duplicates too, and the
\* rest is sorted; nothing left means the default.
Slots(spec) ==
    LET S == IF Parsed(spec) = {} THEN Parsed(Default) ELSE Parsed(spec)
    IN  CHOOSE q \in Listings(S) : Ascending(q, S)

\* Faulty: the first slot is looked for on the current day.
MinutesUntilToday(now, q) ==
    IF \E i \in DOMAIN q : q[i] > now
    THEN LET i == CHOOSE i \in DOMAIN q : q[i] > now
                         /\ \A j \in DOMAIN q : j < i => q[j] <= now
         IN  q[i] - now
    ELSE q[1] - now

\* nextCheckinAfter, as a distance: the first listed slot after this minute, or
\* the first of the list tomorrow.
MinutesUntil(now, q) ==
    IF \E i \in DOMAIN q : q[i] > now
    THEN LET i == CHOOSE i \in DOMAIN q : q[i] > now
                         /\ \A j \in DOMAIN q : j < i => q[j] <= now
         IN  q[i] - now
    ELSE Day + q[1] - now

----------------------------------------------------------------------------
(* Settings *)

Init ==
    /\ minute \in Minutes
    /\ config \in Configs
    /\ started = FALSE /\ calls = 0 /\ registered = FALSE
    /\ loop = "none"
    /\ slots = <<>> /\ sleep = 0 /\ passed = 0
    /\ suspended = 0 /\ today = "open"

\* plugin.register and plugin.reconfigure, first half: applyRegistrationConfig
\* under cfgMu.  Either setting can be given or left as it is.
Configure ==
    /\ calls < MaxCalls
    /\ config' \in Configs
    /\ calls' = calls + 1 /\ registered' = TRUE
    /\ UNCHANGED <<minute, started, loop, slots, sleep, passed, suspended, today>>

\* Faulty: the flag is set before the conditions are looked at.
StartFlagFirst ==
    /\ calls > 0
    /\ calls' = calls - 1
    /\ started' = TRUE
    /\ loop' = IF ~started /\ HostBridge /\ config.enabled THEN "launched" ELSE loop
    /\ UNCHANGED <<minute, config, registered, slots, sleep, passed, suspended, today>>

\* Second half: startCheckinScheduler, under checkinMu.
Start ==
    /\ calls > 0
    /\ calls' = calls - 1
    /\ IF ~started /\ HostBridge /\ config.enabled
       THEN started' = TRUE /\ loop' = "launched"
       ELSE UNCHANGED <<started, loop>>
    /\ UNCHANGED <<minute, config, registered, slots, sleep, passed, suspended, today>>

----------------------------------------------------------------------------
(* checkinLoop *)

FallAsleep(q) ==
    /\ slots' = q
    /\ sleep' = MinutesUntil(minute, q)
    /\ suspended' = 0
    /\ loop' = "asleep"

\* Faulty: a loop that starts late in the day waits for the next slot.
LaunchWithoutCatchUp ==
    /\ loop = "launched"
    /\ FallAsleep(Slots(config.times))
    /\ UNCHANGED <<minute, config, started, calls, registered, passed, today>>

\* The loop starts: it catches up at once unless the first slot is still ahead.
Launch ==
    /\ loop = "launched"
    /\ LET q == Slots(config.times) IN
       IF minute < q[1]
       THEN FallAsleep(q)
       ELSE /\ loop' = "due" /\ slots' = q
            /\ UNCHANGED <<sleep, suspended>>
    /\ UNCHANGED <<minute, config, started, calls, registered, passed, today>>

Wake ==
    /\ loop = "asleep" /\ sleep = 0
    /\ loop' = "due"
    /\ UNCHANGED <<minute, config, started, calls, registered, slots, sleep,
                   passed, suspended, today>>

\* Faulty: a loop that finds the check-in switched off ends.
PassOrQuit ==
    /\ loop = "due"
    /\ IF config.enabled
       THEN loop' = "passing" /\ passed' = 0 /\ today' = "served"
       ELSE loop' = "none" /\ today' = "off" /\ UNCHANGED passed
    /\ UNCHANGED <<minute, config, started, calls, registered, slots, sleep, suspended>>

\* runScheduledCheckins looks at the switch first.
BeginPass ==
    /\ loop = "due"
    /\ IF config.enabled
       THEN loop' = "passing" /\ passed' = 0 /\ today' = "served"
       ELSE /\ loop' = "planning" /\ UNCHANGED passed
            /\ today' = IF today = "open" THEN "off" ELSE today
    /\ UNCHANGED <<minute, config, started, calls, registered, slots, sleep, suspended>>

EndPass ==
    /\ loop = "passing"
    /\ loop' = "planning"
    /\ UNCHANGED <<minute, config, started, calls, registered, slots, sleep,
                   passed, suspended, today>>

\* The loop head re-reads the settings and sleeps until the next slot.
Plan ==
    /\ loop = "planning"
    /\ FallAsleep(Slots(config.times))
    /\ UNCHANGED <<minute, config, started, calls, registered, passed, today>>

----------------------------------------------------------------------------
(* The clock *)

\* What the turn of a minute does to the wall clock; a pass that runs into the
\* next day counts as that day's, whatever it has left to do, because the code
\* makes up for no part of a pass.
TurnMinute ==
    IF minute = Day - 1
    THEN /\ minute' = 0
         /\ today' = IF loop = "passing" THEN "served" ELSE "open"
    ELSE minute' = minute + 1 /\ UNCHANGED today

\* A minute passes.  The loop's own steps take none, a sleep ends in the minute
\* it is due, and a pass lasts at most MaxPass.
Tick ==
    /\ loop \in {"none", "asleep", "passing"}
    /\ loop = "asleep" => sleep > 0
    /\ loop = "passing" => passed < MaxPass
    /\ TurnMinute
    /\ sleep' = IF loop = "asleep" THEN sleep - 1 ELSE sleep
    /\ passed' = IF loop = "passing" THEN passed + 1 ELSE passed
    /\ UNCHANGED <<config, started, calls, registered, loop, slots, suspended>>

\* A minute passes with the machine suspended.
Suspend ==
    /\ loop = "asleep" /\ sleep > 0
    /\ suspended < MaxSuspend
    /\ suspended' = suspended + 1
    /\ TurnMinute
    /\ UNCHANGED <<config, started, calls, registered, loop, slots, sleep, passed>>

----------------------------------------------------------------------------

LoopStep == Launch \/ Wake \/ BeginPass \/ EndPass \/ Plan

Next == Configure \/ Start \/ LoopStep \/ Tick \/ Suspend

Spec == Init /\ [][Next]_vars

\* The runtime runs what is runnable, timers fire, and requests have timeouts.
\* Nobody has to call, and a machine need not be suspended.
Fairness == WF_vars(Start) /\ WF_vars(LoopStep) /\ WF_vars(Tick)

FairSpec == Spec /\ Fairness

----------------------------------------------------------------------------
(* Properties *)

TypeOK ==
    /\ minute \in Minutes
    /\ config \in Configs
    /\ started \in BOOLEAN /\ registered \in BOOLEAN
    /\ calls \in 0..MaxCalls
    /\ loop \in {"none", "launched", "asleep", "due", "passing", "planning"}
    /\ slots \in Seq(Minutes)
    /\ sleep \in 0..Day
    /\ passed \in 0..MaxPass
    /\ suspended \in 0..MaxSuspend
    /\ today \in {"open", "served", "off"}

\* Is the instant t, counted from the midnight this day began with, a slot?
SlotAt(t, q) ==
    \E i \in DOMAIN q : q[i] \in {t - Day, t, t + Day}

\* The loop wakes at the first slot, of those it read, after it went to sleep:
\* none of them passes before, across midnight included, and a suspended
\* machine delays the wake-up by no more than it was suspended
\* (checkinSlots, nextCheckinAfter).
WakesAtNextSlot ==
    loop = "asleep" =>
        /\ SlotAt(minute + sleep - suspended, slots)
        /\ \A k \in 1..sleep : k < sleep => ~SlotAt(minute + k - suspended, slots)

\* Once the loop runs, no day ends without a pass, however the slots are
\* reconfigured while it sleeps and whenever it was started, except a day on
\* which it found the check-in switched off or its sleep was prolonged by
\* suspension (checkinLoop's catch-up and re-planning).  A pass counts for the day
\* it begins on and the day it ends on, also when it could not list the credentials.
NoDaySkipped ==
    [][minute = Day - 1 /\ minute' = 0 /\ loop # "none" =>
          today # "open" \/ suspended > 0]_vars

\* Once every register and reconfigure call has returned, an enabled check-in
\* has its loop, in whatever order the calls interleaved and however often it
\* was switched off before (startCheckinScheduler).
EnabledIsRunning ==
    registered /\ calls = 0 /\ config.enabled /\ HostBridge => loop # "none"

\* A check-in that is left enabled keeps making passes.
KeepsPassing ==
    (<>registered /\ <>[](config.enabled)) => []<>(loop = "passing")
============================================================================
