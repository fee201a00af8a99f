---------------------- MODULE CheckinScheduler_proofs ----------------------
(***************************************************************************)
(* Proofs about the check-in timetable and the loop that keeps it, for a   *)
(* day of any length and any lists of slots.                               *)
(***************************************************************************)
EXTENDS CheckinScheduler, FiniteSetTheorems, SequenceTheorems,
        WellFoundedInduction, TLAPS

----------------------------------------------------------------------------
(* Finite sets of naturals *)

\* Induction over finite sets, as the absence of a minimal counterexample.
LEMMA NoCounterexample ==
    ASSUME NEW S, IsFiniteSet(S), NEW Bad \in SUBSET (SUBSET S),
           \A T \in Bad : \E U \in Bad : U \subseteq T /\ U # T
    PROVE  Bad = {}
<1> SUFFICES ASSUME Bad # {} PROVE FALSE
  OBVIOUS
<1>1. FiniteSubsetsOf(S) = SUBSET S  BY FS_FiniteSubsetsOfFinite
<1>2. IsWellFoundedOn(StrictSubsetOrdering(S), SUBSET S)
  <2>1. IsWellFoundedOn(StrictSubsetOrdering(S), FiniteSubsetsOf(S))
    BY FS_StrictSubsetOrderingWellFounded
  <2> QED  BY <2>1, <1>1
<1>3. PICK T \in Bad : \A U \in Bad : <<U, T>> \notin StrictSubsetOrdering(S)
  BY <1>2, WFMin
<1>4. PICK U \in Bad : U \subseteq T /\ U # T  OBVIOUS
<1>5. <<U, T>> \in StrictSubsetOrdering(S)
  BY <1>4 DEF StrictSubsetOrdering
<1> QED  BY <1>3, <1>5

\* A finite set of naturals that is not empty has a least element.
LEMMA LeastElement ==
    ASSUME NEW S \in SUBSET Nat, IsFiniteSet(S), S # {}
    PROVE  \E m \in S : \A k \in S : m <= k
<1> DEFINE Bad == {T \in SUBSET S : T # {} /\ ~\E m \in T : \A k \in T : m <= k}
<1>1. ASSUME NEW T \in Bad PROVE \E U \in Bad : U \subseteq T /\ U # T
  <2>1. PICK x \in T : TRUE  OBVIOUS
  <2> DEFINE U == T \ {x}
  <2>2. U # {}  BY <2>1
  <2>3. ASSUME NEW m \in U, \A k \in U : m <= k PROVE FALSE
    <3>1. CASE m <= x  BY <2>3, <3>1, <2>1
    <3>2. CASE x <= m
      <4>1. \A k \in T : x <= k  BY <2>3, <3>2, <2>1
      <4> QED  BY <4>1, <2>1
    <3> QED  BY <3>1, <3>2, <2>1
  <2>4. U \in Bad  BY <2>2, <2>3
  <2> QED  BY <2>1, <2>4
<1> HIDE DEF Bad
<1>2. Bad \in SUBSET (SUBSET S)  BY DEF Bad
<1>3. Bad = {}  BY <1>1, <1>2, NoCounterexample
<1> QED  BY <1>3 DEF Bad

\* A finite set of naturals can be listed in ascending order.
LEMMA SortedListing ==
    ASSUME NEW S \in SUBSET Nat, IsFiniteSet(S)
    PROVE  \E q \in Listings(S) : Ascending(q, S)
<1> DEFINE Bad == {T \in SUBSET S : ~\E q \in Listings(T) : Ascending(q, T)}
<1>1. ASSUME NEW T \in Bad PROVE \E U \in Bad : U \subseteq T /\ U # T
  <2>0. T \in SUBSET Nat /\ IsFiniteSet(T)  BY FS_Subset
  <2>1. T # {}
    <3> SUFFICES ASSUME T = {} PROVE FALSE
      OBVIOUS
    <3>1. Cardinality(T) = 0  BY FS_EmptySet
    <3>2. <<>> \in Listings(T) /\ Ascending(<<>>, T)
      BY <3>1 DEF Listings, Ascending
    <3> QED  BY <3>2
  <2>2. PICK m \in T : \A k \in T : m <= k  BY <2>0, <2>1, LeastElement
  <2> DEFINE U == T \ {m}
             n == Cardinality(U)
  <2>3. n \in Nat /\ Cardinality(T) = n + 1
    <3>1. IsFiniteSet(U) /\ n = Cardinality(T) - 1  BY <2>0, FS_RemoveElement
    <3> QED  BY <3>1, <2>0, FS_CardinalityType
  <2>4. ASSUME NEW r \in Listings(U), Ascending(r, U) PROVE FALSE
    <3> DEFINE q == [i \in 1..(n + 1) |-> IF i = 1 THEN m ELSE r[i - 1]]
    <3>1. r \in [1..n -> U]  BY DEF Listings
    <3>2. q \in Listings(T)
      <4>1. ASSUME NEW i \in 1..(n + 1) PROVE (IF i = 1 THEN m ELSE r[i - 1]) \in T
        <5>1. i # 1 => i - 1 \in 1..n  BY <2>3
        <5> QED  BY <5>1, <3>1
      <4>2. q \in [1..(n + 1) -> T]  BY <4>1
      <4> QED  BY <2>3, <4>2 DEF Listings
    <3>3. \A k \in T : \E i \in DOMAIN q : q[i] = k
      <4> SUFFICES ASSUME NEW k \in T PROVE \E i \in DOMAIN q : q[i] = k
        OBVIOUS
      <4>1. CASE k = m  BY <4>1, <2>3
      <4>2. CASE k \in U
        <5>1. PICK i \in 1..n : r[i] = k  BY <4>2, <2>4, <3>1 DEF Ascending
        <5>2. i + 1 \in 1..(n + 1) /\ i + 1 # 1 /\ (i + 1) - 1 = i  BY <2>3
        <5>3. q[i + 1] = r[(i + 1) - 1]  BY <5>2
        <5>4. q[i + 1] = k  BY <5>1, <5>2, <5>3
        <5>5. DOMAIN q = 1..(n + 1)  OBVIOUS
        <5> QED  BY <5>2, <5>4, <5>5
      <4> QED  BY <4>1, <4>2
    <3>4. \A i, j \in 1..(n + 1) : i < j => q[i] < q[j]
      <4> SUFFICES ASSUME NEW i \in 1..(n + 1), NEW j \in 1..(n + 1), i < j
                   PROVE q[i] < q[j]
        OBVIOUS
      <4>1. j - 1 \in 1..n /\ q[j] = r[j - 1]  BY <2>3
      <4>2. r[j - 1] \in U  BY <4>1, <3>1
      <4>3. CASE i = 1
        <5>1. q[i] = m  BY <4>3
        <5>2. m <= r[j - 1] /\ m # r[j - 1]  BY <4>2, <2>2
        <5>3. m \in Nat /\ r[j - 1] \in Nat  BY <4>2, <2>0
        <5>4. m < r[j - 1]  BY <5>2, <5>3
        <5> QED  BY <5>1, <5>4, <4>1
      <4>4. CASE i # 1
        <5>1. i - 1 \in 1..n /\ i - 1 < j - 1 /\ q[i] = r[i - 1]  BY <4>4, <2>3
        <5> QED  BY <5>1, <4>1, <2>4, <3>1 DEF Ascending
      <4> QED  BY <4>3, <4>4
    <3>5. Ascending(q, T)  BY <3>3, <3>4 DEF Ascending
    <3> QED  BY <3>2, <3>5
  <2>5. U \in Bad  BY <2>4
  <2> QED  BY <2>5
<1> HIDE DEF Bad
<1>2. Bad \in SUBSET (SUBSET S)  BY DEF Bad
<1>3. Bad = {}  BY <1>1, <1>2, NoCounterexample
<1> QED  BY <1>3 DEF Bad

----------------------------------------------------------------------------
(* The timetable *)

\* What checkinSlots returns: at least one slot, in ascending order.
IsTimetable(q) ==
    /\ \E n \in Nat \ {0} : q \in [1..n -> Minutes]
    /\ \A i, j \in DOMAIN q : i < j => q[i] < q[j]

LEMMA SlotsAreATimetable ==
    ASSUME NEW spec \in Specs
    PROVE  /\ IsTimetable(Slots(spec))
           /\ Parsed(spec) # {} =>
                 \A m \in Minutes : m \in Parsed(spec)
                    <=> \E i \in DOMAIN Slots(spec) : Slots(spec)[i] = m
<1> USE ScheduleAssumption
<1> DEFINE S == IF Parsed(spec) = {} THEN Parsed(Default) ELSE Parsed(spec)
<1>1. S \subseteq Minutes /\ S # {}  BY DEF Parsed
<1>2. S \in SUBSET Nat  BY <1>1 DEF Minutes
<1>3. IsFiniteSet(S)
  <2>1. IsFiniteSet(Minutes)  BY FS_Interval DEF Minutes
  <2> QED  BY <1>1, <2>1, FS_Subset
<1>4. Slots(spec) \in Listings(S) /\ Ascending(Slots(spec), S)
  BY <1>2, <1>3, SortedListing DEF Slots
<1>5. Cardinality(S) \in Nat \ {0}
  BY <1>1, <1>3, FS_CardinalityType, FS_EmptySet
<1>6. Slots(spec) \in [1..Cardinality(S) -> S]  BY <1>4 DEF Listings
<1> HIDE DEF S
<1>7. IsTimetable(Slots(spec))
  BY <1>1, <1>4, <1>5, <1>6 DEF IsTimetable, Ascending
<1>8. ASSUME Parsed(spec) # {}
      PROVE  \A m \in Minutes : m \in Parsed(spec)
                <=> \E i \in DOMAIN Slots(spec) : Slots(spec)[i] = m
  <2>1. S = Parsed(spec)  BY <1>8 DEF S
  <2> QED  BY <1>4, <1>6, <2>1 DEF Ascending
<1> QED  BY <1>7, <1>8

\* nextCheckinAfter returns the next slot, at most a day away, and a slot of
\* today if one is left: in particular if the first one is still ahead.
LEMMA NextSlotIsNext ==
    ASSUME NEW now \in Minutes, NEW q, IsTimetable(q)
    PROVE  LET w == MinutesUntil(now, q) IN
           /\ w \in 1..Day
           /\ SlotAt(now + w, q)
           /\ \A k \in 1..w : k < w => ~SlotAt(now + k, q)
           /\ now < q[1] => now + w < Day
<1> DEFINE w == MinutesUntil(now, q)
<1>0. Day \in Nat /\ Day > 0  BY ScheduleAssumption
<1>1. PICK n \in Nat \ {0} : q \in [1..n -> Minutes]  BY DEF IsTimetable
<1>2. \A i, j \in 1..n : i < j => q[i] < q[j]  BY <1>1 DEF IsTimetable
<1>3. DOMAIN q = 1..n /\ 1 \in 1..n /\ \A i \in 1..n : q[i] \in 0..(Day - 1)
  BY <1>1 DEF Minutes
<1>4. now \in 0..(Day - 1)  BY DEF Minutes
<1> HIDE DEF w
<1>5. CASE \E i \in 1..n : q[i] > now
  <2> DEFINE Later == {i \in 1..n : q[i] > now}
             Is(i) == i \in DOMAIN q /\ q[i] > now
                       /\ \A j \in DOMAIN q : j < i => q[j] <= now
  <2>1. IsFiniteSet(Later)
    <3>1. IsFiniteSet(1..n)  BY FS_Interval
    <3>2. Later \in SUBSET (1..n)  OBVIOUS
    <3> QED  BY <3>1, <3>2, FS_Subset
  <2>2. PICK f \in Later : \A k \in Later : f <= k
    BY <1>5, <2>1, LeastElement
  <2>3. \A j \in 1..n : j < f => q[j] <= now  BY <2>2, <1>0, <1>3, <1>4
  <2> DEFINE i == CHOOSE i \in DOMAIN q : q[i] > now
                      /\ \A j \in DOMAIN q : j < i => q[j] <= now
  <2>4. i \in 1..n /\ q[i] > now /\ \A j \in 1..n : j < i => q[j] <= now
    BY <2>2, <2>3, <1>3
  <2>5. w = q[i] - now
    <3>1. \E k \in DOMAIN q : q[k] > now  BY <1>3, <1>5
    <3> QED  BY <3>1 DEF MinutesUntil, w
  <2> HIDE DEF i
  <2>6. w \in 1..Day /\ now + w = q[i] /\ now + w < Day
    <3>1. q[i] \in 0..(Day - 1)  BY <2>4, <1>3
    <3> QED  BY <3>1, <2>4, <2>5, <1>0, <1>4
  <2>7. SlotAt(now + w, q)  BY <2>4, <2>6, <1>0, <1>3, <1>4 DEF SlotAt
  <2>8. ASSUME NEW k \in 1..w, k < w, SlotAt(now + k, q) PROVE FALSE
    <3>1. PICK j \in 1..n : q[j] \in {now + k - Day, now + k, now + k + Day}
      BY <2>8, <1>0, <1>3, <1>4 DEF SlotAt
    <3>2. q[j] = now + k  BY <3>1, <1>0, <1>3, <1>4, <2>6, <2>8
    <3>3. q[j] > now /\ q[j] < q[i]  BY <3>2, <2>6, <2>8, <1>0, <1>4, <1>3
    <3>4. ~(j < i) /\ j # i  BY <3>3, <2>4, <1>0, <1>3, <1>4
    <3>5. i < j  BY <3>4, <2>4
    <3> QED  BY <3>3, <3>5, <2>4, <1>2, <1>3
  <2> QED  BY <2>6, <2>7, <2>8 DEF w
<1>6. CASE ~\E i \in 1..n : q[i] > now
  <2>1. \A i \in 1..n : q[i] <= now  BY <1>6, <1>0, <1>3, <1>4
  <2>2. w = Day + q[1] - now  BY <1>6, <1>3 DEF MinutesUntil, w
  <2>3. w \in 1..Day /\ now + w = Day + q[1]  BY <2>1, <2>2, <1>0, <1>3, <1>4
  <2>4. SlotAt(now + w, q)
    <3>1. q[1] \in 0..(Day - 1)  BY <1>3
    <3>2. q[1] = now + w - Day  BY <3>1, <2>3, <1>0, <1>4
    <3>3. q[1] = (now + w) - Day  BY <3>1, <3>2, <2>3, <1>0, <1>4
    <3>4. 1 \in DOMAIN q  BY <1>3
    <3> QED  BY <3>3, <3>4 DEF SlotAt
  <2>5. ASSUME NEW k \in 1..w, k < w, SlotAt(now + k, q) PROVE FALSE
    <3>1. PICK j \in 1..n : q[j] \in {now + k - Day, now + k, now + k + Day}
      BY <2>5, <1>0, <1>3, <1>4 DEF SlotAt
    <3>2. q[j] = now + k - Day  BY <3>1, <2>1, <1>0, <1>3, <1>4, <2>3, <2>5
    <3>3. q[j] < q[1]  BY <3>2, <2>3, <2>5, <1>0, <1>3, <1>4
    <3>4. j = 1 \/ 1 < j  BY <3>1
    <3> QED  BY <3>3, <3>4, <1>2, <1>3
  <2>6. ~(now < q[1])  BY <2>1, <1>0, <1>3, <1>4
  <2> QED  BY <2>3, <2>4, <2>5, <2>6 DEF w
<1> QED  BY <1>5, <1>6, <1>3 DEF w

\* The days are alike: an instant is a slot if it is one a day earlier.
LEMMA SlotsRecur ==
    ASSUME NEW q, IsTimetable(q), NEW t \in 0..(2 * Day - 1)
    PROVE  SlotAt(t, q) <=> SlotAt(t - Day, q)
<1>0. Day \in Nat /\ Day > 0  BY ScheduleAssumption
<1>1. \A i \in DOMAIN q : q[i] \in 0..(Day - 1)  BY DEF IsTimetable, Minutes
<1>2. ASSUME NEW i \in DOMAIN q
      PROVE  q[i] \in {t - Day, t, t + Day}
                <=> q[i] \in {(t - Day) - Day, t - Day, (t - Day) + Day}
  BY <1>0, <1>1
<1> QED  BY <1>2 DEF SlotAt

----------------------------------------------------------------------------
(* The loop *)

\* The loop exists once it is started, and what a sleeping loop follows is a
\* timetable.
Running ==
    /\ started <=> loop # "none"
    /\ loop = "asleep" => IsTimetable(slots)

\* A sleep that is not prolonged ends by tomorrow, and by tonight while the day
\* has not been served; a loop that plans its next sleep has served its day.
ServesItsDay ==
    /\ loop = "asleep" /\ suspended = 0 =>
          /\ minute + sleep < 2 * Day
          /\ minute + sleep >= Day => today # "open"
    /\ loop = "planning" => today # "open"
    /\ loop = "passing" => today = "served"

SInv == TypeOK /\ Running /\ WakesAtNextSlot /\ ServesItsDay /\ EnabledIsRunning

LEMMA SInvInit == Init => SInv
<1> SUFFICES ASSUME Init PROVE SInv
  OBVIOUS
<1> USE ScheduleAssumption
<1>1. <<>> \in Seq(Minutes)  OBVIOUS
<1>2. /\ minute \in Minutes /\ config \in Configs
      /\ calls \in 0..MaxCalls /\ sleep \in 0..Day
      /\ passed \in 0..MaxPass /\ suspended \in 0..MaxSuspend
  BY DEF Init
<1>3. TypeOK  BY <1>1, <1>2 DEF Init, TypeOK
<1> QED  BY <1>3 DEF Init, SInv, Running, WakesAtNextSlot, ServesItsDay,
                     EnabledIsRunning

\* Falling asleep, before the first slot of the day or when the day is served.
LEMMA Sleeps ==
    ASSUME SInv, FallAsleep(Slots(config.times)),
           minute < Slots(config.times)[1] \/ today # "open",
           loop # "none",
           UNCHANGED <<minute, config, started, calls, registered, passed, today>>
    PROVE  SInv'
<1> DEFINE q == Slots(config.times)
           w == MinutesUntil(minute, q)
<1>0. /\ Day \in Nat /\ Day > 0 /\ MaxSuspend \in Nat
      /\ TypeOK /\ minute \in 0..(Day - 1) /\ config.times \in Specs
  BY ScheduleAssumption DEF SInv, TypeOK, Minutes, Configs
<1>1. IsTimetable(q)  BY <1>0, SlotsAreATimetable
<1>2. q \in Seq(Minutes)  BY <1>1, SeqDef DEF IsTimetable
<1>3. /\ w \in 1..Day
      /\ SlotAt(minute + w, q)
      /\ \A k \in 1..w : k < w => ~SlotAt(minute + k, q)
      /\ minute < q[1] => minute + w < Day
  BY <1>0, <1>1, NextSlotIsNext DEF Minutes
<1>4. loop' = "asleep" /\ slots' = q /\ sleep' = w /\ suspended' = 0
  BY DEF FallAsleep
<1> HIDE DEF q, w
<1>5. TypeOK'  BY <1>0, <1>2, <1>3, <1>4 DEF TypeOK
<1>6. Running'  BY <1>1, <1>4 DEF SInv, Running
<1>7. WakesAtNextSlot'
  <2>1. minute' + sleep' - suspended' = minute + w  BY <1>0, <1>3, <1>4
  <2>2. \A k \in 1..w : minute' + k - suspended' = minute + k  BY <1>0, <1>3, <1>4
  <2> QED  BY <2>1, <2>2, <1>3, <1>4 DEF WakesAtNextSlot, SlotAt
<1>8. ServesItsDay'  BY <1>0, <1>3, <1>4 DEF ServesItsDay, q
<1>9. EnabledIsRunning'  BY <1>4 DEF EnabledIsRunning
<1> QED  BY <1>5, <1>6, <1>7, <1>8, <1>9 DEF SInv

\* A minute passes in a sleep, counted by it or not.
LEMMA SleepGoesOn ==
    ASSUME SInv, TurnMinute, loop = "asleep", sleep > 0,
           \/ sleep' = sleep - 1 /\ suspended' = suspended
           \/ sleep' = sleep /\ suspended' = suspended + 1 /\ suspended < MaxSuspend,
           UNCHANGED <<config, started, calls, registered, loop, slots, passed>>
    PROVE  SInv' /\ (minute = Day - 1 => today # "open" \/ suspended > 0)
<1>0. /\ Day \in Nat /\ Day > 0 /\ MaxSuspend \in 0..Day
      /\ TypeOK /\ minute \in 0..(Day - 1) /\ sleep \in 1..Day
      /\ suspended \in 0..MaxSuspend
      /\ IsTimetable(slots)
  BY ScheduleAssumption DEF SInv, TypeOK, Minutes, Running
<1>1. /\ sleep' \in 0..Day /\ suspended' \in 0..MaxSuspend
      /\ sleep' - suspended' = sleep - suspended - 1
  BY <1>0
<1>2. \/ minute # Day - 1 /\ minute' = minute + 1 /\ today' = today
      \/ minute = Day - 1 /\ minute' = 0 /\ today' = "open"
  BY DEF TurnMinute
<1>3. minute' \in 0..(Day - 1)  BY <1>0, <1>2
<1>4. TypeOK'  BY <1>0, <1>1, <1>2, <1>3 DEF TypeOK, Minutes
<1>5. minute = Day - 1 => today # "open" \/ suspended > 0
  BY <1>0 DEF SInv, ServesItsDay
<1>6. WakesAtNextSlot'
  <2> DEFINE d == IF minute = Day - 1 THEN Day ELSE 0
  <2>0. minute' = minute + 1 - d /\ d \in {0, Day} /\ (d = Day => minute = Day - 1)
    BY <1>0, <1>2
  <2>a. d = 0 \/ minute = Day - 1  OBVIOUS
  <2>b. minute = Day - 1 => d = Day  OBVIOUS
  <2> HIDE DEF d
  <2>1. ASSUME NEW k \in 1..Day, k <= sleep
        PROVE  SlotAt(minute + k - suspended, slots)
                  <=> SlotAt(minute + k - suspended - d, slots)
    <3>1. CASE d = 0
      <4>1. minute + k - suspended - d = minute + k - suspended  BY <3>1, <1>0
      <4> QED  BY <4>1
    <3>2. CASE minute = Day - 1
      <4>1. minute + k - suspended \in 0..(2 * Day - 1)  BY <3>2, <1>0
      <4> QED  BY <4>1, <3>2, <2>b, <1>0, SlotsRecur
    <3> QED  BY <3>1, <3>2, <2>a
  <2>2. SlotAt(minute + sleep - suspended, slots)
    BY <1>0 DEF SInv, WakesAtNextSlot
  <2>3. SlotAt(minute' + sleep' - suspended', slots)
    <3>1. minute' + sleep' - suspended' = minute + sleep - suspended - d
      <4>1. CASE sleep' = sleep - 1 /\ suspended' = suspended  BY <4>1, <1>0, <2>0
      <4>2. CASE sleep' = sleep /\ suspended' = suspended + 1  BY <4>2, <1>0, <2>0
      <4> QED  BY <4>1, <4>2
    <3> QED  BY <3>1, <2>1, <2>2, <1>0
  <2>4. ASSUME NEW k \in 1..sleep', k < sleep'
        PROVE  ~SlotAt(minute' + k - suspended', slots)
    <3>1. PICK j \in 1..sleep : /\ j < sleep
                                /\ minute' + k - suspended' = minute + j - suspended - d
      <4>1. CASE sleep' = sleep - 1 /\ suspended' = suspended
        <5>1. k + 1 \in 1..sleep /\ k + 1 < sleep  BY <4>1, <1>0, <2>4
        <5>2. minute' + k - suspended' = minute + (k + 1) - suspended - d
          BY <4>1, <1>0, <2>0
        <5> QED  BY <5>1, <5>2
      <4>2. CASE sleep' = sleep /\ suspended' = suspended + 1
        <5>1. k \in 1..sleep /\ k < sleep  BY <4>2, <1>0, <2>4
        <5>2. minute' + k - suspended' = minute + k - suspended - d
          BY <4>2, <1>0, <2>0
        <5> QED  BY <5>1, <5>2
      <4> QED  BY <4>1, <4>2
    <3>2. ~SlotAt(minute + j - suspended, slots)
      BY <3>1 DEF SInv, WakesAtNextSlot
    <3>3. j \in 1..Day /\ j <= sleep  BY <3>1, <1>0
    <3> QED  BY <3>1, <3>2, <3>3, <2>1
  <2> QED  BY <2>3, <2>4 DEF WakesAtNextSlot
<1>7. ServesItsDay'
  <2> SUFFICES ASSUME suspended' = 0
               PROVE  /\ minute' + sleep' < 2 * Day
                      /\ minute' + sleep' >= Day => today' # "open"
    BY DEF ServesItsDay
  <2>1. suspended = 0 /\ sleep' = sleep - 1  BY <1>0
  <2>2. /\ minute + sleep < 2 * Day
        /\ minute + sleep >= Day => today # "open"
    BY <2>1 DEF SInv, ServesItsDay
  <2> QED  BY <2>1, <2>2, <1>0, <1>2
<1>8. Running' /\ EnabledIsRunning'
  BY <1>0 DEF SInv, Running, EnabledIsRunning
<1> QED  BY <1>4, <1>5, <1>6, <1>7, <1>8 DEF SInv

\* Every step keeps the invariant, and none ends a day that is not accounted for.
LEMMA SInvStep ==
    ASSUME SInv, [Next]_vars
    PROVE  /\ SInv'
           /\ minute = Day - 1 /\ minute' = 0 /\ loop # "none" =>
                 today # "open" \/ suspended > 0
<1> DEFINE Accounted == minute = Day - 1 /\ minute' = 0 /\ loop # "none" =>
                           today # "open" \/ suspended > 0
<1>0. /\ TypeOK /\ Running /\ WakesAtNextSlot /\ ServesItsDay /\ EnabledIsRunning
      /\ Day \in Nat /\ Day > 1 /\ MaxPass \in Nat /\ MaxCalls \in Nat
      /\ MaxPass < Day
  BY ScheduleAssumption DEF SInv
<1>a. minute \in 0..(Day - 1) /\ config.times \in Specs
  BY <1>0 DEF TypeOK, Minutes, Configs
<1>b. minute' = minute => Accounted  BY <1>0, <1>a
<1>1. CASE UNCHANGED vars
  <2>1. SInv'
    BY <1>0, <1>1 DEF SInv, vars, TypeOK, Running, WakesAtNextSlot, ServesItsDay,
                      EnabledIsRunning
  <2> QED  BY <1>1, <1>b, <2>1 DEF vars
<1>2. CASE Configure
  <2>1. calls' \in 0..MaxCalls /\ calls' # 0  BY <1>0, <1>2 DEF Configure, TypeOK
  <2>2. TypeOK'  BY <1>0, <1>2, <2>1 DEF TypeOK, Configure
  <2>3. Running' /\ WakesAtNextSlot' /\ ServesItsDay' /\ EnabledIsRunning'
    BY <1>0, <1>2, <2>1 DEF Configure, Running, WakesAtNextSlot, ServesItsDay,
                            EnabledIsRunning
  <2> QED  BY <1>2, <1>b, <2>2, <2>3 DEF SInv, Configure
<1>3. CASE Start
  <2>1. calls' \in 0..MaxCalls  BY <1>0, <1>3 DEF Start, TypeOK
  <2>2. TypeOK'  BY <1>0, <1>3, <2>1 DEF TypeOK, Start
  <2>3. Running' /\ WakesAtNextSlot' /\ ServesItsDay' /\ EnabledIsRunning'
    BY <1>0, <1>3 DEF Start, Running, WakesAtNextSlot, ServesItsDay,
                      EnabledIsRunning
  <2> QED  BY <1>3, <1>b, <2>2, <2>3 DEF SInv, Start
<1>4. CASE Launch
  <2> DEFINE q == Slots(config.times)
  <2>1. CASE minute < q[1]
    <3>1. FallAsleep(q) /\ loop # "none"
          /\ UNCHANGED <<minute, config, started, calls, registered, passed, today>>
      BY <1>4, <2>1 DEF Launch
    <3> QED  BY <3>1, <2>1, <1>b, Sleeps
  <2>2. CASE ~(minute < q[1])
    <3>1. /\ loop = "launched" /\ loop' = "due" /\ slots' = q
          /\ UNCHANGED <<minute, config, started, calls, registered, passed,
                         today, sleep, suspended>>
      BY <1>4, <2>2 DEF Launch
    <3>2. q \in Seq(Minutes)
      BY <1>a, SlotsAreATimetable, SeqDef DEF IsTimetable
    <3> HIDE DEF q
    <3>3. TypeOK'  BY <1>0, <3>1, <3>2 DEF TypeOK
    <3>4. Running' /\ WakesAtNextSlot' /\ ServesItsDay' /\ EnabledIsRunning'
      BY <1>0, <3>1 DEF Running, WakesAtNextSlot, ServesItsDay, EnabledIsRunning
    <3> QED  BY <3>1, <1>b, <3>3, <3>4 DEF SInv
  <2> QED  BY <2>1, <2>2
<1>5. CASE Wake \/ EndPass
  <2>1. TypeOK'  BY <1>0, <1>5 DEF TypeOK, Wake, EndPass
  <2>2. Running' /\ WakesAtNextSlot' /\ ServesItsDay' /\ EnabledIsRunning'
    BY <1>0, <1>5 DEF Wake, EndPass, Running, WakesAtNextSlot, ServesItsDay,
                      EnabledIsRunning
  <2> QED  BY <1>5, <1>b, <2>1, <2>2 DEF SInv, Wake, EndPass
<1>6. CASE BeginPass
  <2>1. passed' \in 0..MaxPass  BY <1>0, <1>6 DEF BeginPass, TypeOK
  <2>2. TypeOK'  BY <1>0, <1>6, <2>1 DEF TypeOK, BeginPass
  <2>3. Running' /\ WakesAtNextSlot' /\ ServesItsDay' /\ EnabledIsRunning'
    BY <1>0, <1>6 DEF BeginPass, Running, WakesAtNextSlot, ServesItsDay,
                      EnabledIsRunning
  <2> QED  BY <1>6, <1>b, <2>2, <2>3 DEF SInv, BeginPass
<1>7. CASE Plan
  <2>1. /\ loop # "none" /\ today # "open" /\ FallAsleep(Slots(config.times))
        /\ UNCHANGED <<minute, config, started, calls, registered, passed, today>>
    BY <1>0, <1>7 DEF Plan, ServesItsDay
  <2> QED  BY <2>1, <1>b, Sleeps
<1>8. CASE Tick
  <2>1. CASE loop = "asleep"
    <3>1. /\ sleep > 0 /\ TurnMinute /\ sleep' = sleep - 1 /\ suspended' = suspended
          /\ UNCHANGED <<config, started, calls, registered, loop, slots, passed>>
      BY <1>8, <2>1 DEF Tick
    <3> QED  BY <3>1, <2>1, SleepGoesOn
  <2>2. CASE loop \in {"none", "passing"}
    <3>1. passed' \in 0..MaxPass  BY <1>0, <1>8, <2>2 DEF Tick, TypeOK
    <3>2. minute' \in 0..(Day - 1)  BY <1>0, <1>a, <1>8 DEF Tick, TurnMinute
    <3>3. today' \in {"open", "served", "off"}
          /\ (loop = "passing" => today' = "served")
      BY <1>0, <1>8 DEF Tick, TurnMinute, TypeOK, ServesItsDay
    <3>4. UNCHANGED <<config, started, calls, registered, loop, slots, suspended, sleep>>
      BY <1>8, <2>2 DEF Tick
    <3>5. TypeOK'  BY <1>0, <3>1, <3>2, <3>3, <3>4 DEF TypeOK, Minutes
    <3>6. Running' /\ WakesAtNextSlot' /\ ServesItsDay' /\ EnabledIsRunning'
      BY <1>0, <2>2, <3>3, <3>4 DEF Running, WakesAtNextSlot, ServesItsDay,
                                    EnabledIsRunning
    <3>7. Accounted  BY <1>0, <2>2 DEF ServesItsDay
    <3> QED  BY <3>5, <3>6, <3>7 DEF SInv
  <2> QED  BY <1>8, <2>1, <2>2 DEF Tick
<1>9. CASE Suspend
  <2>1. /\ loop = "asleep" /\ sleep > 0 /\ TurnMinute
        /\ sleep' = sleep /\ suspended' = suspended + 1 /\ suspended < MaxSuspend
        /\ UNCHANGED <<config, started, calls, registered, loop, slots, passed>>
    BY <1>9 DEF Suspend
  <2> QED  BY <2>1, SleepGoesOn
<1> QED  BY <1>1, <1>2, <1>3, <1>4, <1>5, <1>6, <1>7, <1>8, <1>9 DEF Next, LoopStep

----------------------------------------------------------------------------
(* Theorems *)

LEMMA Inductive == Spec => []SInv
<1>1. SInv /\ [Next]_vars => SInv'  BY SInvStep
<1> QED  BY SInvInit, <1>1, PTL DEF Spec

\* The scheduler's variables keep their types: in particular no sleep is
\* negative and none is longer than a day.
THEOREM TypeCorrect == Spec => []TypeOK
<1>1. SInv => TypeOK  BY DEF SInv
<1> QED  BY Inductive, <1>1, PTL

\* The loop sleeps to the next slot of the settings it read, for any list.
THEOREM NextSlotIsKept == Spec => []WakesAtNextSlot
<1>1. SInv => WakesAtNextSlot  BY DEF SInv
<1> QED  BY Inductive, <1>1, PTL

\* Whatever register and reconfigure calls interleave, an enabled check-in is
\* running when they have returned.
THEOREM EnabledRuns == Spec => []EnabledIsRunning
<1>1. SInv => EnabledIsRunning  BY DEF SInv
<1> QED  BY Inductive, <1>1, PTL

\* No day ends without a pass, but for the two exceptions NoDaySkipped names.
THEOREM EveryDayServed == Spec => NoDaySkipped
<1>1. SInv /\ [Next]_vars =>
        [minute = Day - 1 /\ minute' = 0 /\ loop # "none" =>
            today # "open" \/ suspended > 0]_vars
  BY SInvStep
<1> QED  BY Inductive, <1>1, PTL DEF Spec, NoDaySkipped
============================================================================
