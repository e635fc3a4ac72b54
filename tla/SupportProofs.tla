---------------------------- MODULE SupportProofs -----------------------------
(***************************************************************************)
(* Proofs about the libraries under the network code: the timer that calls *)
(* back, for any number of timers, the timeouts, for any widths of the     *)
(* numbers, the filter of the log, for any list and tags, and the bitmaps, *)
(* for any widths and heights.                                             *)
(*                                                                         *)
(* Stop writes only when it sees nThread above zero, and to the last flag  *)
(* only.  The first invariant says why both are enough: nThread is the     *)
(* number of threads that have not counted themselves off, and the only    *)
(* armed flag whose thread has still to read it is the last one.           *)
(***************************************************************************)
EXTENDS Timeout, TimerCallback, Logging, Bmp,
        SequenceTheorems, FiniteSetTheorems, WellFoundedInduction, TLAPS

\* Threads that have not counted themselves off.
Alive == {f \in Flags : timer[f] \notin {"none", "ended"}}

\* Those that will run their task, as things stand.
Loaded == {f \in Flags : timer[f] \in {"sleep", "read"} /\ enable[f] = "armed"}

TimerTypes ==
    /\ owner \in {"idle", "Start", "Stop", "arm"}
    /\ lastEnable \in 0 .. MaxTimers
    /\ nThread \in Nat
    /\ enable \in [Flags -> {"armed", "disarmed", "gone"}]
    /\ timer \in [Flags -> {"none", "sleep", "read", "task", "delete", "count", "ended"}]
    /\ stopped \in BOOLEAN

OwnerInv ==
    /\ owner \in {"Start", "arm"} => lastEnable < MaxTimers
    /\ owner \in {"Start", "Stop"} => lastEnable # 0
    /\ owner = "arm" => stopped

CountInv ==
    /\ \A f \in Flags : f > lastEnable => timer[f] = "none"
    /\ nThread = Cardinality(Alive)

LoadedInv == Loaded \subseteq IF stopped THEN {} ELSE {lastEnable}

TimerInv == TimerTypes /\ OwnerInv /\ CountInv /\ LoadedInv

LEMMA AliveIsFinite ==
    /\ IsFiniteSet(Flags)
    /\ IsFiniteSet(Alive)
    /\ Cardinality(Alive) = 0 <=> Alive = {}
<1>1. IsFiniteSet(Flags)
  BY TimerAssumption, FS_Interval DEF Flags
<1>2. IsFiniteSet(Alive)
  BY <1>1, FS_Subset DEF Alive
<1> QED
  BY <1>1, <1>2, FS_EmptySet

LEMMA InitTimerInv == TimerInit => TimerInv
<1> SUFFICES ASSUME TimerInit
             PROVE  TimerInv
  OBVIOUS
<1>1. TimerTypes
  <2>1. 0 \in 0 .. MaxTimers /\ 0 \in Nat
    BY TimerAssumption
  <2>2. owner = "idle" /\ lastEnable \in 0 .. MaxTimers /\ nThread \in Nat /\ stopped = FALSE
    BY <2>1 DEF TimerInit
  <2>3. enable \in [Flags -> {"armed", "disarmed", "gone"}]
    BY DEF TimerInit
  <2>4. timer \in [Flags -> {"none", "sleep", "read", "task", "delete", "count", "ended"}]
    BY DEF TimerInit
  <2> QED
    BY <2>2, <2>3, <2>4 DEF TimerTypes
<1>4. OwnerInv
  BY DEF TimerInit, OwnerInv
<1>5. LoadedInv
  <2>1. Loaded = {}
    BY DEF TimerInit, Loaded
  <2> QED
    BY <2>1 DEF LoadedInv
<1>2. Alive = {}
  BY DEF TimerInit, Alive
<1>3. CountInv
  BY <1>2, AliveIsFinite DEF TimerInit, CountInv
<1> QED
  BY <1>1, <1>3, <1>4, <1>5 DEF TimerInv

(***************************************************************************)
(* The owner.                                                              *)
(***************************************************************************)
LEMMA CallInv ==
    ASSUME TimerInv, NEW caller \in {"Start", "Stop"}, Call(caller)
    PROVE  TimerInv'
<1> USE DEF TimerInv
<1>1. UNCHANGED <<lastEnable, nThread, enable, timer>>
  BY DEF Call
<1>2. TimerTypes'
  BY <1>1 DEF Call, StopReturns, TimerTypes
<1>3. CountInv'
  BY <1>1 DEF CountInv, Alive
<1>4. OwnerInv'
  BY DEF Call, StopReturns, OwnerInv, TimerTypes
<1>5. LoadedInv'
  <2>1. CASE lastEnable # 0 /\ nThread > 0
    BY <1>1, <2>1 DEF Call, LoadedInv, Loaded
  <2>2. CASE lastEnable = 0
    <3>1. \A f \in Flags : timer[f] = "none"
      BY <2>2, TimerAssumption DEF CountInv, Flags
    <3> QED
      BY <1>1, <3>1 DEF LoadedInv, Loaded
  <2>3. CASE ~(nThread > 0)
    <3>1. Alive = {}
      BY <2>3, AliveIsFinite DEF CountInv, TimerTypes
    <3> QED
      BY <1>1, <3>1 DEF LoadedInv, Loaded, Alive
  <2> QED
    BY <2>1, <2>2, <2>3
<1> QED
  BY <1>2, <1>3, <1>4, <1>5

LEMMA DisarmInv ==
    ASSUME TimerInv, Disarm
    PROVE  TimerInv'
<1> USE DEF TimerInv
<1>1. /\ owner \in {"Start", "Stop"} /\ lastEnable \in Flags
      /\ enable' = [enable EXCEPT ![lastEnable] = IF @ = "gone" THEN @ ELSE "disarmed"]
      /\ stopped' = TRUE
      /\ UNCHANGED <<lastEnable, nThread, timer>>
  BY DEF Disarm, StopReturns, OwnerInv, TimerTypes, Flags
<1>2. TimerTypes'
  BY <1>1 DEF Disarm, StopReturns, TimerTypes
<1>3. OwnerInv'
  BY <1>1 DEF Disarm, StopReturns, OwnerInv
<1>4. CountInv'
  BY <1>1 DEF CountInv, Alive
<1>5. LoadedInv'
  <2>1. enable'[lastEnable] # "armed"
        /\ \A f \in Flags : f # lastEnable => enable'[f] = enable[f]
    BY <1>1 DEF TimerTypes
  <2> QED
    BY <1>1, <2>1 DEF LoadedInv, Loaded
<1> QED
  BY <1>2, <1>3, <1>4, <1>5

LEMMA ArmInv ==
    ASSUME TimerInv, Arm
    PROVE  TimerInv'
<1> USE DEF TimerInv
<1> DEFINE f == lastEnable + 1
<1>1. /\ owner = "arm" /\ owner' = "idle" /\ lastEnable' = f /\ nThread' = nThread + 1
      /\ enable' = [enable EXCEPT ![f] = "armed"]
      /\ timer' = [timer EXCEPT ![f] = "sleep"]
      /\ stopped' = FALSE
  BY DEF Arm
<1>2. f \in Flags /\ f > lastEnable /\ f \in 0 .. MaxTimers
  BY <1>1, TimerAssumption DEF OwnerInv, TimerTypes, Flags
<1>3. TimerTypes'
  <2>1. /\ enable' \in [Flags -> {"armed", "disarmed", "gone"}]
        /\ timer' \in [Flags -> {"none", "sleep", "read", "task", "delete", "count", "ended"}]
    BY <1>1, <1>2 DEF TimerTypes
  <2>2. owner' = "idle" /\ lastEnable' \in 0 .. MaxTimers /\ nThread' \in Nat /\ stopped' = FALSE
    BY <1>1, <1>2 DEF TimerTypes
  <2> QED
    BY <2>1, <2>2 DEF TimerTypes
<1>4. OwnerInv'
  BY <1>1 DEF OwnerInv
<1>5. timer[f] = "none"
  BY <1>2 DEF CountInv
<1> HIDE DEF f
<1>6. /\ timer'[f] = "sleep"
      /\ \A g \in Flags : g # f => timer'[g] = timer[g] /\ enable'[g] = enable[g]
  BY <1>1, <1>2 DEF TimerTypes
<1>7. Alive' = Alive \cup {f} /\ f \notin Alive
  BY <1>2, <1>5, <1>6 DEF Alive
<1>8. CountInv'
  <2>1. Cardinality(Alive') = Cardinality(Alive) + 1
    BY <1>7, AliveIsFinite, FS_AddElement
  <2>2. \A g \in Flags : g > f => timer'[g] = "none"
    <3>1. \A g \in Flags : g > f => g > lastEnable /\ g # f
      BY <1>2 DEF TimerTypes, Flags
    <3> QED
      BY <1>6, <3>1 DEF CountInv
  <2> QED
    BY <1>1, <2>1, <2>2 DEF CountInv
<1>9. LoadedInv'
  BY <1>1, <1>6 DEF LoadedInv, Loaded, OwnerInv
<1> QED
  BY <1>3, <1>4, <1>8, <1>9

(***************************************************************************)
(* A thread moves on: it keeps its place in the count until CountOff, and  *)
(* no flag is armed.                                                       *)
(***************************************************************************)
LEMMA ThreadInv ==
    ASSUME TimerInv, NEW f \in Flags,
           Sleep(f) \/ ReadFlag(f) \/ RunTask(f) \/ DeleteFlag(f) \/ CountOff(f)
    PROVE  TimerInv'
<1> USE DEF TimerInv
<1>1. /\ UNCHANGED <<owner, lastEnable, stopped>>
      /\ \A g \in Flags : g # f => timer'[g] = timer[g]
      /\ timer[f] \notin {"none", "ended"}
      /\ timer'[f] \in {"read", "task", "delete", "count", "ended"}
      /\ timer'[f] = "read" => timer[f] = "sleep"
      /\ timer'[f] = "ended" <=> timer[f] = "count"
      /\ timer' \in [Flags -> {"none", "sleep", "read", "task", "delete", "count", "ended"}]
  BY DEF Sleep, ReadFlag, RunTask, DeleteFlag, CountOff, After, TimerTypes
<1>2. /\ enable' \in [Flags -> {"armed", "disarmed", "gone"}]
      /\ \A g \in Flags : enable'[g] = "armed" => enable[g] = "armed"
  BY DEF Sleep, ReadFlag, RunTask, DeleteFlag, CountOff, TimerTypes
<1>3. OwnerInv'
  BY <1>1 DEF OwnerInv
<1>4. LoadedInv'
  BY <1>1, <1>2 DEF LoadedInv, Loaded
<1>5. f \in Alive /\ \A g \in Flags : g > lastEnable => g # f
  BY <1>1 DEF Alive, CountInv
<1>6. CASE timer[f] # "count"
  <2>1. nThread' = nThread
    BY <1>6 DEF Sleep, ReadFlag, RunTask, DeleteFlag, CountOff
  <2>2. Alive' = Alive
    BY <1>1, <1>6 DEF Alive
  <2>3. CountInv'
    BY <1>1, <1>5, <2>1, <2>2 DEF CountInv
  <2> QED
    BY <1>1, <1>2, <1>3, <1>4, <2>1, <2>3 DEF TimerTypes
<1>7. CASE timer[f] = "count"
  <2>1. nThread' = nThread - 1
    BY <1>7 DEF Sleep, ReadFlag, RunTask, DeleteFlag, CountOff
  <2>2. Alive' = Alive \ {f}
    BY <1>1, <1>7 DEF Alive
  <2>3. Cardinality(Alive') = Cardinality(Alive) - 1 /\ Cardinality(Alive') \in Nat
    BY <1>5, <2>2, AliveIsFinite, FS_RemoveElement, FS_CardinalityType
  <2>4. CountInv'
    BY <1>1, <1>5, <2>1, <2>3 DEF CountInv
  <2> QED
    BY <1>1, <1>2, <1>3, <1>4, <2>1, <2>3, <2>4 DEF TimerTypes, CountInv
<1> QED
  BY <1>6, <1>7

LEMMA StepTimerInv ==
    ASSUME TimerInv, [TimerNext]_timerVars
    PROVE  TimerInv'
<1>1. CASE TimerNext
  BY <1>1, CallInv, DisarmInv, ArmInv, ThreadInv DEF TimerNext
<1>2. CASE UNCHANGED timerVars
  BY <1>2 DEF timerVars, TimerInv, TimerTypes, OwnerInv, CountInv, Alive, LoadedInv, Loaded
<1> QED
  BY <1>1, <1>2

(***************************************************************************)
(* Once a Stop has returned, also the one that begins Start, no thread     *)
(* goes from its flag to its task until the next Start, whose timer alone  *)
(* may (TimerCallback, timeout.h:156 - 189), however many timers there are.*)
(***************************************************************************)
THEOREM StoppedTimersStaySilent ==
    TimerInit /\ [][TimerNext]_timerVars => StoppedStaysSilent
<1>1. TimerInit => TimerInv
  BY InitTimerInv
<1>2. TimerInv /\ [TimerNext]_timerVars => TimerInv'
  BY StepTimerInv
<1>3. TimerInv /\ [TimerNext]_timerVars
        => [\A f \in Flags : timer[f] = "read" /\ timer'[f] = "task"
                => f = lastEnable /\ ~stopped]_timerVars
  <2> SUFFICES ASSUME TimerInv, TimerNext, NEW f \in Flags,
                      timer[f] = "read", timer'[f] = "task"
               PROVE  f = lastEnable /\ ~stopped
    OBVIOUS
  <2>1. enable[f] = "armed"
    <3>1. \E g \in Flags : ReadFlag(g) /\ timer'[g] # timer[g]
                             /\ (timer'[g] = "task" => enable[g] = "armed")
                             /\ \A h \in Flags : h # g => timer'[h] = timer[h]
      BY DEF TimerNext, Call, StopReturns, Disarm, Arm, Sleep, ReadFlag, RunTask, DeleteFlag,
             CountOff, After, TimerInv, TimerTypes
    <3> QED
      BY <3>1
  <2> QED
    BY <2>1 DEF TimerInv, LoadedInv, Loaded
<1> QED
  BY <1>1, <1>2, <1>3, PTL DEF StoppedStaysSilent

-----------------------------------------------------------------------------
(***************************************************************************)
(* The timeouts of timeout.h, for any widths of the numbers.  The proof is *)
(* about remainders: three facts give all the others.                      *)
(***************************************************************************)
LEMMA Remainder ==
    ASSUME NEW a \in Int, NEW b \in Nat \ {0}
    PROVE  /\ a % b \in 0 .. b - 1
           /\ a \div b \in Int
           /\ a = (b * (a \div b)) + (a % b)
  OBVIOUS

\* Only one number below b has the remainder of a.
LEMMA RemainderIsUnique ==
    ASSUME NEW a \in Int, NEW b \in Nat \ {0}, NEW k \in Int, NEW y \in 0 .. b - 1,
           a = y + k * b
    PROVE  a % b = y
<1>1. PICK q \in Int : a = b * q + (a % b)
  BY Remainder
<1>2. a % b \in 0 .. b - 1
  BY Remainder
<1> QED
  BY <1>1, <1>2

LEMMA Quotient ==
    ASSUME NEW a \in Int, NEW b \in Nat \ {0}
    PROVE  \E q \in Int : a = (b * q) + (a % b)
  BY Remainder

LEMMA SmallRemainder ==
    ASSUME NEW b \in Nat \ {0}, NEW a \in 0 .. b - 1
    PROVE  a % b = a
  OBVIOUS

\* A clock that wraps around still tells how long ago s was.
LEMMA ClockWrapsAround ==
    ASSUME NEW m \in Nat \ {0}, NEW a \in 0 .. m - 1, NEW s \in 0 .. m - 1, NEW e \in Nat,
           (a - s) % m = e, 2 * (e + 1) < m
    PROVE  (((a + 1) % m) - s) % m = e + 1
<1> DEFINE b == (a + 1) % m
<1>1. m \in Int /\ a \in Int /\ s \in Int /\ a - s \in Int /\ a + 1 \in Int
  OBVIOUS
<1>2. PICK q \in Int : a - s = (m * q) + e
  BY <1>1, Quotient
<1>3. b \in Int
  BY <1>1, Remainder
<1>4. PICK k \in Int : a + 1 = (m * k) + b
  BY <1>1, Quotient
<1> HIDE DEF b
<1>5. (q - k) * m = (m * q) - (m * k) /\ m * q \in Int /\ m * k \in Int
  BY <1>1
<1>6. b - s = (e + 1) + ((m * q) - (m * k))
  BY <1>1, <1>2, <1>3, <1>4, <1>5
<1>7. e + 1 \in 0 .. m - 1 /\ q - k \in Int /\ b - s \in Int
  BY <1>1, <1>3
<1>8. b - s = (e + 1) + (q - k) * m
  BY <1>5, <1>6
<1> QED
  BY <1>7, <1>8, RemainderIsUnique DEF b

LEMMA Cancel ==
    ASSUME NEW a \in Int, NEW b \in Nat \ {0}, NEW c \in Int, a * b < c * b
    PROVE  a < c
  OBVIOUS

\* The whole units of a number of less than w of them.
LEMMA WholeUnits ==
    ASSUME NEW a \in Nat, NEW u \in Nat \ {0}, NEW w \in Nat, a < w * u
    PROVE  /\ a \div u \in 0 .. w - 1
           /\ (a \div u) * u <= a
           /\ a < ((a \div u) + 1) * u
<1> DEFINE d == a \div u
<1>1. /\ d \in Int
      /\ a = (u * d) + (a % u)
      /\ a % u \in 0 .. u - 1
  BY Remainder
<1> HIDE DEF d
<1>2. d * u <= a /\ a < (d + 1) * u
  BY <1>1
<1>3. 0 * u < (d + 1) * u
  BY <1>1, <1>2
<1>4. 0 < d + 1
  BY <1>1, <1>3, Cancel
<1>5. d * u < w * u
  BY <1>1, <1>2
<1>6. d < w
  BY <1>1, <1>5, Cancel
<1> QED
  BY <1>1, <1>2, <1>4, <1>6 DEF d

-----------------------------------------------------------------------------
\* What the class reads of the clock has advanced by what has elapsed since
\* the start, and the duration is less than Word of the units of the class: neither reaches
\* half of LongWord, so that one subtraction tells which is larger.
TimeoutInv ==
    /\ now \in 0 .. LongWord - 1
    /\ timeout \in [class : {"CTimeout", "CTimeoutmS"},
                    start_ns : 0 .. LongWord - 1, duration_ns : Nat]
    /\ promise \in [asked : Nat, elapsed : Nat]
    /\ ReadsClock => (now - timeout.start_ns) % LongWord = promise.elapsed
    /\ 2 * promise.elapsed < LongWord
    /\ timeout.duration_ns < Word * Unit(timeout)
    /\ Fits => timeout.duration_ns = promise.asked

LEMMA WidthsAreEnough ==
    /\ Word \in Nat \ {0} /\ LongWord \in Nat \ {0} /\ Factor \in Nat \ {0}
    /\ Factor * Factor \in Nat \ {0}
    /\ 2 * (Word * (Factor * Factor)) <= LongWord
    /\ 2 * (Word * Factor) <= LongWord
    /\ Word <= Word * Factor
<1>1. Word \in Nat \ {0} /\ LongWord \in Nat \ {0} /\ Factor \in Nat \ {0}
  BY TimeoutAssumption
<1>2. Factor * Factor \in Nat \ {0} /\ Factor <= Factor * Factor
  BY <1>1
<1>3. 2 * (Word * (Factor * Factor)) <= LongWord
  BY <1>1, TimeoutAssumption
<1>4. \A a, b \in Nat : a <= b => Word * a <= Word * b
  BY <1>1
<1>5. Word * Factor <= Word * (Factor * Factor)
  BY <1>1, <1>2, <1>4
<1>6. Word * 1 <= Word * Factor
  BY <1>1, <1>4
<1>7. Word * Factor \in Nat /\ Word * (Factor * Factor) \in Nat
  BY <1>1, <1>2
<1> QED
  BY <1>1, <1>2, <1>3, <1>5, <1>6, <1>7

LEMMA UnitsAreEnough ==
    ASSUME TimeoutInv
    PROVE  /\ Unit(timeout) \in Nat \ {0}
           /\ 2 * (Word * Unit(timeout)) <= LongWord
           /\ 2 * timeout.duration_ns < LongWord
<1>1. Unit(timeout) \in Nat \ {0} /\ 2 * (Word * Unit(timeout)) <= LongWord
  BY WidthsAreEnough DEF Unit
<1>2. timeout.duration_ns \in Nat /\ timeout.duration_ns < Word * Unit(timeout)
  BY DEF TimeoutInv
<1>3. Word * Unit(timeout) \in Nat /\ LongWord \in Nat
  BY <1>1, WidthsAreEnough
<1> QED
  BY <1>1, <1>2, <1>3

LEMMA TimeOfClass ==
    ASSUME TimeoutInv
    PROVE  /\ GetTimeNs(timeout.class) \in 0 .. LongWord - 1
           /\ ReadsClock => GetTimeNs(timeout.class) = now
<1>1. now \in 0 .. LongWord - 1 /\ timeout.class \in {"CTimeout", "CTimeoutmS"}
  BY DEF TimeoutInv
<1>2. now % Word \in 0 .. Word - 1
  BY <1>1, WidthsAreEnough, Remainder
<1>3. Word <= LongWord
  BY TimeoutAssumption, WidthsAreEnough
<1>4. Widened(now) \in 0 .. LongWord - 1
  BY <1>2, <1>3, WidthsAreEnough DEF Widened
<1> QED
  BY <1>1, <1>4 DEF GetTimeNs, ReadsClock

-----------------------------------------------------------------------------
LEMMA TimeoutInitInv == TimeoutInit => TimeoutInv
<1> SUFFICES ASSUME TimeoutInit PROVE TimeoutInv
  OBVIOUS
<1>1. 0 % LongWord = 0
  BY WidthsAreEnough
<1>2. 0 < Word * Factor
  BY WidthsAreEnough
<1> QED
  BY <1>1, <1>2, WidthsAreEnough DEF TimeoutInit, TimeoutInv, Unit, Fits

LEMMA ConstructInv ==
    ASSUME TimeoutInv, NEW class \in {"CTimeout", "CTimeoutmS"}, Construct(class)
    PROVE  TimeoutInv'
<1>1. now \in 0 .. LongWord - 1 /\ 2 * now < LongWord /\ now' = now
  BY DEF TimeoutInv, Construct
<1>2. timeout' = [class |-> class, start_ns |-> 0, duration_ns |-> 0]
  BY DEF Construct
<1>3. promise' = [asked |-> 0, elapsed |-> now]
  BY DEF Construct
<1>4. (now - 0) % LongWord = now
  BY <1>1, WidthsAreEnough
<1>5. Unit(timeout)' \in Nat \ {0}
  BY <1>2, WidthsAreEnough DEF Unit
<1>6. 0 < Word * Unit(timeout)'
  BY <1>5, WidthsAreEnough
<1> QED
  BY <1>1, <1>2, <1>3, <1>4, <1>6, WidthsAreEnough DEF TimeoutInv, Fits

\* A timeout that starts now.
LEMMA StartsAt ==
    ASSUME TimeoutInv, NEW s, NEW d \in Nat, NEW asked \in Nat,
           s \in 0 .. LongWord - 1, ReadsClock => s = now,
           now' = now,
           timeout' = [timeout EXCEPT !.start_ns = s, !.duration_ns = d],
           promise' = [asked |-> asked, elapsed |-> 0],
           d < Word * Unit(timeout),
           timeout.class = "CTimeoutmS" \/ asked < Word => d = asked
    PROVE  TimeoutInv'
<1>1. now \in 0 .. LongWord - 1
  BY DEF TimeoutInv
<1>2. timeout \in [class : {"CTimeout", "CTimeoutmS"},
                   start_ns : 0 .. LongWord - 1, duration_ns : Nat]
  BY DEF TimeoutInv
<1>3. /\ timeout' = [class |-> timeout.class, start_ns |-> s, duration_ns |-> d]
      /\ timeout.class \in {"CTimeout", "CTimeoutmS"}
  BY <1>2
<1>4. timeout'.start_ns = s /\ timeout'.duration_ns = d /\ timeout'.class = timeout.class
  BY <1>3
<1>5. promise'.elapsed = 0 /\ promise'.asked = asked
  OBVIOUS
<1>6. Unit(timeout)' = Unit(timeout)
  BY <1>3 DEF Unit
<1>7. Fits' => d = asked
  BY <1>4, <1>5 DEF Fits
<1>8. ReadsClock' => ReadsClock
  BY <1>4 DEF ReadsClock
<1>9. (now - now) % LongWord = 0 /\ 2 * 0 < LongWord
  BY <1>1, WidthsAreEnough
<1>10. ReadsClock' => ((now - timeout.start_ns) % LongWord)' = promise'.elapsed
  BY <1>4, <1>5, <1>8, <1>9
<1>11. timeout' \in [class : {"CTimeout", "CTimeoutmS"},
                     start_ns : 0 .. LongWord - 1, duration_ns : Nat]
  BY <1>3
<1>12. promise' \in [asked : Nat, elapsed : Nat]
  OBVIOUS
<1> QED
  BY <1>1, <1>4, <1>5, <1>6, <1>7, <1>9, <1>10, <1>11, <1>12 DEF TimeoutInv

LEMMA StartInv ==
    ASSUME TimeoutInv, NEW d \in Nat, NEW asked \in Nat,
           now' = now,
           timeout' = [timeout EXCEPT !.start_ns = GetTimeNs(timeout.class),
                                      !.duration_ns = d],
           promise' = [asked |-> asked, elapsed |-> 0],
           d < Word * Unit(timeout),
           timeout.class = "CTimeoutmS" \/ asked < Word => d = asked
    PROVE  TimeoutInv'
<1>1. PICK s : s = GetTimeNs(timeout.class)
  OBVIOUS
<1>2. s \in 0 .. LongWord - 1 /\ (ReadsClock => s = now)
  BY <1>1, TimeOfClass
<1>3. timeout' = [timeout EXCEPT !.start_ns = s, !.duration_ns = d]
  BY <1>1
<1> QED
  BY <1>2, <1>3, StartsAt

LEMMA SetInv ==
    ASSUME TimeoutInv, NEW n \in 0 .. Word - 1, Set(n)
    PROVE  TimeoutInv'
<1>1. n \in Nat /\ n < Word
  BY WidthsAreEnough
<1>2. timeout.class \in {"CTimeout", "CTimeoutmS"}
  BY DEF TimeoutInv
<1>3. CASE timeout.class = "CTimeout"
  <2>1. n * Factor \in Nat /\ (n * Factor) % Word \in 0 .. Word - 1
    BY <1>1, WidthsAreEnough, Remainder
  <2>2. n * Factor < Word => (n * Factor) % Word = n * Factor
    BY <2>1, WidthsAreEnough
  <2>3. /\ timeout' = [timeout EXCEPT !.start_ns = GetTimeNs(timeout.class),
                                      !.duration_ns = (n * Factor) % Word]
        /\ promise' = [asked |-> n * Factor, elapsed |-> 0]
        /\ now' = now
    BY <1>3 DEF Set, SetExpiration, Expires, Unit
  <2>4. (n * Factor) % Word < Word * Unit(timeout)
    <3>1. Unit(timeout) = Factor /\ Word * Factor \in Nat
      BY <1>3, WidthsAreEnough DEF Unit
    <3> QED
      BY <2>1, <3>1, WidthsAreEnough
  <2>5. (n * Factor) % Word \in Nat
    BY <2>1
  <2>6. timeout.class # "CTimeoutmS"
    BY <1>3
  <2> QED
    BY <2>1, <2>2, <2>3, <2>4, <2>5, <2>6, StartInv
<1>4. CASE timeout.class = "CTimeoutmS"
  <2>1. Unit(timeout) = Factor * Factor
    BY <1>4 DEF Unit
  <2> DEFINE u == Unit(timeout)
             d == n * u
  <2>2. /\ u \in Nat \ {0}
        /\ 2 * (Word * u) <= LongWord
    BY UnitsAreEnough
  <2>3. timeout' = [timeout EXCEPT !.start_ns = GetTimeNs(timeout.class),
                                   !.duration_ns = d % LongWord]
    BY <1>4 DEF Set, SetExpiration, Expires
  <2>4. promise' = [asked |-> d, elapsed |-> 0] /\ now' = now
    BY DEF Set
  <2> HIDE DEF u
  <2>5. d \in Nat /\ d < Word * u /\ Word * u \in Nat
    BY <1>1, <2>2, WidthsAreEnough
  <2>6. d < LongWord
    BY <2>2, <2>5, WidthsAreEnough
  <2>7. d % LongWord = d
    BY <2>5, <2>6, WidthsAreEnough
  <2>8. d < Word * Unit(timeout)
    BY <2>5 DEF u
  <2> HIDE DEF d
  <2> QED
    BY <2>3, <2>4, <2>5, <2>7, <2>8, StartInv
<1> QED
  BY <1>2, <1>3, <1>4

LEMMA MsInv ==
    ASSUME TimeoutInv, NEW n \in 0 .. Word - 1, ms(n)
    PROVE  TimeoutInv'
<1>1. n \in Nat /\ n < Word
  BY WidthsAreEnough
<1> DEFINE us == (n * Factor) % Word
           d  == (us * Factor) % Word
           asked == (n * Factor) * Factor
<1>2. n * Factor \in Nat /\ us \in 0 .. Word - 1
  BY <1>1, WidthsAreEnough, Remainder
<1>3. us * Factor \in Nat /\ d \in 0 .. Word - 1 /\ asked \in Nat
  BY <1>2, WidthsAreEnough, Remainder
<1>4. asked < Word => d = asked
  <2> SUFFICES ASSUME asked < Word PROVE d = asked
    OBVIOUS
  <2>1. \A a \in Nat : a <= a * Factor
    BY WidthsAreEnough
  <2>2. n * Factor < Word
    BY <1>2, <1>3, <2>1, WidthsAreEnough
  <2>3. us = n * Factor
    BY <1>2, <2>2, WidthsAreEnough
  <2> QED
    BY <1>2, <1>3, <2>3, WidthsAreEnough
<1>5. /\ timeout.class = "CTimeout"
      /\ timeout' = [timeout EXCEPT !.start_ns = GetTimeNs(timeout.class),
                                    !.duration_ns = d]
      /\ promise' = [asked |-> asked, elapsed |-> 0]
      /\ now' = now
  BY DEF ms, SetExpiration, Expires
<1>6. Unit(timeout) = Factor
  BY <1>5 DEF Unit
<1> HIDE DEF us, d, asked
<1>7. d < Word * Unit(timeout)
  <2>1. Word * Factor \in Nat
    BY WidthsAreEnough
  <2> QED
    BY <1>3, <1>6, <2>1, WidthsAreEnough
<1>8. d \in Nat
  BY <1>3
<1>9. timeout.class = "CTimeoutmS" \/ asked < Word => d = asked
  BY <1>4, <1>5
<1> QED
  BY <1>3, <1>5, <1>7, <1>8, <1>9, StartInv

LEMMA ResetInv == ASSUME TimeoutInv, Reset PROVE TimeoutInv'
<1> DEFINE d == timeout.duration_ns
           asked == promise.asked
<1>1. d \in Nat /\ asked \in Nat /\ d < Word * Unit(timeout)
  BY DEF TimeoutInv
<1>2. timeout.class = "CTimeoutmS" \/ asked < Word => d = asked
  BY DEF TimeoutInv, Fits
<1>3. promise' = [asked |-> asked, elapsed |-> 0]
  BY DEF TimeoutInv, Reset
<1>4. timeout' = [timeout EXCEPT !.start_ns = GetTimeNs(timeout.class), !.duration_ns = d]
  BY DEF TimeoutInv, Reset
<1>5. now' = now
  BY DEF Reset
<1> HIDE DEF d, asked
<1> QED
  BY <1>1, <1>2, <1>3, <1>4, <1>5, StartInv

LEMMA TickInv == ASSUME TimeoutInv, Tick PROVE TimeoutInv'
<1> DEFINE s == timeout.start_ns
           e == promise.elapsed
<1>1. /\ now \in 0 .. LongWord - 1
      /\ s \in 0 .. LongWord - 1
      /\ e \in Nat
      /\ ReadsClock => (now - s) % LongWord = e
  BY DEF TimeoutInv
<1>2. 2 * (e + 1) < LongWord /\ now' = (now + 1) % LongWord
  BY DEF Tick
<1>3. /\ timeout' = timeout
      /\ promise' = [promise EXCEPT !.elapsed = e + 1]
  BY DEF Tick
<1>4. promise' \in [asked : Nat, elapsed : Nat]
  BY <1>1, <1>3 DEF TimeoutInv
<1>5. promise'.elapsed = e + 1 /\ promise'.asked = promise.asked
  BY <1>3 DEF TimeoutInv
<1> HIDE DEF s, e
<1>6. now' \in 0 .. LongWord - 1
  BY <1>1, <1>2, WidthsAreEnough, Remainder
<1>7. ReadsClock => (now' - s) % LongWord = e + 1
  BY <1>1, <1>2, WidthsAreEnough, ClockWrapsAround
<1>8. (Fits' <=> Fits) /\ (ReadsClock' <=> ReadsClock)
  BY <1>3, <1>5 DEF Fits, ReadsClock
<1>9. Unit(timeout)' = Unit(timeout)
  BY <1>3
<1>10. timeout'.start_ns = s /\ timeout'.duration_ns = timeout.duration_ns
  BY <1>3 DEF s
<1>11. ReadsClock => ((now - timeout.start_ns) % LongWord)' = promise'.elapsed
  BY <1>5, <1>7, <1>10
<1> QED
  BY <1>2, <1>3, <1>4, <1>5, <1>6, <1>8, <1>9, <1>10, <1>11 DEF TimeoutInv

LEMMA TimeoutInvHolds == TimeoutInit /\ [][TimeoutNext]_timeoutVars => []TimeoutInv
<1>1. ASSUME TimeoutInv, [TimeoutNext]_timeoutVars PROVE TimeoutInv'
  <2>1. ASSUME NEW class \in {"CTimeout", "CTimeoutmS"}, Construct(class) PROVE TimeoutInv'
    BY <1>1, <2>1, ConstructInv
  <2>2. ASSUME NEW n \in 0 .. Word - 1, Set(n) PROVE TimeoutInv'
    BY <1>1, <2>2, SetInv
  <2>3. ASSUME NEW n \in 0 .. Word - 1, ms(n) PROVE TimeoutInv'
    BY <1>1, <2>3, MsInv
  <2>4. CASE Reset
    BY <1>1, <2>4, ResetInv
  <2>5. CASE Tick
    BY <1>1, <2>5, TickInv
  <2>6. CASE UNCHANGED timeoutVars
    BY <1>1, <2>6 DEF timeoutVars, TimeoutInv, Fits, ReadsClock, Unit
  <2> QED
    BY <1>1, <2>1, <2>2, <2>3, <2>4, <2>5, <2>6 DEF TimeoutNext
<1> QED
  BY TimeoutInitInv, <1>1, PTL

-----------------------------------------------------------------------------
LEMMA InvIsOnTime == TimeoutInv => OnTime
<1> SUFFICES ASSUME TimeoutInv, ReadsClock, Fits
             PROVE  /\ HasExpired(timeout) <=> promise.elapsed >= promise.asked
                    /\ GetExpiration(timeout) = promise.asked \div Unit(timeout)
  BY DEF OnTime
<1> DEFINE d == timeout.duration_ns
           u == Unit(timeout)
<1>1. d \in Nat /\ d = promise.asked /\ d < Word * u
  BY DEF TimeoutInv
<1>2. HasExpired(timeout) <=> promise.elapsed >= promise.asked
  BY <1>1, TimeOfClass DEF TimeoutInv, HasExpired
<1>3. u \in Nat \ {0} /\ Word \in Nat \ {0}
  BY UnitsAreEnough, WidthsAreEnough
<1>4. GetExpiration(timeout) = (d \div u) % Word
  BY DEF GetExpiration
<1> HIDE DEF d, u
<1>5. d \div u \in 0 .. Word - 1
  BY <1>1, <1>3, WholeUnits
<1>6. (d \div u) % Word = d \div u
  BY <1>3, <1>5
<1> QED
  BY <1>1, <1>2, <1>4, <1>6 DEF u

\* The signed difference tells how much is left.
LEMMA SignedIsLeft ==
    ASSUME TimeoutInv, ReadsClock
    PROVE  Signed(timeout.start_ns + timeout.duration_ns - now)
           = timeout.duration_ns - promise.elapsed
<1> DEFINE s == timeout.start_ns
           d == timeout.duration_ns
           e == promise.elapsed
           x == s + d - now
<1>1. /\ now \in 0 .. LongWord - 1
      /\ s \in 0 .. LongWord - 1
      /\ e \in Nat /\ d \in Nat
      /\ (now - s) % LongWord = e
      /\ 2 * e < LongWord
  BY DEF TimeoutInv
<1>2. 2 * d < LongWord
  BY UnitsAreEnough
<1> HIDE DEF s, d, e
<1>3. LongWord \in Nat \ {0} /\ x \in Int /\ now \in Int /\ s \in Int
  BY <1>1, WidthsAreEnough
<1>4. PICK q \in Int : now - s = (LongWord * q) + e
  <2>1. now - s \in Int
    BY <1>3
  <2> QED
    BY <1>1, <1>3, <2>1, Quotient
<1>5. CASE d >= e
  <2>1. x = (d - e) + (-q) * LongWord
    BY <1>1, <1>3, <1>4
  <2>2. d - e \in 0 .. LongWord - 1 /\ -q \in Int /\ 2 * (d - e) < LongWord
    BY <1>1, <1>2, <1>3, <1>5
  <2>3. x % LongWord = d - e
    BY <1>3, <2>1, <2>2, RemainderIsUnique
  <2>4. Signed(x) = d - e
    BY <2>2, <2>3 DEF Signed
  <2> QED
    BY <2>4 DEF s, d, e
<1>6. CASE d < e
  <2> DEFINE y == d - e + LongWord
  <2>1. x = y + (-q - 1) * LongWord
    BY <1>1, <1>3, <1>4
  <2>2. y \in 0 .. LongWord - 1 /\ -q - 1 \in Int /\ ~(2 * y < LongWord)
    BY <1>1, <1>2, <1>3, <1>4, <1>6
  <2>3. x % LongWord = y
    BY <1>3, <2>1, <2>2, RemainderIsUnique
  <2>4. Signed(x) = y - LongWord
    BY <2>2, <2>3 DEF Signed
  <2>5. y - LongWord = d - e
    BY <1>1, <1>3
  <2> QED
    BY <2>4, <2>5 DEF s, d, e
<1> QED
  BY <1>1, <1>5, <1>6

LEMMA InvRestIsLeft == TimeoutInv => RestIsLeft
<1> SUFFICES ASSUME TimeoutInv, ReadsClock PROVE RestIsLeft
  BY DEF RestIsLeft
<1> DEFINE left == timeout.duration_ns - promise.elapsed
           u    == Unit(timeout)
           rest == GetRestTime(timeout)
<1>1. rest = IF left < 0 THEN 0 ELSE (left \div u) % Word
  BY SignedIsLeft, TimeOfClass DEF GetRestTime
<1>2. /\ left \in Int
      /\ left < Word * u
      /\ HasExpired(timeout) => left <= 0
  <2>1. timeout.duration_ns \in Nat /\ promise.elapsed \in Nat
    BY DEF TimeoutInv
  <2>2. timeout.duration_ns < Word * u
    BY DEF TimeoutInv
  <2>3. HasExpired(timeout) => promise.elapsed >= timeout.duration_ns
    BY TimeOfClass DEF TimeoutInv, HasExpired
  <2>4. Word * u \in Nat
    BY UnitsAreEnough, WidthsAreEnough
  <2> QED
    BY <2>1, <2>2, <2>3, <2>4
<1>3. u \in Nat \ {0} /\ Word \in Nat \ {0}
  BY UnitsAreEnough, WidthsAreEnough
<1> SUFFICES /\ left >= 0 => rest * u <= left
             /\ left < (rest + 1) * u
             /\ HasExpired(timeout) => rest = 0
  BY DEF RestIsLeft
<1> HIDE DEF left, u, rest
<1>4. CASE left < 0
  BY <1>1, <1>2, <1>3, <1>4
<1>5. CASE left >= 0
  <2>1. left \in Nat
    BY <1>2, <1>5
  <2>2. /\ left \div u \in 0 .. Word - 1
        /\ (left \div u) * u <= left
        /\ left < ((left \div u) + 1) * u
    BY <1>2, <1>3, <2>1, WholeUnits
  <2>3. (left \div u) % Word = left \div u
    BY <1>3, <2>2, SmallRemainder
  <2>4. rest = left \div u
    BY <1>1, <1>2, <1>5, <2>3
  <2>5. left <= 0 => left \div u = 0
    BY <1>3, <2>1
  <2> QED
    BY <1>2, <2>2, <2>4, <2>5
<1> QED
  BY <1>2, <1>4, <1>5

(***************************************************************************)
(* HasExpired is right about every duration that fits, whatever the clock  *)
(* reads when the timeout is set and whether or not it wraps around until  *)
(* then, and GetExpiration gives back what was asked for: for CTimeoutmS   *)
(* on every build, for CTimeout where time_t has 64 bits.                  *)
(***************************************************************************)
THEOREM TimeoutsAreOnTime == TimeoutInit /\ [][TimeoutNext]_timeoutVars => []OnTime
  BY TimeoutInvHolds, InvIsOnTime, PTL

(***************************************************************************)
(* GetRestTime, which compares signed numbers, agrees with HasExpired,     *)
(* which compares unsigned ones, to less than one unit, under the same     *)
(* condition.                                                              *)
(***************************************************************************)
THEOREM RestIsAlwaysLeft == TimeoutInit /\ [][TimeoutNext]_timeoutVars => []RestIsLeft
  BY TimeoutInvHolds, InvRestIsLeft, PTL

-----------------------------------------------------------------------------
(***************************************************************************)
(* The filter of log_print, for lists and tags of any length.  What the    *)
(* recursion of strtok gives is found in three steps: TokensFrom, which is *)
(* not recursive, satisfies its equation; only one function does; so it is *)
(* the one that the recursion defines.                                     *)
(***************************************************************************)
\* OpToRel(<, Nat), written out.
Less == {p \in Nat \X Nat : p[1] < p[2]}

LEMMA LessIsWellFounded == IsWellFoundedOn(Less, Nat)
BY NatLessThanWellFounded DEF OpToRel, Less

LEMMA LeastExists ==
    ASSUME NEW S \in SUBSET Nat, S # {}
    PROVE  \E m \in S : \A x \in S : m <= x
<1>1. PICK m \in S : \A other \in S : <<other, m>> \notin Less
  BY LessIsWellFounded, WFMin
<1>2. ASSUME NEW other \in S, ~(m <= other) PROVE FALSE
  <2>1. other \in Nat /\ m \in Nat
    OBVIOUS
  <2>2. other < m
    BY <1>2, <2>1
  <2>3. <<other, m>> \in Less
    BY <2>1, <2>2 DEF Less
  <2> QED
    BY <1>1, <2>3
<1> QED
  BY <1>2

Chars == Letters \cup {"+"}

LEMMA TokenEnds ==
    ASSUME NEW list \in Seq(Chars), NEW i \in 1 .. Len(list), list[i] # "+"
    PROVE  /\ TokenEnd(list, i) \in i .. Len(list)
           /\ \A k \in i .. TokenEnd(list, i) : list[k] # "+"
           /\ TokenEnd(list, i) < Len(list) => list[TokenEnd(list, i) + 1] = "+"
<1> DEFINE I == {k \in i .. Len(list) : list[k] = "+"}
<1>0. Len(list) \in Nat /\ i \in Nat
  OBVIOUS
<1>1. TokenEnd(list, i) = LET next == IF I # {} THEN Min(I) ELSE 0
                          IN  IF next = 0 THEN Len(list) ELSE next - 1
  BY DEF TokenEnd, SelectInSubSeq
<1>2. CASE I = {}
  BY <1>0, <1>1, <1>2
<1>3. CASE I # {}
  <2>1. I \in SUBSET Nat
    BY <1>0
  <2>2. \E m \in I : \A x \in I : m <= x
    BY <1>3, <2>1, LeastExists
  <2>3. Min(I) \in I /\ \A x \in I : Min(I) <= x
    BY <2>2 DEF Min
  <2>4. PICK m \in I : Min(I) = m /\ \A x \in I : m <= x
    BY <2>3
  <2>5. m \in i + 1 .. Len(list) /\ list[m] = "+"
    BY <2>4, <1>0
  <2>6. TokenEnd(list, i) = m - 1
    BY <1>1, <1>3, <2>4, <2>5, <1>0
  <2>7. ASSUME NEW k \in i .. m - 1 PROVE list[k] # "+"
    BY <2>4, <2>5, <2>7, <1>0
  <2> QED
    BY <2>5, <2>6, <2>7, <1>0
<1> QED
  BY <1>2, <1>3

\* Where the tokens from i on begin.
Starts(list, i) ==
    {j \in i .. Len(list) : list[j] # "+" /\ (j = i \/ list[j - 1] = "+")}

TokensFrom(list) ==
    [i \in 1 .. Len(list) + 1 |-> {SubSeq(list, j, TokenEnd(list, j)) : j \in Starts(list, i)}]

\* One unfolding of the recursion of strtok.
Unfolded(list, f) ==
    [i \in 1 .. Len(list) + 1 |->
        CASE i > Len(list) -> {}
          [] i <= Len(list) /\ list[i] = "+" -> f[i + 1]
          [] OTHER -> {SubSeq(list, i, TokenEnd(list, i))} \cup f[TokenEnd(list, i) + 1]]

LEMMA strtokUnfolds ==
    ASSUME NEW list
    PROVE  strtok(list) = (CHOOSE f : f = Unfolded(list, f))[1]
  BY Zenon DEF strtok, Unfolded

LEMMA TokensUnfold ==
    ASSUME NEW list \in Seq(Chars)
    PROVE  TokensFrom(list) = Unfolded(list, TokensFrom(list))
<1> DEFINE n == Len(list)
           T == TokensFrom(list)
           U == Unfolded(list, T)
<1>0. n \in Nat
  OBVIOUS
<1>1. ASSUME NEW i \in 1 .. n + 1 PROVE T[i] = U[i]
  <2>0. i \in Nat /\ T[i] = {SubSeq(list, j, TokenEnd(list, j)) : j \in Starts(list, i)}
    BY <1>0 DEF TokensFrom
  <2>1. CASE i > n
    <3>1. Starts(list, i) = {}
      BY <1>0, <2>0, <2>1 DEF Starts
    <3>2. U[i] = {}
      BY <1>0, <2>0, <2>1 DEF Unfolded
    <3> QED
      BY <2>0, <3>1, <3>2
  <2>2. CASE i <= n /\ list[i] = "+"
    <3>1. Starts(list, i) = Starts(list, i + 1)
      BY <1>0, <2>0, <2>2 DEF Starts
    <3>2. i + 1 \in 1 .. n + 1
      BY <1>0, <2>0, <2>2
    <3>3. U[i] = T[i + 1]
      BY <1>0, <2>0, <2>2 DEF Unfolded
    <3>4. T[i + 1] = {SubSeq(list, j, TokenEnd(list, j)) : j \in Starts(list, i + 1)}
      BY <3>2 DEF TokensFrom
    <3> QED
      BY <2>0, <3>1, <3>3, <3>4
  <2>3. CASE i <= n /\ list[i] # "+"
    <3> DEFINE e == TokenEnd(list, i)
    <3>1. /\ e \in i .. n
          /\ \A k \in i .. e : list[k] # "+"
          /\ e < n => list[e + 1] = "+"
      BY <1>0, <2>0, <2>3, TokenEnds
    <3>2. U[i] = {SubSeq(list, i, e)} \cup T[e + 1]
      BY <1>0, <2>0, <2>3 DEF Unfolded
    <3> HIDE DEF e
    <3>3. e + 1 \in 1 .. n + 1
      BY <1>0, <2>0, <3>1
    <3>4. T[e + 1] = {SubSeq(list, j, TokenEnd(list, j)) : j \in Starts(list, e + 1)}
      BY <3>3 DEF TokensFrom
    <3>5. Starts(list, i) = {i} \cup Starts(list, e + 1)
      <4>1. ASSUME NEW j \in Starts(list, i), j # i PROVE j \in Starts(list, e + 1)
        <5>1. j \in Nat /\ j \in i + 1 .. n /\ list[j] # "+" /\ list[j - 1] = "+"
          BY <1>0, <2>0, <4>1 DEF Starts
        <5>2. j - 1 \in i .. n
          BY <1>0, <2>0, <5>1
        <5>3. ~(j - 1 <= e)
          BY <5>1, <5>2, <3>1
        <5>4. j \in e + 1 .. n
          BY <1>0, <3>1, <5>1, <5>3
        <5> QED
          BY <5>1, <5>4 DEF Starts
      <4>2. i \in Starts(list, i)
        BY <1>0, <2>0, <2>3 DEF Starts
      <4>3. ASSUME NEW j \in Starts(list, e + 1) PROVE j \in Starts(list, i)
        <5>1. j \in e + 1 .. n /\ list[j] # "+"
          BY DEF Starts
        <5>2. j # e + 1 \/ e >= n
          BY <3>1, <5>1
        <5>3. j # e + 1
          BY <1>0, <3>1, <5>1, <5>2
        <5>4. list[j - 1] = "+"
          BY <5>3 DEF Starts
        <5>5. j \in i .. n
          BY <1>0, <2>0, <3>1, <5>1
        <5> QED
          BY <5>1, <5>4, <5>5 DEF Starts
      <4> QED
        BY <4>1, <4>2, <4>3
    <3> QED
      BY <2>0, <3>2, <3>4, <3>5 DEF e
  <2> QED
    BY <1>0, <2>0, <2>1, <2>2, <2>3
<1> QED
  BY <1>1 DEF TokensFrom, Unfolded

LEMMA UnfoldedIsUnique ==
    ASSUME NEW list \in Seq(Chars), NEW f, NEW g,
           f = Unfolded(list, f), g = Unfolded(list, g)
    PROVE  f = g
<1> DEFINE n == Len(list)
           Differ == {k \in 0 .. n : f[n + 1 - k] # g[n + 1 - k]}
<1>0. n \in Nat
  OBVIOUS
<1>1. ASSUME Differ # {} PROVE FALSE
  <2>0. Differ \in SUBSET Nat
    BY <1>0
  <2>1. PICK k \in Differ : \A x \in Differ : k <= x
    <3> HIDE DEF Differ
    <3> QED
      BY <1>1, <2>0, LeastExists
  <2> DEFINE i == n + 1 - k
  <2>2. k \in 0 .. n /\ k \in Nat /\ i \in 1 .. n + 1 /\ f[i] # g[i]
    BY <1>0, <2>1
  <2>3. ASSUME NEW j \in i + 1 .. n + 1 PROVE f[j] = g[j]
    <3> DEFINE x == n + 1 - j
    <3>1. x \in 0 .. n /\ x < k /\ n + 1 - x = j
      BY <1>0, <2>2, <2>3
    <3>2. x \notin Differ
      BY <1>0, <2>1, <2>2, <3>1
    <3> QED
      BY <3>1, <3>2
  <2> HIDE DEF i, n, Differ
  <2>4. CASE i > n
    <3>1. f[i] = {} /\ g[i] = {}
      BY <2>2, <2>4 DEF Unfolded, n
    <3> QED
      BY <2>2, <3>1
  <2>5. CASE i <= n /\ list[i] = "+"
    <3>1. \A h : Unfolded(list, h)[i] = h[i + 1]
      BY <2>2, <2>5, <1>0 DEF Unfolded, n
    <3>4. f[i] = f[i + 1] /\ g[i] = g[i + 1]
      BY <3>1, Zenon
    <3>2. i + 1 \in i + 1 .. n + 1
      BY <1>0, <2>2, <2>5
    <3> QED
      BY <2>2, <2>3, <3>1, <3>2, <3>4
  <2>6. CASE i <= n /\ list[i] # "+"
    <3>1. /\ f[i] = {SubSeq(list, i, TokenEnd(list, i))} \cup f[TokenEnd(list, i) + 1]
          /\ g[i] = {SubSeq(list, i, TokenEnd(list, i))} \cup g[TokenEnd(list, i) + 1]
      BY <2>2, <2>6, <1>0 DEF Unfolded, n
    <3>2. TokenEnd(list, i) \in i .. n
      BY <1>0, <2>2, <2>6, TokenEnds DEF n
    <3>3. TokenEnd(list, i) + 1 \in i + 1 .. n + 1
      BY <1>0, <2>2, <3>2
    <3> QED
      BY <2>2, <2>3, <3>1, <3>3
  <2> QED
    BY <1>0, <2>2, <2>4, <2>5, <2>6
<1>2. \A i \in 1 .. n + 1 : f[i] = g[i]
  <2> SUFFICES ASSUME NEW i \in 1 .. n + 1 PROVE f[i] = g[i]
    OBVIOUS
  <2>1. n + 1 - i \in 0 .. n /\ n + 1 - (n + 1 - i) = i
    BY <1>0
  <2> QED
    BY <1>1, <2>1
<1>3. f = [i \in 1 .. n + 1 |-> f[i]]
  BY DEF Unfolded
<1>4. g = [i \in 1 .. n + 1 |-> g[i]]
  BY DEF Unfolded
<1> QED
  BY <1>2, <1>3, <1>4

LEMMA strtokFindsTokens ==
    ASSUME NEW list \in Seq(Chars)
    PROVE  strtok(list) = {SubSeq(list, j, TokenEnd(list, j)) : j \in Starts(list, 1)}
<1> DEFINE f == CHOOSE g : g = Unfolded(list, g)
<1>1. f = Unfolded(list, f)
  BY TokensUnfold
<1>2. f = TokensFrom(list)
  <2> HIDE DEF f
  <2> QED
    BY <1>1, TokensUnfold, UnfoldedIsUnique
<1>3. strtok(list) = f[1]
  BY strtokUnfolds
<1>4. 1 \in 1 .. Len(list) + 1
  OBVIOUS
<1> HIDE DEF f
<1> QED
  BY <1>2, <1>3, <1>4 DEF TokensFrom

LEMMA TokensAreListed ==
    ASSUME NEW list \in Seq(Chars), NEW tag \in Seq(Letters), tag # <<>>
    PROVE  tag \in strtok(list) <=> Listed(tag, list)
<1> DEFINE n == Len(list)
<1>0. /\ n \in Nat /\ Len(tag) \in Nat \ {0}
      /\ \A k \in 1 .. n : list[k] \in Chars
      /\ \A k \in 1 .. Len(tag) : tag[k] \in Letters
  OBVIOUS
<1>1. ASSUME tag \in strtok(list) PROVE Listed(tag, list)
  <2>1. PICK j \in Starts(list, 1) : tag = SubSeq(list, j, TokenEnd(list, j))
    BY <1>1, strtokFindsTokens
  <2>2. j \in 1 .. n /\ list[j] # "+" /\ (j = 1 \/ list[j - 1] = "+")
    BY DEF Starts
  <2> DEFINE e == TokenEnd(list, j)
  <2>3. e \in j .. n /\ (e < n => list[e + 1] = "+")
    BY <2>2, TokenEnds
  <2>4. tag = SubSeq(list, j, e)
    BY <2>1
  <2> HIDE DEF e
  <2>5. Len(tag) = e - j + 1
    BY <1>0, <2>2, <2>3, <2>4, SubSeqProperties
  <2>6. j + Len(tag) - 1 = e
    BY <1>0, <2>2, <2>3, <2>5
  <2>7. e <= n /\ (e = n \/ list[e + 1] = "+")
    BY <1>0, <2>3
  <2> QED
    BY <2>2, <2>4, <2>6, <2>7 DEF Listed
<1>2. ASSUME Listed(tag, list) PROVE tag \in strtok(list)
  <2>1. PICK i \in 1 .. n :
           /\ i + Len(tag) - 1 <= n
           /\ SubSeq(list, i, i + Len(tag) - 1) = tag
           /\ i = 1 \/ list[i - 1] = "+"
           /\ i + Len(tag) - 1 = n \/ list[i + Len(tag) - 1 + 1] = "+"
    BY <1>2 DEF Listed
  <2> DEFINE j == i + Len(tag) - 1
  <2>2. j \in i .. n /\ SubSeq(list, i, j) = tag /\ (j = n \/ list[j + 1] = "+")
    BY <1>0, <2>1
  <2>3. j - i + 1 = Len(tag) /\ i \in Nat /\ j \in Nat
    BY <1>0, <2>1
  <2> HIDE DEF j
  <2>4. \A k \in 1 .. j - i + 1 : SubSeq(list, i, j)[k] = list[i + k - 1]
    <3>1. \A k \in i .. j : list[k] \in Chars
      BY <1>0, <2>2, <2>3
    <3> QED
      BY <2>3, <3>1, SubSeqProperties
  <2>5. ASSUME NEW k \in i .. j PROVE list[k] # "+"
    <3>1. k - i + 1 \in 1 .. Len(tag) /\ i + (k - i + 1) - 1 = k
      BY <2>3
    <3>2. tag[k - i + 1] = list[k]
      BY <2>2, <2>3, <2>4, <3>1
    <3>3. tag[k - i + 1] \in Letters
      BY <1>0, <3>1
    <3> QED
      BY <3>2, <3>3, LoggingAssumption
  <2>6. i \in Starts(list, 1)
    <3>1. i \in i .. j
      BY <2>2, <2>3
    <3> QED
      BY <2>1, <2>5, <3>1 DEF Starts
  <2> DEFINE e == TokenEnd(list, i)
  <2>7. /\ e \in i .. n
        /\ \A k \in i .. e : list[k] # "+"
        /\ e < n => list[e + 1] = "+"
    BY <2>1, <2>2, <2>3, <2>5, TokenEnds
  <2> HIDE DEF e
  <2>8. e = j
    <3>1. ASSUME e > j PROVE FALSE
      <4>1. j + 1 \in i .. e /\ j # n
        BY <1>0, <2>2, <2>3, <2>7, <3>1
      <4> QED
        BY <2>2, <2>7, <4>1
    <3>2. ASSUME e < j PROVE FALSE
      <4>1. e + 1 \in i .. j /\ e < n
        BY <1>0, <2>2, <2>3, <2>7, <3>2
      <4> QED
        BY <2>5, <2>7, <4>1
    <3> QED
      BY <1>0, <2>3, <2>7, <3>1, <3>2
  <2> QED
    BY <2>2, <2>6, <2>8, strtokFindsTokens DEF e
<1> QED
  BY <1>1, <1>2

LoggingInv == log_level \in Levels /\ log_tag \in Seq(Chars)

LEMMA BoundedSeqIsSeq ==
    ASSUME NEW S, NEW n \in Nat
    PROVE  BoundedSeq(S, n) \subseteq Seq(S)
  BY SeqDef DEF BoundedSeq, SeqOf

LEMMA LoggingInvHolds == LoggingInit /\ [][LoggingNext]_loggingVars => []LoggingInv
<1>1. LoggingInit => LoggingInv
  BY DEF LoggingInit, LoggingInv, Levels
<1>2. LoggingInv /\ [LoggingNext]_loggingVars => LoggingInv'
  <2> SUFFICES ASSUME LoggingInv, [LoggingNext]_loggingVars PROVE LoggingInv'
    OBVIOUS
  <2>1. CASE UNCHANGED <<log_level, log_tag>>
    BY <2>1 DEF LoggingInv
  <2>2. ASSUME NEW level \in Levels, log_set_level(level) PROVE LoggingInv'
    BY <2>2 DEF log_set_level, LoggingInv
  <2>3. ASSUME NEW list \in BoundedSeq(Letters \cup {"+"}, MaxTags), log_set_tag(list)
        PROVE  LoggingInv'
    <3>1. list \in Seq(Chars)
      BY LoggingAssumption, BoundedSeqIsSeq DEF Chars
    <3> QED
      BY <2>3, <3>1 DEF log_set_tag, LoggingInv
  <2> QED
    BY <2>1, <2>2, <2>3 DEF LoggingNext, loggingVars, log_print, log_register_callback
<1> QED
  BY <1>1, <1>2, PTL

LEMMA InvIsFiltered == LoggingInv => FilteredByTheList
<1> SUFFICES ASSUME LoggingInv, NEW level \in {l \in Levels : l <= log_level},
                    NEW tag \in Tags \ {<<>>}
             PROVE  messageIsFilteredOut(level, tag)
                    <=> log_tag # <<>> /\ ~Listed(tag, log_tag)
  BY DEF FilteredByTheList
<1>1. ~(log_level < level)
  BY DEF LoggingInv, Levels, LOG_ERR, LOG_PRINT, LOG_NONE
<1>2. tag \in Seq(Letters) /\ tag # <<>>
  BY LoggingAssumption, BoundedSeqIsSeq DEF Tags
<1>3. log_tag \in Seq(Chars)
  BY DEF LoggingInv
<1> QED
  BY <1>1, <1>2, <1>3, TokensAreListed DEF messageIsFilteredOut

(***************************************************************************)
(* For lists and tags of any length and any letters, the loop over the     *)
(* tokens of strtok lets a tag through exactly when it is an item of the   *)
(* list.                                                                   *)
(***************************************************************************)
THEOREM TagsAreFilteredByTheList ==
    LoggingInit /\ [][LoggingNext]_loggingVars => []FilteredByTheList
  BY LoggingInvHolds, InvIsFiltered, PTL

-----------------------------------------------------------------------------
(***************************************************************************)
(* The bitmaps of bmp.cpp, for any widths and heights.  Offset, RawRow and *)
(* ReadPixelData are recursive, and treated as strtok above.               *)
(***************************************************************************)
\* One unfolding of the recursion of Offset.
OffsetsUnfolded(fields, base, i, f) ==
    [k \in 1 .. i |-> IF k = 1 THEN base ELSE f[k - 1] + fields[k - 1].size]

LEMMA OffsetUnfolds ==
    ASSUME NEW fields, NEW base, NEW i
    PROVE  Offset(fields, base, i) = (CHOOSE f : f = OffsetsUnfolded(fields, base, i, f))[i]
  BY Zenon DEF Offset, OffsetsUnfolded

\* The offsets are o if each is that of the field before it plus its size.
LEMMA OffsetIs ==
    ASSUME NEW fields, NEW base, NEW n \in Nat, NEW o, NEW i \in 1 .. n,
           o[1] = base, \A k \in 2 .. n : o[k] = o[k - 1] + fields[k - 1].size
    PROVE  Offset(fields, base, i) = o[i]
<1> DEFINE f == CHOOSE h : h = OffsetsUnfolded(fields, base, i, h)
           g == [k \in 1 .. i |-> o[k]]
           Differ == {k \in 1 .. i : f[k] # o[k]}
<1>1. g = OffsetsUnfolded(fields, base, i, g)
  <2>1. ASSUME NEW k \in 1 .. i PROVE g[k] = OffsetsUnfolded(fields, base, i, g)[k]
    <3>1. k # 1 => k - 1 \in 1 .. i /\ k \in 2 .. n
      OBVIOUS
    <3> QED
      BY <3>1 DEF OffsetsUnfolded
  <2> QED
    BY <2>1 DEF OffsetsUnfolded
<1>2. f = OffsetsUnfolded(fields, base, i, f)
  BY <1>1
<1> HIDE DEF f
<1>3. \A k \in 1 .. i : f[k] = IF k = 1 THEN base ELSE f[k - 1] + fields[k - 1].size
  BY <1>2 DEF OffsetsUnfolded
<1>4. Differ = {}
  <2> SUFFICES ASSUME Differ # {} PROVE FALSE
    OBVIOUS
  <2>1. Differ \in SUBSET Nat
    OBVIOUS
  <2>2. PICK k \in Differ : \A x \in Differ : k <= x
    <3> HIDE DEF Differ
    <3> QED
      BY <2>1, LeastExists
  <2>3. k \in 1 .. i /\ f[k] # o[k]
    BY <2>2
  <2>4. k # 1
    BY <1>3, <2>3
  <2>5. k - 1 \in 1 .. i /\ k \in 2 .. n /\ ~(k <= k - 1)
    BY <2>3, <2>4
  <2>6. k - 1 \notin Differ
    BY <2>2, <2>5
  <2>7. f[k - 1] = o[k - 1]
    BY <2>5, <2>6
  <2>8. f[k] = f[k - 1] + fields[k - 1].size
    BY <1>3, <2>3, <2>4
  <2> QED
    BY <2>3, <2>5, <2>7, <2>8
<1>5. i \in 1 .. i
  OBVIOUS
<1> QED
  BY <1>4, <1>5, OffsetUnfolds DEF f

LEMMA FileHeaderLaidOut ==
    \A i \in 1 .. 5 : Offset(BITMAPFILEHEADER, 0, i) = <<0, 2, 6, 8, 10>>[i]
<1> DEFINE o == <<0, 2, 6, 8, 10>>
<1>1. PICK n \in Nat, base \in Nat : n = 5 /\ base = 0
  OBVIOUS
<1>2. o[1] = base
  BY <1>1
<1>3. \A k \in 2 .. n : o[k] = o[k - 1] + BITMAPFILEHEADER[k - 1].size
  BY <1>1, BmpBuild DEF BITMAPFILEHEADER, WORD
<1> HIDE DEF o
<1>4. \A i \in 1 .. n : Offset(BITMAPFILEHEADER, base, i) = o[i]
  BY <1>2, <1>3, OffsetIs
<1> QED
  BY <1>1, <1>4 DEF o

LEMMA InfoHeaderLaidOut ==
    \A i \in 1 .. 6 : Offset(BITMAPINFOHEADER, 14, i) = <<14, 18, 22, 26, 28, 30>>[i]
<1> DEFINE o == <<14, 18, 22, 26, 28, 30>>
<1>1. PICK n \in Nat, base \in Nat : n = 6 /\ base = 14
  OBVIOUS
<1>2. o[1] = base
  BY <1>1
<1>3. \A k \in 2 .. n : o[k] = o[k - 1] + BITMAPINFOHEADER[k - 1].size
  BY <1>1, BmpBuild DEF BITMAPINFOHEADER, WORD
<1> HIDE DEF o
<1>4. \A i \in 1 .. n : Offset(BITMAPINFOHEADER, base, i) = o[i]
  BY <1>2, <1>3, OffsetIs
<1> QED
  BY <1>1, <1>4 DEF o

LEMMA FileHeaderWritten ==
    ASSUME NEW header
    PROVE  /\ DOMAIN Written(BITMAPFILEHEADER, 0, header) = {0, 2, 6, 8, 10}
           /\ Written(BITMAPFILEHEADER, 0, header)[10] = header.bfOffBits
<1> DEFINE file == Written(BITMAPFILEHEADER, 0, header)
<1>1. DOMAIN BITMAPFILEHEADER = 1 .. 5
  BY DEF BITMAPFILEHEADER
<1>2. {Offset(BITMAPFILEHEADER, 0, i) : i \in 1 .. 5} = {<<0, 2, 6, 8, 10>>[i] : i \in 1 .. 5}
  BY FileHeaderLaidOut
<1>3. {<<0, 2, 6, 8, 10>>[i] : i \in 1 .. 5} = {0, 2, 6, 8, 10}
  OBVIOUS
<1>4. DOMAIN file = {0, 2, 6, 8, 10}
  BY <1>1, <1>2, <1>3 DEF Written
<1>5. (CHOOSE i \in 1 .. 5 : Offset(BITMAPFILEHEADER, 0, i) = 10) = 5
  BY FileHeaderLaidOut
<1>6. file[10] = header[BITMAPFILEHEADER[5].name]
  BY <1>1, <1>2, <1>3, <1>5 DEF Written
<1>7. BITMAPFILEHEADER[5].name = "bfOffBits"
  BY DEF BITMAPFILEHEADER
<1> QED
  BY <1>4, <1>6, <1>7

LEMMA InfoHeaderWritten ==
    ASSUME NEW header
    PROVE  /\ DOMAIN Written(BITMAPINFOHEADER, 14, header) = {14, 18, 22, 26, 28, 30}
           /\ Written(BITMAPINFOHEADER, 14, header)[18] = header.biWidth
           /\ Written(BITMAPINFOHEADER, 14, header)[22] = header.biHeight
           /\ Written(BITMAPINFOHEADER, 14, header)[28] = header.biBitCount
<1> DEFINE file == Written(BITMAPINFOHEADER, 14, header)
<1>1. DOMAIN BITMAPINFOHEADER = 1 .. 6
  BY DEF BITMAPINFOHEADER
<1>2. {Offset(BITMAPINFOHEADER, 14, i) : i \in 1 .. 6}
         = {<<14, 18, 22, 26, 28, 30>>[i] : i \in 1 .. 6}
  BY InfoHeaderLaidOut
<1>3. {<<14, 18, 22, 26, 28, 30>>[i] : i \in 1 .. 6} = {14, 18, 22, 26, 28, 30}
  OBVIOUS
<1>4. DOMAIN file = {14, 18, 22, 26, 28, 30}
  BY <1>1, <1>2, <1>3 DEF Written
<1>5. /\ (CHOOSE i \in 1 .. 6 : Offset(BITMAPINFOHEADER, 14, i) = 18) = 2
      /\ (CHOOSE i \in 1 .. 6 : Offset(BITMAPINFOHEADER, 14, i) = 22) = 3
      /\ (CHOOSE i \in 1 .. 6 : Offset(BITMAPINFOHEADER, 14, i) = 28) = 5
  BY InfoHeaderLaidOut
<1>6. /\ file[18] = header[BITMAPINFOHEADER[2].name]
      /\ file[22] = header[BITMAPINFOHEADER[3].name]
      /\ file[28] = header[BITMAPINFOHEADER[5].name]
  BY <1>1, <1>2, <1>3, <1>5 DEF Written
<1>7. /\ BITMAPINFOHEADER[2].name = "biWidth"
      /\ BITMAPINFOHEADER[3].name = "biHeight"
      /\ BITMAPINFOHEADER[5].name = "biBitCount"
  BY DEF BITMAPINFOHEADER
<1> QED
  BY <1>4, <1>6, <1>7

\* What is read from the headers of a file is what was written.
LEMMA HeadersAreReadBack ==
    ASSUME NEW bmfh, NEW bmih
    PROVE  /\ ReadFileHeader(Headers(bmfh, bmih)).bfOffBits = bmfh.bfOffBits
           /\ ReadInfoHeader(Headers(bmfh, bmih)).biWidth = bmih.biWidth
           /\ ReadInfoHeader(Headers(bmfh, bmih)).biHeight = bmih.biHeight
           /\ ReadInfoHeader(Headers(bmfh, bmih)).biBitCount = bmih.biBitCount
<1> DEFINE file == Headers(bmfh, bmih)
<1>1. /\ DOMAIN file = {0, 2, 6, 8, 10} \cup {14, 18, 22, 26, 28, 30}
      /\ file[10] = bmfh.bfOffBits
      /\ file[18] = bmih.biWidth /\ file[22] = bmih.biHeight /\ file[28] = bmih.biBitCount
  <2> DEFINE first == Written(BITMAPFILEHEADER, 0, bmfh)
             second == Written(BITMAPINFOHEADER, 14, bmih)
  <2>1. file = [at \in DOMAIN first \cup DOMAIN second |->
                   IF at \in DOMAIN first THEN first[at] ELSE second[at]]
    BY DEF Headers, FILEHEADSIZE
  <2>2. DOMAIN first = {0, 2, 6, 8, 10} /\ first[10] = bmfh.bfOffBits
    BY FileHeaderWritten
  <2>3. /\ DOMAIN second = {14, 18, 22, 26, 28, 30}
        /\ second[18] = bmih.biWidth /\ second[22] = bmih.biHeight
        /\ second[28] = bmih.biBitCount
    BY InfoHeaderWritten
  <2> HIDE DEF first, second
  <2> QED
    BY <2>1, <2>2, <2>3
<1> HIDE DEF file
<1>2. DOMAIN BITMAPFILEHEADER = 1 .. 5 /\ DOMAIN BITMAPINFOHEADER = 1 .. 6
  BY DEF BITMAPFILEHEADER, BITMAPINFOHEADER
<1>3. ReadFileHeader(file).bfOffBits = file[10]
  <2>1. (CHOOSE i \in 1 .. 5 : BITMAPFILEHEADER[i].name = "bfOffBits") = 5
    BY DEF BITMAPFILEHEADER
  <2>2. BITMAPFILEHEADER[5].name = "bfOffBits"
    BY DEF BITMAPFILEHEADER
  <2>3. Offset(BITMAPFILEHEADER, 0, 5) = 10
    BY FileHeaderLaidOut
  <2>4. 10 \in DOMAIN file
    BY <1>1
  <2> QED
    BY <1>2, <2>1, <2>2, <2>3, <2>4 DEF ReadFileHeader, Read
<1>4. ASSUME NEW i \in {2, 3, 5}
      PROVE  /\ (CHOOSE j \in 1 .. 6 : BITMAPINFOHEADER[j].name = BITMAPINFOHEADER[i].name) = i
             /\ Offset(BITMAPINFOHEADER, 14, i) \in DOMAIN file
             /\ ReadInfoHeader(file)[BITMAPINFOHEADER[i].name]
                = file[Offset(BITMAPINFOHEADER, 14, i)]
  <2>1. (CHOOSE j \in 1 .. 6 : BITMAPINFOHEADER[j].name = BITMAPINFOHEADER[i].name) = i
    BY <1>4 DEF BITMAPINFOHEADER
  <2>2. Offset(BITMAPINFOHEADER, 14, i) \in DOMAIN file
    BY <1>1, <1>4, InfoHeaderLaidOut
  <2>3. i \in 1 .. 6
    OBVIOUS
  <2> QED
    BY <1>2, <2>1, <2>2, <2>3 DEF ReadInfoHeader, Read
<1>5. /\ BITMAPINFOHEADER[2].name = "biWidth"
      /\ BITMAPINFOHEADER[3].name = "biHeight"
      /\ BITMAPINFOHEADER[5].name = "biBitCount"
  BY DEF BITMAPINFOHEADER
<1>6. /\ Offset(BITMAPINFOHEADER, 14, 2) = 18
      /\ Offset(BITMAPINFOHEADER, 14, 3) = 22
      /\ Offset(BITMAPINFOHEADER, 14, 5) = 28
  BY InfoHeaderLaidOut
<1> QED
  BY <1>1, <1>3, <1>4, <1>5, <1>6 DEF file

LEMMA QuotientIsUnique ==
    ASSUME NEW w \in Nat \ {0}, NEW q \in Int, NEW r \in 0 .. w - 1
    PROVE  (q * w + r) \div w = q /\ (q * w + r) % w = r
<1> DEFINE a == q * w + r
<1>1. a \in Int /\ r \in Int /\ w \in Int
  OBVIOUS
<1>2. a = r + q * w
  BY <1>1
<1>3. a % w = r
  BY <1>1, <1>2, RemainderIsUnique
<1>4. PICK d \in Int : d = a \div w /\ a = (w * d) + r
  BY <1>1, <1>3, Remainder
<1>5. d * w = q * w
  BY <1>1, <1>2, <1>4
<1>6. ~(d * w < q * w) /\ ~(q * w < d * w)
  BY <1>5
<1>7. d = q
  <2>1. \A x, y \in Int : x < y => x * w < y * w
    OBVIOUS
  <2> QED
    BY <1>4, <1>6, <2>1
<1> QED
  BY <1>3, <1>4, <1>7

\* A place in rows of w that follow each other, taken apart and put together.
LEMMA RowAndColumn ==
    ASSUME NEW w \in Nat \ {0}, NEW h \in Nat, NEW n \in 0 .. h * w - 1
    PROVE  /\ n \div w \in 0 .. h - 1
           /\ n % w \in 0 .. w - 1
           /\ n = (n \div w) * w + (n % w)
<1>1. h * w \in Nat /\ n \in Nat /\ n < h * w
  OBVIOUS
<1>2. n \div w \in 0 .. h - 1
  BY <1>1, WholeUnits
<1> QED
  BY <1>1, <1>2, Remainder

LEMMA ConcatIs ==
    ASSUME NEW S, NEW s \in Seq(S), NEW t \in Seq(S), NEW F \in Seq(S),
           Len(F) = Len(s) + Len(t),
           \A i \in 1 .. Len(s) : s[i] = F[i],
           \A i \in 1 .. Len(t) : t[i] = F[Len(s) + i]
    PROVE  s \o t = F
<1>1. s \o t \in Seq(S) /\ Len(s \o t) = Len(F)
  BY ConcatProperties
<1>2. Len(s) \in Nat /\ Len(t) \in Nat
  BY LenProperties
<1>3. ASSUME NEW i \in 1 .. Len(F)
      PROVE  (s \o t)[i] = F[i]
  <2>1. CASE i <= Len(s)
    BY <1>2, <2>1, ConcatProperties
  <2>2. CASE i > Len(s)
    <3>1. PICK j \in 1 .. Len(t) : j = i - Len(s)
      BY <1>2, <2>2
    <3>2. i = Len(s) + j
      BY <1>2, <3>1
    <3>3. t[j] = F[i]
      BY <3>2
    <3>4. (s \o t)[i] = t[i - Len(s)]
      BY <1>2, <2>2, ConcatProperties
    <3> QED
      BY <3>1, <3>3, <3>4
  <2> QED
    BY <1>2, <2>1, <2>2
<1> QED
  BY <1>1, <1>3, SeqEqual

-----------------------------------------------------------------------------
LEMMA LineOfBits ==
    ASSUME NEW width \in Nat \ {0}
    PROVE  /\ GetLineBytes(width, 1) \in Nat \ {0}
           /\ 8 * GetLineBytes(width, 1) - 8 < width
           /\ width <= 8 * GetLineBytes(width, 1)
           /\ \A w \in Int : shiftbits(w, width) =
                 IF w = GetLineBytes(width, 1) - 1
                 THEN width - 8 * (GetLineBytes(width, 1) - 1) ELSE 8
<1>1. GetLineBytes(width, 1) = (width + 7) \div 8
  BY DEF GetLineBytes
<1>2. PICK b \in Int : b = (width + 7) \div 8
  OBVIOUS
<1>3. 8 * b <= width + 7 /\ width + 7 < 8 * b + 8
  BY <1>2
<1>4. b \in Nat \ {0} /\ 8 * b - 8 < width /\ width <= 8 * b
  BY <1>3
<1>5. \A w \in Int : shiftbits(w, width) = IF w = b - 1 THEN width - 8 * (b - 1) ELSE 8
  BY <1>1, <1>2, <1>4 DEF shiftbits
<1> QED
  BY <1>1, <1>2, <1>4, <1>5

\* Bytes and bits.
Places == Int \X Int

\* Bit c of a row that begins at byte row.
Bit(row, width, c) ==
    <<row + (c \div 8), shiftbits(c \div 8, width) - 1 - (c % 8)>>

\* The bits of the bytes up to w.
BitsUpTo(row, width, w) ==
    [n \in 1 .. (IF w = GetLineBytes(width, 1) - 1 THEN width ELSE 8 * (w + 1)) |->
        Bit(row, width, n - 1)]

\* One unfolding of the recursion of RawRow.
BitsUnfolded(row, width, bitCount, f) ==
    [w \in -1 .. GetLineBytes(width, bitCount) - 1 |->
        IF w = -1 THEN <<>>
        ELSE f[w - 1] \o [i \in 1 .. shiftbits(w, width) |->
                             <<row + w, shiftbits(w, width) - i>>]]

LEMMA RawRowUnfolds ==
    ASSUME NEW h, NEW width, NEW height, NEW bitCount, bitCount = 1
    PROVE  RawRow(h, width, height, bitCount)
           = (CHOOSE f : f = BitsUnfolded(pRowAddr(h, width, height, bitCount), width, bitCount, f))
                 [GetLineBytes(width, bitCount) - 1]
  BY Zenon DEF RawRow, BitsUnfolded

LEMMA BitsUnfold ==
    ASSUME NEW row \in Int, NEW width \in Nat \ {0}
    PROVE  LET f == [w \in -1 .. GetLineBytes(width, 1) - 1 |-> BitsUpTo(row, width, w)]
           IN  f = BitsUnfolded(row, width, 1, f)
<1> DEFINE b == GetLineBytes(width, 1)
           f == [w \in -1 .. b - 1 |-> BitsUpTo(row, width, w)]
           block(w) == [i \in 1 .. shiftbits(w, width) |-> <<row + w, shiftbits(w, width) - i>>]
<1>0. /\ b \in Nat \ {0} /\ 8 * b - 8 < width /\ width <= 8 * b
      /\ \A w \in Int : shiftbits(w, width) = IF w = b - 1 THEN width - 8 * (b - 1) ELSE 8
  BY LineOfBits
<1> HIDE DEF b
<1>1. ASSUME NEW w \in -1 .. b - 1
      PROVE  f[w] = IF w = -1 THEN <<>> ELSE f[w - 1] \o block(w)
  <2>1. CASE w = -1
    <3>1. f[w] = [n \in 1 .. 8 * (w + 1) |-> Bit(row, width, n - 1)]
      BY <1>0, <2>1 DEF BitsUpTo, b
    <3>2. 1 .. 8 * (w + 1) = {}
      BY <2>1
    <3>3. f[w] = <<>>
      BY <3>1, <3>2, SMTT(30)
    <3> QED
      BY <2>1, <3>3
  <2>2. CASE w # -1
    <3> DEFINE k == shiftbits(w, width)
    <3>1. w \in Nat /\ w - 1 \in -1 .. b - 1 /\ w - 1 # b - 1
      BY <1>0, <2>2
    <3>2. k \in 1 .. 8 /\ k = (IF w = b - 1 THEN width - 8 * (b - 1) ELSE 8)
      BY <1>0, <3>1
    <3>3. f[w - 1] = [n \in 1 .. 8 * w |-> Bit(row, width, n - 1)]
      BY <1>0, <3>1 DEF BitsUpTo, b
    <3>4. f[w] = [n \in 1 .. 8 * w + k |-> Bit(row, width, n - 1)]
      <4>1. (IF w = b - 1 THEN width ELSE 8 * (w + 1)) = 8 * w + k
        BY <1>0, <3>1, <3>2
      <4> QED
        BY <4>1 DEF BitsUpTo, b
    <3>5. ASSUME NEW c \in Nat
          PROVE  Bit(row, width, c) \in Places
      <4>1. c \div 8 \in Int /\ c % 8 \in Int
        OBVIOUS
      <4>2. shiftbits(c \div 8, width) \in Int
        BY <1>0, <4>1
      <4> QED
        BY <4>1, <4>2 DEF Bit, Places
    <3>6. \A i \in 1 .. k : block(w)[i] = Bit(row, width, 8 * w + i - 1)
      <4> SUFFICES ASSUME NEW i \in 1 .. k
                   PROVE  block(w)[i] = Bit(row, width, 8 * w + i - 1)
        OBVIOUS
      <4> DEFINE c == 8 * w + i - 1
      <4>1. c \div 8 = w /\ c % 8 = i - 1
        BY <3>1, <3>2
      <4>2. Bit(row, width, c) = <<row + w, k - 1 - (i - 1)>>
        BY <4>1 DEF Bit
      <4>3. k - 1 - (i - 1) = k - i
        BY <3>2
      <4> QED
        BY <4>2, <4>3
    <3>7. block(w) \in [1 .. k -> Places]
      BY <3>1, <3>2 DEF Places
    <3>8. f[w - 1] \in [1 .. 8 * w -> Places]
      BY <3>1, <3>3, <3>5
    <3>9. PICK s, t : s = f[w - 1] /\ t = block(w)
      OBVIOUS
    <3> HIDE DEF f, block, k
    <3>10. PICK m \in Nat : m = 8 * w
      BY <3>1
    <3> DEFINE F == [i \in 1 .. m + k |-> Bit(row, width, i - 1)]
    <3>11. F \in [1 .. m + k -> Places] /\ k \in Nat
      BY <3>2, <3>5, <3>10
    <3>12. s \in [1 .. m -> Places] /\ t \in [1 .. k -> Places]
      BY <3>7, <3>8, <3>9, <3>10
    <3>13. ASSUME NEW i \in 1 .. m
           PROVE  s[i] = F[i]
      <4>1. s = [n \in 1 .. m |-> Bit(row, width, n - 1)]
        BY <3>3, <3>9, <3>10
      <4>2. s[i] = Bit(row, width, i - 1)
        BY <4>1
      <4>3. i \in 1 .. m + k
        BY <3>2
      <4> QED
        BY <4>2, <4>3
    <3>14. \A i \in 1 .. k : t[i] = F[m + i]
      BY <3>2, <3>6, <3>9, <3>10
    <3>15. s \o t = F
      <4> HIDE DEF F
      <4> QED
        <5>1. s \in Seq(Places) /\ Len(s) = m
          BY <3>12, SeqDef
        <5>2. t \in Seq(Places) /\ Len(t) = k
          BY <3>11, <3>12, SeqDef
        <5>3. F \in Seq(Places) /\ Len(F) = m + k
          BY <3>11, SeqDef
        <5> QED
          BY <5>1, <5>2, <5>3, <3>13, <3>14, ConcatIs
    <3> QED
      BY <2>2, <3>4, <3>9, <3>10, <3>15
  <2> QED
    BY <2>1, <2>2
<1> QED
  BY <1>1 DEF BitsUnfolded, b

LEMMA BitsAreUnique ==
    ASSUME NEW row, NEW width \in Nat \ {0}, NEW f, NEW g,
           f = BitsUnfolded(row, width, 1, f), g = BitsUnfolded(row, width, 1, g)
    PROVE  f = g
<1> DEFINE b == GetLineBytes(width, 1)
           Differ == {k \in 0 .. b : f[k - 1] # g[k - 1]}
<1>0. b \in Nat
  BY LineOfBits
<1>1. ASSUME NEW w \in -1 .. b - 1, NEW h, h = BitsUnfolded(row, width, 1, h)
      PROVE  h[w] = IF w = -1 THEN <<>>
                    ELSE h[w - 1] \o [i \in 1 .. shiftbits(w, width) |->
                                         <<row + w, shiftbits(w, width) - i>>]
  BY <1>1 DEF BitsUnfolded
<1> HIDE DEF b
<1>2. Differ = {}
  <2> SUFFICES ASSUME Differ # {} PROVE FALSE
    OBVIOUS
  <2>1. Differ \in SUBSET Nat
    BY <1>0
  <2>2. PICK k \in Differ : \A x \in Differ : k <= x
    <3> HIDE DEF Differ
    <3> QED
      BY <2>1, LeastExists
  <2>3. k \in 0 .. b /\ k \in Nat /\ f[k - 1] # g[k - 1]
    BY <1>0, <2>2
  <2>4. k - 1 \in -1 .. b - 1
    BY <1>0, <2>3
  <2>5. k # 0
    <3> SUFFICES ASSUME k = 0 PROVE FALSE
      OBVIOUS
    <3>1. -1 \in -1 .. b - 1 /\ k - 1 = -1
      BY <2>4
    <3>2. f[-1] = <<>>
      BY <1>1, <3>1
    <3>3. g[-1] = <<>>
      BY <1>1, <3>1
    <3> QED
      BY <2>3, <3>1, <3>2, <3>3
  <2>6. k - 1 \in 0 .. b /\ ~(k <= k - 1) /\ k - 1 # -1
    BY <1>0, <2>3, <2>5
  <2>7. f[k - 1 - 1] = g[k - 1 - 1]
    <3>1. k - 1 \notin Differ
      BY <2>2, <2>6
    <3> QED
      BY <2>6, <3>1
  <2> DEFINE block == [i \in 1 .. shiftbits(k - 1, width) |->
                          <<row + (k - 1), shiftbits(k - 1, width) - i>>]
  <2>8. f[k - 1] = f[k - 1 - 1] \o block /\ g[k - 1] = g[k - 1 - 1] \o block
    BY <1>1, <2>4, <2>6
  <2> HIDE DEF block
  <2> QED
    BY <2>3, <2>7, <2>8
<1>3. \A w \in -1 .. b - 1 : f[w] = g[w]
  <2> SUFFICES ASSUME NEW w \in -1 .. b - 1 PROVE f[w] = g[w]
    OBVIOUS
  <2>1. w + 1 \in 0 .. b /\ w + 1 - 1 = w
    BY <1>0
  <2>2. w + 1 \notin Differ
    BY <1>2
  <2> QED
    BY <2>1, <2>2
<1>4. f = [w \in -1 .. b - 1 |-> f[w]] /\ g = [w \in -1 .. b - 1 |-> g[w]]
  BY DEF BitsUnfolded, b
<1> QED
  BY <1>3, <1>4

\* Where the value for column c of row h is taken from, columns from 0.
Place(h, c, width, height, bitCount) ==
    LET row == pRowAddr(h, width, height, bitCount)
    IN  IF bitCount = 1 THEN Bit(row, width, c) ELSE <<row + 4 * c, 8>>

LEMMA LineBytesAreNatural ==
    ASSUME NEW width \in Nat \ {0}, NEW bitCount \in {1, 8, 32}
    PROVE  GetLineBytes(width, bitCount) \in Nat
<1>1. CASE bitCount = 1
  BY <1>1, LineOfBits
<1>2. CASE bitCount # 1
  <2>1. PICK x \in Nat : x = width * bitCount + 31
    OBVIOUS
  <2>2. x \div 32 \in Nat
    OBVIOUS
  <2>3. GetLineBytes(width, bitCount) = (x \div 32) * 4
    BY <1>2, <2>1 DEF GetLineBytes
  <2> QED
    BY <2>2, <2>3
<1> QED
  BY <1>1, <1>2

LEMMA RawRowIs ==
    ASSUME NEW width \in Nat \ {0}, NEW height \in Nat \ {0}, NEW bitCount \in {1, 8, 32},
           NEW h \in 0 .. height - 1
    PROVE  RawRow(h, width, height, bitCount)
           = [n \in 1 .. width |-> Place(h, n - 1, width, height, bitCount)]
<1> DEFINE row == pRowAddr(h, width, height, bitCount)
           b == GetLineBytes(width, bitCount)
<1>1. row \in Int
  BY LineBytesAreNatural DEF pRowAddr
<1>2. CASE bitCount = 1
  <2> DEFINE f == CHOOSE g : g = BitsUnfolded(row, width, bitCount, g)
             g == [w \in -1 .. b - 1 |-> BitsUpTo(row, width, w)]
  <2>1. RawRow(h, width, height, bitCount) = f[b - 1]
    BY <1>2, RawRowUnfolds
  <2>2. g = BitsUnfolded(row, width, bitCount, g)
    <3> HIDE DEF row
    <3> QED
      BY <1>1, <1>2, BitsUnfold
  <2>3. f = BitsUnfolded(row, width, bitCount, f)
    <3> HIDE DEF g
    <3> QED
      BY <2>2
  <2>4. f = g
    <3> HIDE DEF row, f, g
    <3> QED
      BY <1>2, <2>2, <2>3, BitsAreUnique
  <2>5. b \in Nat /\ b - 1 \in -1 .. b - 1 /\ b = GetLineBytes(width, 1)
    <3>1. b = GetLineBytes(width, 1) /\ b \in Nat \ {0}
      BY <1>2, LineOfBits
    <3> HIDE DEF b
    <3> QED
      BY <3>1
  <2>6. g[b - 1] = [n \in 1 .. width |-> Bit(row, width, n - 1)]
    <3> HIDE DEF row, b
    <3> QED
      BY <2>5 DEF BitsUpTo
  <2> HIDE DEF f, g
  <2> QED
    BY <1>2, <2>1, <2>4, <2>6 DEF Place
<1>3. CASE bitCount # 1
  BY <1>3 DEF RawRow, Place
<1> QED
  BY <1>2, <1>3

LEMMA PlaceIsInFile ==
    ASSUME NEW width \in Nat \ {0}, NEW height \in Nat \ {0}, NEW bitCount \in {1, 8, 32},
           NEW h \in 0 .. height - 1, NEW c \in 0 .. width - 1
    PROVE  Place(h, c, width, height, bitCount) \in Places
<1>1. pRowAddr(h, width, height, bitCount) \in Int
  BY LineBytesAreNatural DEF pRowAddr
<1>2. c \div 8 \in Int /\ c % 8 \in Int
  OBVIOUS
<1>3. shiftbits(c \div 8, width) \in Int
  BY <1>2, LineOfBits
<1> QED
  BY <1>1, <1>2, <1>3 DEF Place, Places, Bit

\* The values of the rows up to h.
RawUpTo(width, height, bitCount, h) ==
    [n \in 1 .. (h + 1) * width |->
        Place((n - 1) \div width, (n - 1) % width, width, height, bitCount)]

RawOfRows(width, height, bitCount) ==
    [h \in -1 .. height - 1 |-> RawUpTo(width, height, bitCount, h)]

\* One unfolding of the recursion of ReadPixelData.
RawUnfolded(width, height, bitCount, f) ==
    [h \in -1 .. height - 1 |->
        IF h = -1 THEN <<>> ELSE f[h - 1] \o RawRow(h, width, height, bitCount)]

LEMMA RawUnfold ==
    ASSUME NEW width \in Nat \ {0}, NEW height \in Nat \ {0}, NEW bitCount \in {1, 8, 32}
    PROVE  RawOfRows(width, height, bitCount)
           = RawUnfolded(width, height, bitCount, RawOfRows(width, height, bitCount))
<1> DEFINE P(h, c) == Place(h, c, width, height, bitCount)
           f == RawOfRows(width, height, bitCount)
<1>1. ASSUME NEW h \in 0 .. height - 1, NEW c \in 0 .. width - 1 PROVE P(h, c) \in Places
  BY PlaceIsInFile
<1>2. \A h \in 0 .. height - 1 :
         RawRow(h, width, height, bitCount) = [n \in 1 .. width |-> P(h, n - 1)]
  BY RawRowIs
<1>3. \A h \in -1 .. height - 1 :
         f[h] = [n \in 1 .. (h + 1) * width |-> P((n - 1) \div width, (n - 1) % width)]
  BY DEF RawUpTo, RawOfRows
<1> HIDE DEF P, f
<1>4. ASSUME NEW h \in -1 .. height - 1
      PROVE  f[h] = IF h = -1 THEN <<>> ELSE f[h - 1] \o RawRow(h, width, height, bitCount)
  <2>1. CASE h = -1
    <3>1. (h + 1) * width = 0
      BY <2>1
    <3>2. f[h] = [n \in 1 .. 0 |-> P((n - 1) \div width, (n - 1) % width)]
      BY <1>3, <3>1
    <3>3. f[h] = <<>>
      BY <3>2
    <3> QED
      BY <2>1, <3>3
  <2>2. CASE h # -1
    <3>1. h \in 0 .. height - 1 /\ h \in Nat /\ h - 1 \in -1 .. height - 1 /\ h - 1 + 1 = h
      BY <2>2
    <3>2. PICK m \in Nat : m = h * width
      BY <3>1
    <3>3. (h + 1) * width = m + width
      BY <3>1, <3>2
    <3>4. PICK s, t, F : /\ s = f[h - 1]
                         /\ t = RawRow(h, width, height, bitCount)
                         /\ F = f[h]
      OBVIOUS
    <3>5. s = [n \in 1 .. m |-> P((n - 1) \div width, (n - 1) % width)]
      BY <1>3, <3>1, <3>2, <3>4
    <3>6. t = [n \in 1 .. width |-> P(h, n - 1)]
      BY <1>2, <3>1, <3>4
    <3>7. F = [n \in 1 .. m + width |-> P((n - 1) \div width, (n - 1) % width)]
      BY <1>3, <3>3, <3>4
    <3>8. ASSUME NEW n \in 1 .. m + width
          PROVE  P((n - 1) \div width, (n - 1) % width) \in Places
      <4>1. PICK k \in Nat : k = h + 1
        BY <3>1
      <4>2. n - 1 \in 0 .. k * width - 1
        BY <3>3, <4>1
      <4>3. (n - 1) \div width \in 0 .. k - 1 /\ (n - 1) % width \in 0 .. width - 1
        BY <4>2, RowAndColumn
      <4>4. (n - 1) \div width \in 0 .. height - 1
        BY <3>1, <4>1, <4>3
      <4> QED
        BY <1>1, <4>3, <4>4
    <3>9. ASSUME NEW i \in 1 .. width PROVE t[i] = F[m + i]
      <4>1. m + i - 1 = h * width + (i - 1) /\ i - 1 \in 0 .. width - 1
        BY <3>1, <3>2
      <4>2. (m + i - 1) \div width = h /\ (m + i - 1) % width = i - 1
        BY <3>1, <4>1, QuotientIsUnique
      <4>3. m + i \in 1 .. m + width
        OBVIOUS
      <4> QED
        BY <3>6, <3>7, <4>2, <4>3
    <3>10. \A i \in 1 .. m : s[i] = F[i]
      BY <3>5, <3>7
    <3>11. s \in Seq(Places) /\ Len(s) = m
      <4>1. \A n \in 1 .. m : n \in 1 .. m + width
        OBVIOUS
      <4>2. s \in [1 .. m -> Places]
        BY <3>5, <3>8, <4>1
      <4> QED
        BY <4>2, SeqDef
    <3>12. t \in Seq(Places) /\ Len(t) = width
      <4>1. \A n \in 1 .. width : n - 1 \in 0 .. width - 1
        OBVIOUS
      <4>2. t \in [1 .. width -> Places]
        BY <1>1, <3>1, <3>6, <4>1
      <4> QED
        BY <4>2, SeqDef
    <3>13. F \in Seq(Places) /\ Len(F) = m + width
      <4>1. F \in [1 .. m + width -> Places]
        BY <3>7, <3>8
      <4> QED
        BY <4>1, SeqDef
    <3>14. s \o t = F
      BY <3>9, <3>10, <3>11, <3>12, <3>13, ConcatIs
    <3> QED
      BY <2>2, <3>4, <3>14
  <2> QED
    BY <2>1, <2>2
<1> QED
  BY <1>4 DEF RawUnfolded, RawOfRows, f

LEMMA RawIsUnique ==
    ASSUME NEW width, NEW height \in Nat, NEW bitCount, NEW f, NEW g,
           f = RawUnfolded(width, height, bitCount, f),
           g = RawUnfolded(width, height, bitCount, g)
    PROVE  f = g
<1> DEFINE Differ == {k \in 0 .. height : f[k - 1] # g[k - 1]}
<1>1. ASSUME NEW h \in -1 .. height - 1, NEW r, r = RawUnfolded(width, height, bitCount, r)
      PROVE  r[h] = IF h = -1 THEN <<>> ELSE r[h - 1] \o RawRow(h, width, height, bitCount)
  BY <1>1 DEF RawUnfolded
<1>2. Differ = {}
  <2> SUFFICES ASSUME Differ # {} PROVE FALSE
    OBVIOUS
  <2>1. Differ \in SUBSET Nat
    OBVIOUS
  <2>2. PICK k \in Differ : \A x \in Differ : k <= x
    <3> HIDE DEF Differ
    <3> QED
      BY <2>1, LeastExists
  <2>3. k \in 0 .. height /\ k \in Nat /\ f[k - 1] # g[k - 1]
    BY <2>2
  <2>4. k - 1 \in -1 .. height - 1
    BY <2>3
  <2>5. k # 0
    <3> SUFFICES ASSUME k = 0 PROVE FALSE
      OBVIOUS
    <3>1. -1 \in -1 .. height - 1 /\ k - 1 = -1
      BY <2>4
    <3>2. f[-1] = <<>>
      BY <1>1, <3>1
    <3>3. g[-1] = <<>>
      BY <1>1, <3>1
    <3> QED
      BY <2>3, <3>1, <3>2, <3>3
  <2>6. k - 1 \in 0 .. height /\ ~(k <= k - 1) /\ k - 1 # -1
    BY <2>3, <2>5
  <2>7. f[k - 1 - 1] = g[k - 1 - 1]
    <3>1. k - 1 \notin Differ
      BY <2>2, <2>6
    <3> QED
      BY <2>6, <3>1
  <2> DEFINE row == RawRow(k - 1, width, height, bitCount)
  <2>8. f[k - 1] = f[k - 1 - 1] \o row /\ g[k - 1] = g[k - 1 - 1] \o row
    BY <1>1, <2>4, <2>6
  <2> HIDE DEF row
  <2> QED
    BY <2>3, <2>7, <2>8
<1>3. \A h \in -1 .. height - 1 : f[h] = g[h]
  <2> SUFFICES ASSUME NEW h \in -1 .. height - 1 PROVE f[h] = g[h]
    OBVIOUS
  <2>1. h + 1 \in 0 .. height /\ h + 1 - 1 = h
    OBVIOUS
  <2>2. h + 1 \notin Differ
    BY <1>2
  <2> QED
    BY <2>1, <2>2
<1>4. f = [h \in -1 .. height - 1 |-> f[h]] /\ g = [h \in -1 .. height - 1 |-> g[h]]
  BY DEF RawUnfolded
<1> QED
  BY <1>3, <1>4

LEMMA ReadPixelDataUnfolds ==
    ASSUME NEW file
    PROVE  LET bmih == ReadInfoHeader(file)
           IN  ReadPixelData(file) =
                 [width |-> bmih.biWidth, height |-> bmih.biHeight,
                  bitCount |-> bmih.biBitCount, start |-> ReadFileHeader(file).bfOffBits,
                  raw |-> (CHOOSE f : f = RawUnfolded(bmih.biWidth, bmih.biHeight,
                                                      bmih.biBitCount, f))[bmih.biHeight - 1]]
  BY Zenon DEF ReadPixelData, RawUnfolded

\* What get_data reads, written out.
LEMMA PixelsAreRead ==
    ASSUME NEW bmfh, NEW bmih, NEW width \in Nat \ {0}, NEW height \in Nat \ {0},
           NEW bitCount \in {1, 8, 32},
           bmih.biWidth = width, bmih.biHeight = height, bmih.biBitCount = bitCount
    PROVE  ReadPixelData(Headers(bmfh, bmih)) =
              [width |-> width, height |-> height, bitCount |-> bitCount,
               start |-> bmfh.bfOffBits, raw |-> RawUpTo(width, height, bitCount, height - 1)]
<1> DEFINE file == Headers(bmfh, bmih)
           f == CHOOSE g : g = RawUnfolded(width, height, bitCount, g)
           g == RawOfRows(width, height, bitCount)
<1>1. /\ ReadFileHeader(file).bfOffBits = bmfh.bfOffBits
      /\ ReadInfoHeader(file).biWidth = width /\ ReadInfoHeader(file).biHeight = height
      /\ ReadInfoHeader(file).biBitCount = bitCount
  BY HeadersAreReadBack
<1>2. ReadPixelData(file) =
         [width |-> width, height |-> height, bitCount |-> bitCount,
          start |-> bmfh.bfOffBits, raw |-> f[height - 1]]
  <2> HIDE DEF file
  <2> QED
    BY <1>1, ReadPixelDataUnfolds
<1>3. g = RawUnfolded(width, height, bitCount, g)
  BY RawUnfold
<1>4. f = RawUnfolded(width, height, bitCount, f)
  <2> HIDE DEF g
  <2> QED
    BY <1>3
<1>5. f = g
  <2> HIDE DEF f, g
  <2>1. height \in Nat
    OBVIOUS
  <2> QED
    BY <1>3, <1>4, <2>1, RawIsUnique
<1>6. height - 1 \in -1 .. height - 1
  OBVIOUS
<1>7. g[height - 1] = RawUpTo(width, height, bitCount, height - 1)
  BY <1>6 DEF RawOfRows
<1> HIDE DEF f, g, file
<1> QED
  BY <1>2, <1>5, <1>7 DEF file

\* raw is filled exactly, each value with the place of its pixel.
HoldsThePlaces(raw, width, height, bitCount) ==
    /\ DOMAIN raw = 1 .. width * height
    /\ raw \in Seq(Places)
    /\ \A n \in DOMAIN raw : \E h \in 0 .. height - 1, c \in 0 .. width - 1 :
          raw[n] = Place(h, c, width, height, bitCount)
    /\ \A h \in 0 .. height - 1, c \in 0 .. width - 1 :
          raw[h * width + c + 1] = Place(h, c, width, height, bitCount)

LEMMA RawIs ==
    ASSUME NEW width \in Nat \ {0}, NEW height \in Nat \ {0}, NEW bitCount \in {1, 8, 32},
           NEW raw, raw = RawUpTo(width, height, bitCount, height - 1)
    PROVE  HoldsThePlaces(raw, width, height, bitCount)
<1> DEFINE P(h, c) == Place(h, c, width, height, bitCount)
<1>1. PICK size \in Nat : size = height * width /\ size = width * height
  OBVIOUS
<1>2. raw = [n \in 1 .. size |-> P((n - 1) \div width, (n - 1) % width)]
  BY <1>1 DEF RawUpTo
<1>3. \A h \in 0 .. height - 1, c \in 0 .. width - 1 : P(h, c) \in Places
  BY PlaceIsInFile
<1> HIDE DEF P
<1>4. ASSUME NEW n \in 1 .. size
      PROVE  (n - 1) \div width \in 0 .. height - 1 /\ (n - 1) % width \in 0 .. width - 1
  <2>1. n - 1 \in 0 .. height * width - 1
    BY <1>1
  <2> QED
    BY <2>1, RowAndColumn
<1>5. raw \in [1 .. size -> Places]
  BY <1>2, <1>3, <1>4
<1>6. ASSUME NEW h \in 0 .. height - 1, NEW c \in 0 .. width - 1
      PROVE  raw[h * width + c + 1] = P(h, c)
  <2>1. PICK n \in Int : n = h * width + c
    OBVIOUS
  <2>2. n \div width = h /\ n % width = c
    <3>1. h \in Int /\ c \in 0 .. width - 1
      OBVIOUS
    <3> QED
      BY Zenon, <2>1, <3>1, QuotientIsUnique
  <2>3. n + 1 \in 1 .. size
    <3>1. h * width \in Nat /\ (h + 1) * width = h * width + width
      OBVIOUS
    <3>2. (h + 1) * width <= height * width
      <4>1. \A x, y \in Nat : x <= y => x * width <= y * width
        OBVIOUS
      <4>2. h + 1 \in Nat /\ height \in Nat /\ h + 1 <= height
        OBVIOUS
      <4> QED
        BY <4>1, <4>2
    <3> QED
      BY <1>1, <2>1, <3>1, <3>2
  <2>4. PICK k \in 1 .. size : k = n + 1 /\ k - 1 = n
    BY <2>3
  <2>5. raw[k] = P(n \div width, n % width)
    BY <1>2, <2>4
  <2>6. k = h * width + c + 1
    BY <2>1, <2>4
  <2> QED
    BY <2>2, <2>5, <2>6
<1>7. \A n \in 1 .. size : \E h \in 0 .. height - 1, c \in 0 .. width - 1 : raw[n] = P(h, c)
  BY <1>2, <1>4
<1>8. DOMAIN raw = 1 .. size /\ raw \in Seq(Places)
  BY <1>5, SeqDef
<1> QED
  BY <1>1, <1>6, <1>7, <1>8 DEF P, HoldsThePlaces

-----------------------------------------------------------------------------
LEMMA LineOfBytes ==
    ASSUME NEW width \in Nat \ {0}
    PROVE  /\ GetLineBytes(width, 32) = 4 * width
           /\ Stride(width, 32) = 4 * width
           /\ width % 32 = 0 => Stride(width, 1) = GetLineBytes(width, 1)
           /\ width % 4 = 0 => Stride(width, 8) = width
<1>1. (width * 32 + 31) \div 32 = width
  OBVIOUS
<1>2. GetLineBytes(width, 32) = 4 * width /\ Stride(width, 32) = 4 * width
  BY <1>1 DEF GetLineBytes, Stride
<1>3. ASSUME width % 32 = 0 PROVE Stride(width, 1) = GetLineBytes(width, 1)
  <2>1. PICK q \in Nat : width = 32 * q
    BY <1>3
  <2>2. (width * 1 + 31) \div 32 = q /\ (width + 7) \div 8 = 4 * q
    BY <2>1
  <2> QED
    BY <2>2 DEF Stride, GetLineBytes
<1>4. ASSUME width % 4 = 0 PROVE Stride(width, 8) = width
  <2>1. PICK q \in Nat : width = 4 * q
    BY <1>4
  <2>2. (width * 8 + 31) \div 32 = q
    BY <2>1
  <2> QED
    BY <2>1, <2>2 DEF Stride
<1> QED
  BY <1>2, <1>3, <1>4

\* Nothing is read past the rows.
LEMMA PlaceIsWithin ==
    ASSUME NEW width \in Nat \ {0}, NEW height \in Nat \ {0}, NEW bitCount \in {1, 32},
           NEW h \in 0 .. height - 1, NEW c \in 0 .. width - 1
    PROVE  Place(h, c, width, height, bitCount)[1]
           \in 0 .. GetLineBytes(width, bitCount) * height - 1
<1> DEFINE L == GetLineBytes(width, bitCount)
<1>1. PICK q \in 0 .. height - 1 : q = height - 1 - h
  OBVIOUS
<1>2. L \in Nat /\ pRowAddr(h, width, height, bitCount) = L * q
  BY <1>1, LineBytesAreNatural DEF pRowAddr
<1>3. PICK x \in 0 .. L - 1 : Place(h, c, width, height, bitCount)[1] = L * q + x
  <2>1. CASE bitCount = 1
    <3>1. width <= 8 * L
      BY <2>1, LineOfBits
    <3>2. c \div 8 \in 0 .. L - 1
      <4> HIDE DEF L
      <4> QED
        BY <1>2, <3>1
    <3>3. Place(h, c, width, height, bitCount)[1] = L * q + (c \div 8)
      BY <1>2, <2>1 DEF Place, Bit
    <3> QED
      BY <3>2, <3>3
  <2>2. CASE bitCount = 32
    <3>1. L = 4 * width
      BY <2>2, LineOfBytes
    <3>2. 4 * c \in 0 .. L - 1
      BY <3>1
    <3>3. Place(h, c, width, height, bitCount)[1] = L * q + 4 * c
      BY <1>2, <2>2 DEF Place
    <3> QED
      BY <3>2, <3>3
  <2> QED
    BY <2>1, <2>2
<1> HIDE DEF L
<1>4. \A y \in Nat : y <= height => L * y <= L * height
  BY <1>2
<1>5. q + 1 \in Nat /\ q + 1 <= height /\ L * (q + 1) = L * q + L
  BY <1>1, <1>2
<1>6. L * q + L <= L * height /\ L * q \in Nat /\ L * height \in Nat
  BY <1>2, <1>4, <1>5
<1>7. L * q + x \in 0 .. L * height - 1
  BY <1>2, <1>3, <1>6
<1> QED
  BY <1>3, <1>7 DEF L

LEMMA PlaceIsAsTheFormatSays ==
    ASSUME NEW width \in Nat \ {0}, NEW height \in Nat \ {0}, NEW bitCount \in {1, 32},
           NEW h \in 0 .. height - 1, NEW c \in 0 .. width - 1,
           bitCount = 1 => width % 32 = 0
    PROVE  Place(h, c, width, height, bitCount) = PlaceInFile(h, c, width, height, bitCount)
<1>1. CASE bitCount = 32
  <2>1. GetLineBytes(width, 32) = 4 * width /\ Stride(width, 32) = 4 * width
    BY LineOfBytes
  <2>2. 32 \div 8 = 4 /\ 4 * c = c * 4
    OBVIOUS
  <2> QED
    BY <1>1, <2>1, <2>2 DEF Place, PlaceInFile, pRowAddr
<1>2. CASE bitCount = 1
  <2>1. Stride(width, 1) = GetLineBytes(width, 1)
    BY <1>2, LineOfBytes
  <2>2. GetLineBytes(width, 1) \in Nat /\ width = 8 * GetLineBytes(width, 1)
    <3>1. PICK q \in Nat : width = 32 * q
      BY <1>2
    <3>2. (width + 7) \div 8 = 4 * q
      BY <3>1
    <3> QED
      BY <3>1, <3>2 DEF GetLineBytes
  <2>3. c \div 8 \in Int /\ shiftbits(c \div 8, width) = 8
    BY <2>2 DEF shiftbits
  <2>4. 8 - 1 - (c % 8) = 7 - (c % 8)
    OBVIOUS
  <2> QED
    BY <1>2, <2>1, <2>3, <2>4 DEF Place, PlaceInFile, pRowAddr, Bit
<1> QED
  BY <1>1, <1>2

LEMMA get_dataIsRight ==
    ASSUME NEW bmfh, NEW bmih, NEW width \in Nat \ {0}, NEW height \in Nat \ {0},
           bmih.biWidth = width, bmih.biHeight = height, bmih.biBitCount \in {1, 8, 32},
           get_data(bmfh, bmih)
    PROVE  FillsRaw' /\ ReadsTheFormat' /\ WritesTheFormat'
<1>1. CASE bmp' = [call |-> "none"]
  BY <1>1 DEF FillsRaw, ReadsTheFormat, WritesTheFormat
<1>2. CASE bmp' = [call |-> "get_data", bmfh |-> bmfh, bmih |-> bmih,
                   got |-> ReadPixelData(Headers(bmfh, bmih))]
  <2>1. PICK bitCount \in {1, 8, 32} : bitCount = bmih.biBitCount
    OBVIOUS
  <2>2. PICK raw : raw = RawUpTo(width, height, bitCount, height - 1)
    OBVIOUS
  <2>3. ReadPixelData(Headers(bmfh, bmih)) =
           [width |-> width, height |-> height, bitCount |-> bitCount,
            start |-> bmfh.bfOffBits, raw |-> raw]
    BY <2>1, <2>2, PixelsAreRead
  <2>4. bmp'.call = "get_data" /\ bmp'.bmfh = bmfh /\ bmp'.bmih = bmih
    BY <1>2
  <2>5. /\ bmp'.got.width = width /\ bmp'.got.height = height
        /\ bmp'.got.bitCount = bitCount /\ bmp'.got.start = bmfh.bfOffBits
        /\ bmp'.got.raw = raw
    BY <1>2, <2>3
  <2>6. HoldsThePlaces(raw, width, height, bitCount)
    BY <2>2, RawIs
  <2>7. /\ DOMAIN raw = 1 .. width * height /\ raw \in Seq(Places)
        /\ \A n \in DOMAIN raw : \E h \in 0 .. height - 1, c \in 0 .. width - 1 :
              raw[n] = Place(h, c, width, height, bitCount)
        /\ \A h \in 0 .. height - 1, c \in 0 .. width - 1 :
              raw[h * width + c + 1] = Place(h, c, width, height, bitCount)
    BY <2>6 DEF HoldsThePlaces
  <2>8. Len(raw) = width * height
    <3>1. width * height \in Nat
      OBVIOUS
    <3> QED
      BY <2>7, <3>1, LenProperties
  <2>9. FillsRaw'
    <3> SUFFICES ASSUME bitCount \in {1, 32}
                 PROVE  \A n \in DOMAIN raw :
                           raw[n][1] \in 0 .. GetLineBytes(width, bitCount) * height - 1
      BY <2>1, <2>4, <2>5, <2>8 DEF FillsRaw
    <3> TAKE n \in DOMAIN raw
    <3>1. PICK h \in 0 .. height - 1, c \in 0 .. width - 1 :
             raw[n] = Place(h, c, width, height, bitCount)
      BY <2>7
    <3> QED
      BY <3>1, PlaceIsWithin
  <2>10. ReadsTheFormat'
    <3> SUFFICES ASSUME bitCount = 32 \/ (bitCount = 1 /\ width % 32 = 0),
                        NEW row \in 0 .. height - 1, NEW col \in 0 .. width - 1
                 PROVE  raw[row * width + col + 1]
                        = PlaceInFile(row, col, width, height, bitCount)
      BY <2>1, <2>4, <2>5 DEF ReadsTheFormat
    <3>1. raw[row * width + col + 1] = Place(row, col, width, height, bitCount)
      BY <2>7
    <3>2. Place(row, col, width, height, bitCount)
          = PlaceInFile(row, col, width, height, bitCount)
      BY PlaceIsAsTheFormatSays
    <3> QED
      BY <3>1, <3>2
  <2>11. WritesTheFormat'
    BY <2>4 DEF WritesTheFormat
  <2> QED
    BY <2>9, <2>10, <2>11
<1> QED
  BY <1>1, <1>2 DEF get_data

LEMMA encode_bmpIsRight ==
    ASSUME NEW width \in Nat \ {0}, NEW height \in Nat \ {0}, encode_bmp(width, height)
    PROVE  FillsRaw' /\ ReadsTheFormat' /\ WritesTheFormat'
<1>1. /\ bmp'.call = "encode"
      /\ bmp'.bmfh = WriteFileHeader(width, height)
      /\ bmp'.bmih = WriteInfoHeader(width, height)
      /\ bmp'.pixels = WritePixels(width, height)
  BY DEF encode_bmp
<1>2. FillsRaw' /\ ReadsTheFormat'
  BY <1>1 DEF FillsRaw, ReadsTheFormat
<1>3. ASSUME width % 4 = 0
      PROVE  /\ bmp'.bmfh.bfSize = bmp'.bmfh.bfOffBits + Stride(width, 8) * height
             /\ \A row \in 0 .. height - 1, col \in 0 .. width - 1 :
                   bmp'.pixels[PlaceInFile(row, col, width, height, 8)[1]] = row * width + col
  <2>1. Stride(width, 8) = width
    BY <1>3, LineOfBytes
  <2>2. bmp'.bmfh.bfSize = bmp'.bmfh.bfOffBits + Stride(width, 8) * height
    BY <1>1, <2>1 DEF WriteFileHeader, FILEHEADSIZE, INFOHEADSIZE, ClrTableSize
  <2>3. ASSUME NEW row \in 0 .. height - 1, NEW col \in 0 .. width - 1
        PROVE  bmp'.pixels[PlaceInFile(row, col, width, height, 8)[1]] = row * width + col
    <3>1. PICK q \in 0 .. height - 1 : q = height - 1 - row
      OBVIOUS
    <3>2. PICK k \in Int : k = q * width + col
      OBVIOUS
    <3>3. PlaceInFile(row, col, width, height, 8)[1] = k
      <4>1. width * (height - 1 - row) + col * (8 \div 8) = k
        BY <3>1, <3>2
      <4> QED
        BY <2>1, <4>1 DEF PlaceInFile
    <3>4. k \div width = q /\ k % width = col
      BY <3>2, QuotientIsUnique
    <3>5. k \in 0 .. width * height - 1
      <4>1. q * width \in Nat /\ (q + 1) * width = q * width + width
        OBVIOUS
      <4>2. \A x, y \in Nat : x <= y => x * width <= y * width
        OBVIOUS
      <4>3. (q + 1) * width <= height * width
        BY <4>2
      <4> QED
        BY <3>2, <4>1, <4>3
    <3>6. bmp'.pixels[k] = SourceRow(k, width, height) * width + (k % width)
      BY <1>1, <3>5 DEF WritePixels
    <3>7. SourceRow(k, width, height) = row
      BY <3>1, <3>4 DEF SourceRow
    <3> QED
      BY <3>3, <3>4, <3>6, <3>7
  <2> QED
    BY <2>2, <2>3
<1>4. WritesTheFormat'
  <2>1. /\ bmp'.bmih.biWidth = width /\ bmp'.bmih.biHeight = height
        /\ bmp'.bmih.biBitCount = 8
    BY <1>1 DEF WriteInfoHeader
  <2> QED
    BY <1>1, <1>3, <2>1 DEF WritesTheFormat
<1> QED
  BY <1>2, <1>4

LEMMA BmpHolds ==
    BmpInit /\ [][BmpNext]_bmpVars => [](FillsRaw /\ ReadsTheFormat /\ WritesTheFormat)
<1> DEFINE Right == FillsRaw /\ ReadsTheFormat /\ WritesTheFormat
<1>1. BmpInit => Right
  BY DEF BmpInit, FillsRaw, ReadsTheFormat, WritesTheFormat
<1>2. Right /\ [BmpNext]_bmpVars => Right'
  <2> SUFFICES ASSUME Right, [BmpNext]_bmpVars PROVE Right'
    OBVIOUS
  <2>1. CASE UNCHANGED bmpVars
    BY <2>1 DEF bmpVars, FillsRaw, ReadsTheFormat, WritesTheFormat
  <2>2. CASE BmpNext
    <3>1. PICK width \in Widths, height \in Heights :
             LET bmfh == WriteFileHeader(width, height)
                 bmih == WriteInfoHeader(width, height)
             IN  \/ encode_bmp(width, height)
                 \/ \E bothNull \in BOOLEAN : RawToBmp(width, height, bothNull)
                 \/ get_data(bmfh, bmih)
                 \/ \E bitCount \in {1, 32} :
                       get_data([bmfh EXCEPT !.bfOffBits =
                                    FILEHEADSIZE + INFOHEADSIZE + IF bitCount = 1 THEN 8 ELSE 0],
                                [bmih EXCEPT !.biBitCount = bitCount])
      BY <2>2 DEF BmpNext
    <3>2. width \in Nat \ {0} /\ height \in Nat \ {0}
      BY BmpAssumption
    <3> DEFINE bmih == WriteInfoHeader(width, height)
    <3>3. bmih.biWidth = width /\ bmih.biHeight = height /\ bmih.biBitCount = 8
      BY DEF WriteInfoHeader
    <3>4. ASSUME NEW bitCount \in {1, 32}
          PROVE  LET other == [bmih EXCEPT !.biBitCount = bitCount]
                 IN  other.biWidth = width /\ other.biHeight = height
                     /\ other.biBitCount = bitCount
      BY DEF WriteInfoHeader
    <3>5. CASE encode_bmp(width, height)
      BY <3>2, <3>5, encode_bmpIsRight
    <3>6. ASSUME NEW bothNull \in BOOLEAN, RawToBmp(width, height, bothNull) PROVE Right'
      <4>1. CASE bothNull
        BY <3>6, <4>1 DEF RawToBmp, FillsRaw, ReadsTheFormat, WritesTheFormat
      <4>2. CASE ~bothNull
        BY <3>2, <3>6, <4>2, encode_bmpIsRight DEF RawToBmp
      <4> QED
        BY <4>1, <4>2
    <3>7. ASSUME NEW bmfh, get_data(bmfh, bmih) PROVE Right'
      BY <3>2, <3>3, <3>7, get_dataIsRight
    <3>8. ASSUME NEW bmfh, NEW bitCount \in {1, 32},
                 get_data(bmfh, [bmih EXCEPT !.biBitCount = bitCount])
          PROVE  Right'
      BY <3>2, <3>4, <3>8, get_dataIsRight
    <3> QED
      BY <3>1, <3>5, <3>6, <3>7, <3>8
  <2> QED
    BY <2>1, <2>2
<1> QED
  BY <1>1, <1>2, PTL

(***************************************************************************)
(* For every width and height, ReadPixelData fills raw exactly and reads   *)
(* nothing past the rows of the file, of 1 or of 32 bits per pixel.        *)
(***************************************************************************)
THEOREM RawIsAlwaysFilled == BmpInit /\ [][BmpNext]_bmpVars => []FillsRaw
  BY BmpHolds, PTL

(***************************************************************************)
(* For every width and height, each pixel that get_data returns is the one *)
(* the format puts there, and the sizes are those of the headers.          *)
(***************************************************************************)
THEOREM PixelsAreReadRight == BmpInit /\ [][BmpNext]_bmpVars => []ReadsTheFormat
  BY BmpHolds, PTL

(***************************************************************************)
(* For every width and height, a file that encode_bmp or RawToBmp writes   *)
(* has each pixel where the format looks for it, rows that need no padding *)
(* provided.                                                               *)
(***************************************************************************)
THEOREM PixelsAreWrittenRight == BmpInit /\ [][BmpNext]_bmpVars => []WritesTheFormat
  BY BmpHolds, PTL
=============================================================================
