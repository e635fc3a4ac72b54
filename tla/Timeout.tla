------------------------------- MODULE Timeout --------------------------------
(***************************************************************************)
(* OSAL/include/timeout.h: CTimeout and CTimeoutmS, a start and a duration *)
(* in nanoseconds of the monotonic clock, read and compared with unsigned  *)
(* arithmetic.                                                             *)
(*                                                                         *)
(* uint32_t is 0 .. Word - 1 and uint64_t is 0 .. LongWord - 1, with small *)
(* moduli, and Factor stands for 1000: only that a product may pass Word   *)
(* and that nothing else passes half of LongWord matters to the code.  The *)
(* clock may start anywhere, so that it wraps around, which the comment at *)
(* line 60 says is harmless.                                               *)
(*                                                                         *)
(* The width of time_t is that of the build: GetTimeNs of CTimeout, line   *)
(* 81, multiplies the seconds in it, that of CTimeoutmS, line 148, in 64   *)
(* bits.  The product of a time_t of 32 bits overflows, which is taken to  *)
(* keep the low bits.                                                      *)
(***************************************************************************)
EXTENDS Integers

CONSTANTS
    Word,      \* 2^32
    LongWord,  \* 2^64
    time_t,    \* 2^32 or 2^64, as the build has it
    Factor     \* 1000

ASSUME TimeoutAssumption ==
    /\ {Word, LongWord, Factor} \subseteq Nat \ {0}
    /\ 2 * Word * Factor * Factor <= LongWord
    /\ time_t \in {Word, LongWord}

VARIABLES
    now,      \* the monotonic clock, in nanoseconds
    timeout,  \* the object: [class, start_ns, duration_ns]
    promise   \* history: [asked, elapsed], without bounds on the numbers

timeoutVars == <<now, timeout, promise>>

\* Nanoseconds in the unit of the class.
Unit(t) == IF t.class = "CTimeout" THEN Factor ELSE Factor * Factor

\* An int64_t with the bits of n.
Signed(n) == IF 2 * (n % LongWord) < LongWord THEN n % LongWord
                                              ELSE (n % LongWord) - LongWord

\* The low 32 bits of n, widened with their sign.
Widened(n) == IF 2 * (n % Word) < Word THEN n % Word
                                       ELSE LongWord - Word + (n % Word)

GetTimeNs(class) == IF class = "CTimeout" /\ time_t # LongWord THEN Widened(now) ELSE now

Expires(t, expiration) ==
    [t EXCEPT !.start_ns = GetTimeNs(t.class), !.duration_ns = expiration]

\* CTimeout multiplies two 32-bit numbers, CTimeoutmS widens first.
SetExpiration(t, n) ==
    Expires(t, IF t.class = "CTimeout" THEN (n * Factor) % Word
                                       ELSE (n * Unit(t)) % LongWord)

GetExpiration(t) == (t.duration_ns \div Unit(t)) % Word

\* Fault: compares the clock with the end of the timeout.
HasExpiredBySum(t) == GetTimeNs(t.class) >= (t.start_ns + t.duration_ns) % LongWord

HasExpired(t) == (GetTimeNs(t.class) - t.start_ns) % LongWord >= t.duration_ns

\* Fault: no test of the sign.
GetRestTimeUnsigned(t) ==
    (((t.start_ns + t.duration_ns - GetTimeNs(t.class)) % LongWord) \div Unit(t)) % Word

GetRestTime(t) ==
    LET temp == Signed(t.start_ns + t.duration_ns - GetTimeNs(t.class))
    IN  IF temp < 0 THEN 0 ELSE (temp \div Unit(t)) % Word

\* CTimeoutmS: nanoseconds, cut to 32 bits.
GetElapsed(t) == ((GetTimeNs(t.class) - t.start_ns) % LongWord) % Word

TimeoutInit ==
    /\ now = 0
    /\ timeout = [class |-> "CTimeout", start_ns |-> 0, duration_ns |-> 0]
    /\ promise = [asked |-> 0, elapsed |-> 0]

\* The default constructors: no duration, and a start at the boot.
Construct(class) ==
    /\ 2 * now < LongWord
    /\ timeout' = [class |-> class, start_ns |-> 0, duration_ns |-> 0]
    /\ promise' = [asked |-> 0, elapsed |-> now]
    /\ UNCHANGED now

\* SetExpiration, us, and the constructors with an argument.
Set(n) ==
    /\ timeout' = SetExpiration(timeout, n)
    /\ promise' = [asked |-> n * Unit(timeout), elapsed |-> 0]
    /\ UNCHANGED now

\* CTimeout::ms
ms(n) ==
    /\ timeout.class = "CTimeout"
    /\ timeout' = SetExpiration(timeout, (n * Factor) % Word)
    /\ promise' = [asked |-> n * Factor * Factor, elapsed |-> 0]
    /\ UNCHANGED now

Reset ==
    /\ timeout' = [timeout EXCEPT !.start_ns = GetTimeNs(timeout.class)]
    /\ promise' = [promise EXCEPT !.elapsed = 0]
    /\ UNCHANGED now

\* Time passes, less than half of LongWord since the start.
Tick ==
    /\ 2 * (promise.elapsed + 1) < LongWord
    /\ now' = (now + 1) % LongWord
    /\ promise' = [promise EXCEPT !.elapsed = @ + 1]
    /\ UNCHANGED timeout

TimeoutNext ==
    \/ \E class \in {"CTimeout", "CTimeoutmS"} : Construct(class)
    \/ \E n \in 0 .. Word - 1 : Set(n) \/ ms(n)
    \/ Reset
    \/ Tick

-----------------------------------------------------------------------------
\* The clock of the class does not overflow.
ReadsClock == timeout.class = "CTimeoutmS" \/ time_t = LongWord

\* The duration asked for fits in what the class computes it with: every
\* one of CTimeoutmS, 4.29 seconds of CTimeout.
Fits == timeout.class = "CTimeoutmS" \/ promise.asked < Word

(***************************************************************************)
(* Where the clock of the class does not overflow, a timeout whose         *)
(* duration fits expires when the time it was set to has passed since it   *)
(* was set or reset, neither earlier nor later, whether or not the clock   *)
(* wrapped around in between; and it remembers the duration.               *)
(* (HasExpired, GetExpiration, timeout.h:57 and 52, 115 and 125)           *)
(***************************************************************************)
OnTime ==
    ReadsClock /\ Fits =>
        /\ HasExpired(timeout) <=> promise.elapsed >= promise.asked
        /\ GetExpiration(timeout) = promise.asked \div Unit(timeout)

(***************************************************************************)
(* Where the clock of the class does not overflow, the rest is never more  *)
(* than what is left, and one unit more is enough to expire: a caller that *)
(* waits for GetRestTime() + 1 never spins and never oversleeps by more    *)
(* than that unit.  (GetRestTime, timeout.h:68 and 130, whose subtraction  *)
(* is signed where HasExpired is unsigned.)                                *)
(***************************************************************************)
RestIsLeft ==
    LET left == timeout.duration_ns - promise.elapsed
        rest == GetRestTime(timeout)
    IN  ReadsClock =>
            /\ left >= 0 => rest * Unit(timeout) <= left
            /\ left < (rest + 1) * Unit(timeout)
            /\ HasExpired(timeout) => rest = 0
=============================================================================
