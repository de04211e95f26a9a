------------------------------- MODULE Clock -------------------------------
(***************************************************************************)
(* The arithmetic on struct timeval of src/src/times.h and utils.c, with a *)
(* second of Thousand * Thousand microseconds.                             *)
(*                                                                         *)
(* A definition that stands before another one and is used nowhere is that *)
(* other with a mistake in it.                                             *)
(***************************************************************************)
EXTENDS Integers

CONSTANTS Thousand, MaxSec

VARIABLES clock \* two times the functions are tried on, or {}

Million == Thousand * Thousand

Tv(sec, usec) == [sec |-> sec, usec |-> usec]

\* Too many microseconds are carried into the seconds, a negative number is dropped.
Tvfix(a) ==
  IF a.usec >= Million THEN Tv(a.sec + a.usec \div Million, a.usec % Million)
  ELSE IF a.usec < 0 THEN Tv(a.sec, 0)
  ELSE a

TvAdd(a, b) ==
  LET s == Tvfix(a).sec + Tvfix(b).sec
      u == Tvfix(a).usec + Tvfix(b).usec
  IN  IF u >= Million THEN Tv(s + 1, u - Million) ELSE Tv(s, u)

TvSub(a, b) ==
  LET s == Tvfix(a).sec - Tvfix(b).sec
      u == Tvfix(a).usec - Tvfix(b).usec
  IN  IF u < 0 THEN Tv(s - 1, u + Million) ELSE Tv(s, u)

TvDiffSecDownwards(end, start) ==
  LET result == end.sec - start.sec
  IN  IF result > 0 /\ end.usec < start.usec THEN result - 1 ELSE result
TvDiffSec(end, start) ==
  LET result == end.sec - start.sec
  IN  IF result > 0 /\ end.usec < start.usec THEN result - 1
      ELSE IF result < 0 /\ end.usec > start.usec THEN result + 1
      ELSE result

TvDiffUs(end, start) == (end.sec - start.sec) * Million + end.usec - start.usec

\* The dividend is positive for times in range.
TvDiffMs(end, start) ==
  (end.sec - start.sec) * Thousand + (Million + end.usec - start.usec) \div Thousand - Thousand

TvCmp(a, b) ==
  IF a.sec < b.sec THEN -1 ELSE IF a.sec > b.sec THEN 1
  ELSE IF a.usec < b.usec THEN -1 ELSE IF a.usec > b.usec THEN 1 ELSE 0

SampToTv(nsamp, rate) == Tv(nsamp \div rate, (nsamp % rate) * (Million \div rate))

----------------------------------------------------------------------------
Init == clock = {}

\* Microseconds out of range on either side, too.
Times == {Tv(s, u) : s \in -MaxSec .. MaxSec, u \in -1 .. 2 * Million}

Try == clock = {} /\ \E a \in Times, b \in Times : clock' = {<<a, b>>}

Spec == Init /\ [][Try]_clock

----------------------------------------------------------------------------
(* Properties. *)

Us(a) == a.sec * Million + a.usec
InRange(a) == a.usec \in 0 .. Million - 1

\* Sums and differences are those of the microseconds and are left in range; a difference
\* in seconds is cut off towards zero and one in milliseconds downwards; a time of samples
\* is short by less than a microsecond a sample of the last second (times.h:36-140,
\* utils.c:108-149).
ClockAgrees ==
  \A x \in clock :
    LET a == x[1]
        b == x[2]
        seconds(d) == IF d >= 0 THEN d \div Million ELSE -((-d) \div Million)
    IN  /\ InRange(TvAdd(a, b)) /\ InRange(TvSub(a, b))
        /\ a.usec >= 0 /\ b.usec >= 0 =>
             /\ Us(TvAdd(a, b)) = Us(a) + Us(b)
             /\ Us(TvSub(a, b)) = Us(a) - Us(b)
        /\ InRange(a) /\ InRange(b) =>
             /\ TvDiffUs(a, b) = Us(TvSub(a, b))
             /\ TvDiffSec(a, b) = seconds(Us(a) - Us(b))
             /\ TvDiffMs(a, b) = (Us(a) - Us(b)) \div Thousand
             /\ TvCmp(a, b) < 0 <=> Us(a) < Us(b)
             /\ TvCmp(a, b) = 0 <=> a = b
        /\ a.usec >= 0 /\ b.usec > 0 =>
             LET t == SampToTv(a.usec, b.usec)
             IN  /\ InRange(t)
                 /\ Us(t) * b.usec <= a.usec * Million
                 /\ a.usec * Million < (Us(t) + b.usec) * b.usec
=============================================================================
