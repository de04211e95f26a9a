----------------------------- MODULE TimedWrite -----------------------------
(***************************************************************************)
(* spd_timeout_write and spd_timeoutf_write (src/src/utils.c) over         *)
(* spd_waitfor_pollout (src/src/poll.c): write some bytes to a file that   *)
(* does not block, within a time.  poll may be interrupted by a signal and *)
(* is then called again for the rest of the time.                          *)
(*                                                                         *)
(* The clock ticks TicksPerMs times in a millisecond, so that the          *)
(* milliseconds that have passed are rounded down; it is not set back.     *)
(* Time passes while a poll waits, and while a stream that is full is      *)
(* asked again and again to write out what it holds.                       *)
(*                                                                         *)
(* A definition that stands before another one and is used nowhere is that *)
(* other with a mistake in it.                                             *)
(***************************************************************************)
EXTENDS Integers

CONSTANTS
  Bytes,        \* to be written
  TimeoutMs,
  TicksPerMs,
  FlushTicks    \* bound: a stream is asked for as long as this

VARIABLES
  call,         \* "write" or "fwrite"
  pc,
  now,          \* ticks since the call began
  pollStart,    \* when spd_waitfor_pollout was called
  pollMs,       \* its ms
  escap,        \* its milliseconds that have passed
  elapsed,      \* the caller's
  len,          \* what is left
  sent,         \* history: bytes given to the file or to the stream
  result,
  flushStart    \* history: when the stream was first asked to write out, or -1

vars == <<call, pc, now, pollStart, pollMs, escap, elapsed, len, sent, result, flushStart>>

Init ==
  /\ call \in {"write", "fwrite"} /\ pc = "loop"
  /\ now = 0 /\ pollStart = 0 /\ pollMs = 0 /\ escap = 0 /\ elapsed = 0
  /\ len = Bytes /\ sent = 0 /\ result = 0 /\ flushStart = -1

Ms(ticks) == ticks \div TicksPerMs

Return(r) == pc' = "returned" /\ result' = r /\ UNCHANGED flushStart

\* The bytes are written or given up: a stream has still to write out what it holds.
LeaveLoop(r) ==
  IF call = "write" THEN Return(r)
  ELSE pc' = "flush" /\ result' = r /\ flushStart' = now

GoOn == UNCHANGED <<pc, result, flushStart>>

Loop ==
  /\ pc = "loop" /\ len > 0
  /\ pollStart' = now /\ pollMs' = TimeoutMs - elapsed /\ escap' = 0
  /\ pc' = "poll"
  /\ UNCHANGED <<call, now, elapsed, len, sent, result, flushStart>>

LoopEnds ==
  /\ pc = "loop" /\ len = 0
  /\ LeaveLoop(0)
  /\ UNCHANGED <<call, now, pollStart, pollMs, escap, elapsed, len, sent>>

PollUnchanged == UNCHANGED <<call, elapsed, len, sent>>
Waits == now' \in now .. now + (pollMs - escap) * TicksPerMs

PollReady ==
  /\ pc = "poll" /\ Waits
  /\ pc' = "write"
  /\ PollUnchanged /\ UNCHANGED <<pollStart, pollMs, escap, result, flushStart>>

PollTimesOut ==
  /\ pc = "poll"
  /\ now' = now + (pollMs - escap) * TicksPerMs
  /\ Return(-1)
  /\ PollUnchanged /\ UNCHANGED <<pollStart, pollMs, escap>>

\* An interrupted poll is called again for what is left of the time.
PollAgainInFull ==
  /\ pc = "poll" /\ Waits
  /\ escap' = 0
  /\ IF Ms(now' - pollStart) > pollMs THEN Return(-1) ELSE GoOn
  /\ PollUnchanged /\ UNCHANGED <<pollStart, pollMs>>
PollInterrupted ==
  /\ pc = "poll" /\ Waits
  /\ escap' = Ms(now' - pollStart)
  /\ IF escap' > pollMs THEN Return(-1) ELSE GoOn
  /\ PollUnchanged /\ UNCHANGED <<pollStart, pollMs>>

PollFails ==
  /\ pc = "poll" /\ Waits
  /\ Return(-1)
  /\ PollUnchanged /\ UNCHANGED <<pollStart, pollMs, escap>>

\* After a write of part, all or, interrupted, nothing.
Wrote(n) ==
  /\ sent' = sent + n
  /\ elapsed' = Ms(now)
  /\ UNCHANGED <<call, now, pollStart, pollMs, escap>>

Write(n) ==
  /\ pc = "write" /\ call = "write" /\ n \in 0 .. len
  /\ len' = len - n
  /\ Wrote(n)
  /\ IF elapsed' >= TimeoutMs THEN LeaveLoop(IF len' > 0 THEN -1 ELSE 0)
     ELSE pc' = "loop" /\ UNCHANGED <<result, flushStart>>

\* What fwrite has taken is not counted: it is given the same bytes until the time is over.
Fwrite(n) ==
  /\ pc = "write" /\ call = "fwrite" /\ n \in 0 .. len
  /\ Wrote(n)
  /\ IF elapsed' >= TimeoutMs THEN LeaveLoop(-1)
     ELSE pc' = "loop" /\ UNCHANGED <<result, flushStart>>
  /\ UNCHANGED len

WriteFails ==
  /\ pc = "write" /\ LeaveLoop(-1)
  /\ UNCHANGED <<call, now, pollStart, pollMs, escap, elapsed, len, sent>>

FlushUnchanged == UNCHANGED <<call, pollStart, pollMs, escap, elapsed, len, sent>>

FlushEnds ==
  /\ pc = "flush" /\ Return(result)
  /\ FlushUnchanged /\ UNCHANGED now

\* The file would block or a signal came: the stream is asked again, whatever the time.
FlushAgain ==
  /\ pc = "flush" /\ now' \in now .. flushStart + FlushTicks
  /\ FlushUnchanged /\ GoOn

FlushFails ==
  /\ pc = "flush" /\ Return(-1)
  /\ FlushUnchanged /\ UNCHANGED now

\* Bound of the history: the stream is not given more than two copies.
Bounded == sent <= 2 * Bytes

Next ==
  \/ Loop \/ LoopEnds
  \/ PollReady \/ PollTimesOut \/ PollInterrupted \/ PollFails
  \/ \E n \in 0 .. Bytes : Bounded /\ Write(n)
  \/ \E n \in 0 .. Bytes : Bounded /\ Fwrite(n)
  \/ WriteFails
  \/ FlushEnds \/ FlushAgain \/ FlushFails

Spec == Init /\ [][Next]_vars

----------------------------------------------------------------------------
\* However often poll is interrupted and however little a write takes, no poll is asked to
\* wait for ever, the loop is over less than two milliseconds after its time (one for each
\* time passed that is rounded down, the caller's and the poll's), and so is the call, unless
\* it waits for a stream to write out what it holds; zero means that each byte was written
\* once (utils.c:218-301, poll.c:45-82).
WriteSettles ==
  /\ pc = "poll" => pollMs - escap >= 0
  /\ (IF flushStart < 0 THEN now ELSE flushStart) < (TimeoutMs + 2) * TicksPerMs
  /\ pc = "returned" /\ result = 0 => sent = Bytes /\ len = 0
  /\ call = "write" => sent + len = Bytes /\ flushStart = -1

=============================================================================
