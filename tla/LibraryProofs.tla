---------------------------- MODULE LibraryProofs ----------------------------
(***************************************************************************)
(* Theorems about the components of MCLibraries, each for every value of   *)
(* its constants: a save of the configuration, timed writes, clients of    *)
(* the TCP engine, strings that grow, starts of the program, the lists     *)
(* into which engines and tests register themselves, the logger, and the   *)
(* linked lists, which implement Lists; the last three from PartProofs.    *)
(***************************************************************************)
EXTENDS MCLibraries, Basics, FiniteSetTheorems

----------------------------------------------------------------------------
(* A step is one of the component that moves.                              *)

LEMMA SameComponent ==
  ASSUME [MCNext]_mcVars
  PROVE  of' = of
  BY Zenon DEF MCNext, mcVars, By, ConfNext, SaveNext, LinkNext, LogNext, TestNext, StrNext,
     WriteNext, EngineNext, ClientNext, StartNext

SaveVars == <<file, temp, at, had, lossy>>

LEMMA SaveMoves ==
  ASSUME of = "save", [MCNext]_mcVars
  PROVE  [Save!Next]_SaveVars
  BY Zenon DEF MCNext, mcVars, By, ConfNext, SaveNext, LinkNext, LogNext, TestNext, StrNext,
     WriteNext, EngineNext, ClientNext, StartNext, Save!Next, SaveVars

WriteVars == <<call, pc, now, pollStart, pollMs, escap, elapsed, len, sent, result, flushStart>>

LEMMA WriteMoves ==
  ASSUME of = "write", [MCNext]_mcVars
  PROVE  [Wr!Next]_WriteVars
  BY Zenon DEF MCNext, mcVars, By, ConfNext, SaveNext, LinkNext, LogNext, TestNext, StrNext,
     WriteNext, EngineNext, ClientNext, StartNext, Wr!Next, WriteVars

ClientVars == <<oldaddr, server_fd, session, sockets, files, behind, strange>>

LEMMA ClientMoves ==
  ASSUME of = "client", [MCNext]_mcVars
  PROVE  [Cl!Next]_ClientVars
  BY Zenon DEF MCNext, mcVars, By, ConfNext, SaveNext, LinkNext, LogNext, TestNext, StrNext,
     WriteNext, EngineNext, ClientNext, StartNext, Cl!Next, ClientVars

StrVars == <<dyn, str, before, strCalls>>

LEMMA StrMoves ==
  ASSUME of = "str", [MCNext]_mcVars
  PROVE  [Str!Next]_StrVars
  BY Zenon DEF MCNext, mcVars, By, ConfNext, SaveNext, LinkNext, LogNext, TestNext, StrNext,
     WriteNext, EngineNext, ClientNext, StartNext, Str!Next, StrVars

StartVars ==
  <<startPc, daemon, path, pidFile, opened, number, pid, others, author, missed, latest, alone>>

LEMMA StartMoves ==
  ASSUME of = "start", [MCNext]_mcVars
  PROVE  [Up!Next]_StartVars
  <1>1. StartNext \/ UNCHANGED StartVars
    BY Zenon DEF MCNext, mcVars, By, ConfNext, SaveNext, LinkNext, LogNext, TestNext, StrNext,
       WriteNext, EngineNext, ClientNext, StartVars
  <1>2. StartNext => Up!Next
    BY DEF StartNext, By, Up!Next
  <1>3. QED BY <1>1, <1>2

----------------------------------------------------------------------------
(* ConfigSave.                                                             *)

\* Where the save is, and what is then under the two names.
SaveInv ==
  /\ had \in BOOLEAN /\ lossy \in BOOLEAN
  /\ at \in {"start", "write", "close"} => ~lossy /\ (had => file = "old")
  /\ at = "remove" => had /\ file = "old"
  /\ at \in {"remove", "link"} /\ ~lossy => temp = "new"
  /\ at = "giveup" /\ ~lossy => had /\ file = "old"
  /\ at \in {"cleanup", "saved"} /\ ~lossy => file = "new"
  /\ at = "failed" /\ ~lossy => (had => file = "old")
  /\ at = "crashed" /\ ~lossy /\ had => file \in {"old", "new"} \/ temp = "new"
  /\ at \in {"start", "write", "close", "remove", "link", "giveup", "cleanup", "saved",
             "failed", "crashed"}

LEMMA InitSaveInv == Save!Init => SaveInv
  BY DEF Save!Init, SaveInv

LEMMA StepSaveInv ==
  ASSUME SaveInv, [Save!Next]_SaveVars
  PROVE  SaveInv'
  <1>1. CASE Save!Create
    BY <1>1 DEF SaveInv, Save!Create, Save!Goto
  <1>2. CASE Save!Write
    BY <1>2 DEF SaveInv, Save!Write, Save!Goto
  <1>3. CASE Save!CloseStream
    BY <1>3 DEF SaveInv, Save!CloseStream, Save!Goto
  <1>4. CASE Save!Remove
    BY <1>4 DEF SaveInv, Save!Remove, Save!Goto
  <1>5. CASE Save!Link
    BY <1>5 DEF SaveInv, Save!Link, Save!Goto
  <1>6. CASE Save!Cleanup
    BY <1>6 DEF SaveInv, Save!Cleanup, Save!Goto
  <1>7. CASE Save!Crash
    BY <1>7 DEF SaveInv, Save!Crash, Save!Goto
  <1>8. CASE UNCHANGED SaveVars
    BY <1>8 DEF SaveInv, SaveVars
  <1>9. QED BY <1>1, <1>2, <1>3, <1>4, <1>5, <1>6, <1>7, <1>8 DEF Save!Next

\* A save that fails, and a process that ends at any call of it, leave the old configuration
\* or the complete new one, but for the two failures the code does not guard against
\* (config_text_file_save).
THEOREM FileAlwaysSurvives == MCSpec => []FileSurvives
  <1> DEFINE Inv == of = "save" => SaveInv
  <1>1. MCInit => Inv
    BY InitSaveInv DEF MCInit
  <1>2. Inv /\ [MCNext]_mcVars => Inv'
    <2>1. SUFFICES ASSUME Inv, [MCNext]_mcVars, of' = "save"
                   PROVE  SaveInv'
      OBVIOUS
    <2>2. of = "save"
      BY <2>1, SameComponent
    <2>3. QED BY <2>1, <2>2, SaveMoves, StepSaveInv
  <1>3. Inv => FileSurvives
    BY DEF SaveInv, FileSurvives, Save!FileSurvives
  <1>4. QED BY <1>1, <1>2, <1>3, PTL DEF MCSpec

----------------------------------------------------------------------------
(* TimedWrite.                                                             *)

\* What rounding down loses is less than a millisecond.
LEMMA RoundedDown ==
  ASSUME NEW t \in Nat
  PROVE  /\ Wr!Ms(t) \in Nat
         /\ Wr!Ms(t) * TicksPerMs <= t
         /\ t < (Wr!Ms(t) + 1) * TicksPerMs
  BY WriteAssumption DEF Wr!Ms

WriteTypes ==
  /\ call \in {"write", "fwrite"}
  /\ pc \in {"loop", "poll", "write", "flush", "returned"}
  /\ now \in Nat /\ pollStart \in Nat /\ pollMs \in Int /\ escap \in Nat /\ elapsed \in Nat
  /\ len \in Nat /\ sent \in Nat /\ result \in Int
  /\ flushStart \in Int

\* What write has taken is counted, what fwrite has taken is not.
BytesCounted ==
  /\ call = "write" => sent + len = Bytes
  /\ call = "fwrite" => len = Bytes /\ (Bytes = 0 => sent = 0)
  /\ pc \in {"flush", "returned"} /\ result = 0 => sent = Bytes /\ len = 0

\* Where the clock is when the call knows the time that has passed, and how far a poll may
\* take it.
ClockBounded ==
  /\ flushStart = -1 => pc # "flush" /\ now < (TimeoutMs + 2) * TicksPerMs
  /\ flushStart # -1 =>
       /\ call = "fwrite" /\ pc \in {"flush", "returned"}
       /\ 0 <= flushStart /\ flushStart < (TimeoutMs + 2) * TicksPerMs
  /\ pc = "loop" => elapsed <= TimeoutMs /\ now < (elapsed + 1) * TicksPerMs
  /\ pc = "poll" =>
       /\ escap <= pollMs
       /\ pollStart <= now
       /\ now < pollStart + (escap + 1) * TicksPerMs
       /\ pollStart + pollMs * TicksPerMs < (TimeoutMs + 1) * TicksPerMs

WriteInv == WriteTypes /\ BytesCounted /\ ClockBounded

LEMMA InitWriteInv == Wr!Init => WriteInv
  <1>1. SUFFICES ASSUME Wr!Init PROVE WriteInv
    OBVIOUS
  <1>2. WriteTypes /\ BytesCounted
    BY <1>1, WriteAssumption DEF Wr!Init, WriteTypes, BytesCounted
  <1>3. 0 < (TimeoutMs + 2) * TicksPerMs /\ 0 < (0 + 1) * TicksPerMs
    BY WriteAssumption
  <1>4. ClockBounded
    BY <1>1, <1>3, WriteAssumption DEF Wr!Init, ClockBounded
  <1>5. QED BY <1>2, <1>4 DEF WriteInv

\* However long a poll waits, it ends before the bound.
LEMMA PollEnds ==
  ASSUME WriteInv, pc = "poll", NEW n \in now .. now + (pollMs - escap) * TicksPerMs
  PROVE  n \in Nat /\ pollStart <= n /\ n < (TimeoutMs + 2) * TicksPerMs
  <1>1. (pollMs - escap) * TicksPerMs = pollMs * TicksPerMs - escap * TicksPerMs
    BY WriteAssumption DEF WriteInv, WriteTypes
  <1>2. (escap + 1) * TicksPerMs = escap * TicksPerMs + TicksPerMs
    BY WriteAssumption DEF WriteInv, WriteTypes
  <1>3. (TimeoutMs + 2) * TicksPerMs = (TimeoutMs + 1) * TicksPerMs + TicksPerMs
    BY WriteAssumption
  <1>4. /\ pollMs * TicksPerMs \in Int /\ escap * TicksPerMs \in Int
        /\ (TimeoutMs + 1) * TicksPerMs \in Int /\ TicksPerMs \in Int
    BY WriteAssumption DEF WriteInv, WriteTypes
  <1>5. /\ now \in Nat /\ pollStart \in Nat /\ pollStart <= now
        /\ now < pollStart + (escap + 1) * TicksPerMs
        /\ pollStart + pollMs * TicksPerMs < (TimeoutMs + 1) * TicksPerMs
    BY DEF WriteInv, WriteTypes, ClockBounded
  <1>6. n \in Int /\ now <= n /\ n <= now + (pollMs * TicksPerMs - escap * TicksPerMs)
    BY <1>1, <1>4, <1>5
  <1>7. QED BY <1>2, <1>3, <1>4, <1>5, <1>6

LEMMA StepWriteInv ==
  ASSUME WriteInv, [Wr!Next]_WriteVars
  PROVE  WriteInv'
  <1> USE DEF Wr!Return, Wr!LeaveLoop, Wr!GoOn
  <1>1. CASE Wr!Loop
    <2>1. WriteTypes' /\ BytesCounted'
      BY <1>1, WriteAssumption DEF WriteInv, WriteTypes, BytesCounted, Wr!Loop
    <2>2. (TimeoutMs - elapsed) * TicksPerMs = TimeoutMs * TicksPerMs - elapsed * TicksPerMs
      BY WriteAssumption DEF WriteInv, WriteTypes
    <2>3. (elapsed + 1) * TicksPerMs = elapsed * TicksPerMs + TicksPerMs
      BY WriteAssumption DEF WriteInv, WriteTypes
    <2>4. (TimeoutMs + 1) * TicksPerMs = TimeoutMs * TicksPerMs + TicksPerMs
      BY WriteAssumption
    <2>5. /\ TimeoutMs * TicksPerMs \in Int /\ elapsed * TicksPerMs \in Int
          /\ TicksPerMs \in Int /\ TicksPerMs > 0
      BY WriteAssumption DEF WriteInv, WriteTypes
    <2>6. /\ now \in Nat /\ elapsed \in Nat /\ elapsed <= TimeoutMs
          /\ now < (elapsed + 1) * TicksPerMs /\ now < (TimeoutMs + 2) * TicksPerMs
        /\ flushStart = -1
      BY <1>1 DEF WriteInv, WriteTypes, ClockBounded, Wr!Loop
    <2>7. now + (TimeoutMs - elapsed) * TicksPerMs < (TimeoutMs + 1) * TicksPerMs
      BY <2>2, <2>3, <2>4, <2>5, <2>6
    <2>8. now < now + (0 + 1) * TicksPerMs
      BY <2>5, <2>6
    <2>9. ClockBounded'
      BY <1>1, <2>6, <2>7, <2>8, WriteAssumption DEF ClockBounded, Wr!Loop
    <2>10. QED BY <2>1, <2>9 DEF WriteInv
  <1>2. CASE Wr!LoopEnds
    BY <1>2, WriteAssumption DEF WriteInv, WriteTypes, BytesCounted, ClockBounded, Wr!LoopEnds
  <1>3. CASE Wr!PollReady
    <2>1. now' \in Nat /\ now' < (TimeoutMs + 2) * TicksPerMs
      BY <1>3, PollEnds DEF Wr!PollReady, Wr!Waits
    <2>2. QED
      BY <1>3, <2>1 DEF WriteInv, WriteTypes, BytesCounted, ClockBounded, Wr!PollReady,
         Wr!PollUnchanged
  <1>4. CASE Wr!PollTimesOut
    <2>1. now' \in now .. now + (pollMs - escap) * TicksPerMs
      <3>1. (pollMs - escap) * TicksPerMs \in Nat
        BY <1>4, WriteAssumption DEF WriteInv, WriteTypes, ClockBounded, Wr!PollTimesOut
      <3>2. QED BY <1>4, <3>1 DEF WriteInv, WriteTypes, Wr!PollTimesOut
    <2>2. now' \in Nat /\ now' < (TimeoutMs + 2) * TicksPerMs
      BY <1>4, <2>1, PollEnds DEF Wr!PollTimesOut
    <2>3. QED
      BY <1>4, <2>2 DEF WriteInv, WriteTypes, BytesCounted, ClockBounded, Wr!PollTimesOut,
         Wr!PollUnchanged
  <1>5. CASE Wr!PollInterrupted
    <2>1. now' \in Nat /\ pollStart <= now' /\ now' < (TimeoutMs + 2) * TicksPerMs
      BY <1>5, PollEnds DEF Wr!PollInterrupted, Wr!Waits
    <2>2. now' - pollStart \in Nat
      <3>1. pollStart \in Nat
        BY DEF WriteInv, WriteTypes
      <3>2. \A a, b \in Nat : a <= b => b - a \in Nat
        OBVIOUS
      <3>3. QED BY <2>1, <3>1, <3>2
    <2>3. /\ escap' \in Nat
          /\ now' - pollStart < (escap' + 1) * TicksPerMs
      BY <1>5, <2>2, RoundedDown DEF Wr!PollInterrupted
    <2>4. now' < pollStart + (escap' + 1) * TicksPerMs
      <3>1. (escap' + 1) * TicksPerMs \in Int
        BY <2>3, WriteAssumption
      <3>2. QED BY <2>1, <2>3, <3>1 DEF WriteInv, WriteTypes
    <2>5. WriteTypes' /\ BytesCounted'
      BY <1>5, <2>1, <2>3 DEF WriteInv, WriteTypes, BytesCounted, Wr!PollInterrupted,
         Wr!PollUnchanged
    <2>6. pc' = "poll" => escap' <= pollMs
      BY <1>5, <2>3 DEF WriteInv, WriteTypes, Wr!PollInterrupted
    <2>7. ClockBounded'
      BY <1>5, <2>1, <2>4, <2>6 DEF WriteInv, ClockBounded, Wr!PollInterrupted, Wr!PollUnchanged
    <2>8. QED BY <2>5, <2>7 DEF WriteInv
  <1>6. CASE Wr!PollFails
    <2>1. now' \in Nat /\ now' < (TimeoutMs + 2) * TicksPerMs
      BY <1>6, PollEnds DEF Wr!PollFails, Wr!Waits
    <2>2. QED
      BY <1>6, <2>1 DEF WriteInv, WriteTypes, BytesCounted, ClockBounded, Wr!PollFails,
         Wr!PollUnchanged
  <1>7. ASSUME NEW n \in 0 .. Bytes, Wr!Write(n) \/ Wr!Fwrite(n)
        PROVE  WriteInv'
    <2>1. Wr!Wrote(n) /\ n \in 0 .. len /\ pc = "write"
      BY <1>7 DEF Wr!Write, Wr!Fwrite
    <2>2. elapsed' \in Nat /\ now < (elapsed' + 1) * TicksPerMs /\ now' = now
      BY <2>1, RoundedDown DEF WriteInv, WriteTypes, Wr!Wrote
    <2>3. WriteTypes' /\ BytesCounted'
      <3>1. CASE Wr!Write(n)
        BY <3>1, <2>1, <2>2, WriteAssumption
           DEF WriteInv, WriteTypes, BytesCounted, Wr!Write, Wr!Wrote
      <3>2. CASE Wr!Fwrite(n)
        BY <3>2, <2>1, <2>2, WriteAssumption
           DEF WriteInv, WriteTypes, BytesCounted, Wr!Fwrite, Wr!Wrote
      <3>3. QED BY <1>7, <3>1, <3>2
    <2>4. /\ flushStart = -1 /\ 0 <= now /\ now < (TimeoutMs + 2) * TicksPerMs
          /\ call' = call /\ call \in {"write", "fwrite"}
      BY <2>1 DEF WriteInv, WriteTypes, ClockBounded, Wr!Wrote
    <2>5. \/ pc' = "loop" /\ elapsed' <= TimeoutMs /\ flushStart' = -1
          \/ pc' = "returned" /\ flushStart' = -1
          \/ pc' = "flush" /\ flushStart' = now /\ call' = "fwrite"
      BY <1>7, <2>2, <2>4, WriteAssumption DEF Wr!Write, Wr!Fwrite
    <2>6. ClockBounded'
      BY <2>2, <2>4, <2>5 DEF ClockBounded
    <2>7. QED BY <2>3, <2>6 DEF WriteInv
  <1>8. CASE Wr!WriteFails
    BY <1>8 DEF WriteInv, WriteTypes, BytesCounted, ClockBounded, Wr!WriteFails
  <1>9. CASE Wr!FlushEnds \/ Wr!FlushFails
    BY <1>9 DEF WriteInv, WriteTypes, BytesCounted, ClockBounded, Wr!FlushEnds, Wr!FlushFails,
       Wr!FlushUnchanged
  <1>10. CASE Wr!FlushAgain
    <2>1. now' \in Nat
      BY <1>10, WriteAssumption DEF WriteInv, WriteTypes, Wr!FlushAgain
    <2>2. flushStart # -1
      BY <1>10 DEF WriteInv, ClockBounded, Wr!FlushAgain
    <2>3. QED
      BY <1>10, <2>1, <2>2 DEF WriteInv, WriteTypes, BytesCounted, ClockBounded, Wr!FlushAgain,
         Wr!FlushUnchanged
  <1>11. CASE UNCHANGED WriteVars
    BY <1>11 DEF WriteInv, WriteTypes, BytesCounted, ClockBounded, WriteVars
  <1>12. QED
    BY <1>1, <1>2, <1>3, <1>4, <1>5, <1>6, <1>7, <1>8, <1>9, <1>10, <1>11 DEF Wr!Next

\* However often poll is interrupted and whatever a write takes: no poll waits for ever, the
\* loop is over less than two milliseconds after its time, and so is the call unless it waits
\* for a stream to write out what it holds, and zero means that every byte was written, once
\* (spd_timeout_write, spd_timeoutf_write, spd_waitfor_pollout).
THEOREM WriteAlwaysSettles == MCSpec => []WriteSettles
  <1> DEFINE Inv == of = "write" => WriteInv
  <1>1. MCInit => Inv
    BY InitWriteInv DEF MCInit
  <1>2. Inv /\ [MCNext]_mcVars => Inv'
    <2>1. SUFFICES ASSUME Inv, [MCNext]_mcVars, of' = "write"
                   PROVE  WriteInv'
      OBVIOUS
    <2>2. of = "write"
      BY <2>1, SameComponent
    <2>3. QED BY <2>1, <2>2, WriteMoves, StepWriteInv
  <1>3. Inv => WriteSettles
    BY DEF WriteInv, WriteTypes, BytesCounted, ClockBounded, WriteSettles, Wr!WriteSettles
  <1>4. QED BY <1>1, <1>2, <1>3, PTL DEF MCSpec

----------------------------------------------------------------------------
(* TcpClient.                                                              *)

\* A free number, another's file and the sockets are told apart.
LEMMA FilesDiffer ==
  /\ Cl!Free # Cl!Other
  /\ \A n : Cl!Socket(n) # Cl!Free /\ Cl!Socket(n) # Cl!Other
  /\ \A m, n : Cl!Socket(m) = Cl!Socket(n) => m = n
  BY DEF Cl!Free, Cl!Other, Cl!Socket

LEMMA NoFdIsNone == Cl!NoFd \notin Cl!Fds
  BY ClientAssumption DEF Cl!NoFd, Cl!Fds

\* The kernel's number for a new file is a free one.
LEMMA LowestIsFree ==
  ASSUME NEW fs, Cl!Lowest(fs) # Cl!NoFd
  PROVE  Cl!Lowest(fs) \in Cl!Fds /\ fs[Cl!Lowest(fs)] = Cl!Free
  <1> DEFINE free == {f \in Cl!Fds : fs[f] = Cl!Free}
  <1>1. free # {}
    BY DEF Cl!Lowest
  <1>2. free \subseteq Nat
    BY ClientAssumption DEF Cl!Fds
  <1>3. \E f \in free : \A g \in free : f <= g
    <2> HIDE DEF free
    <2> QED BY <1>1, <1>2, LeastNumber
  <1>4. Cl!Lowest(fs) = CHOOSE f \in free : \A g \in free : f <= g
    BY <1>1 DEF Cl!Lowest
  <1>5. Cl!Lowest(fs) \in free
    <2> HIDE DEF free
    <2> QED BY <1>3, <1>4
  <1>6. QED BY <1>5

ClientTypes ==
  /\ server_fd \in Cl!Fds \cup {Cl!NoFd}
  /\ sockets \in Nat /\ behind \in BOOLEAN
  /\ session \in [at : {"none", "created", "open", "closed"}, peer : Peers \cup {NoPeer},
                  fd : Cl!Fds \cup {Cl!NoFd}]
  /\ DOMAIN files = Cl!Fds /\ files = [f \in Cl!Fds |-> files[f]]

\* The only socket of the engine is the last, under the descriptor's number.
LastSocketOnly ==
  \A f \in Cl!Fds : \A n \in Nat : files[f] = Cl!Socket(n) => f = server_fd /\ n = sockets

\* A session that is not closed is that of the descriptor, with its socket.
SessionHasSocket ==
  session.at \in {"created", "open"} =>
    /\ session.fd = server_fd /\ server_fd # Cl!NoFd
    /\ files[server_fd] = Cl!Socket(sockets)
    /\ session.peer = oldaddr

\* Unless it was closed behind the engine, the number in the descriptor is the socket.
NumberIsSocket ==
  behind = FALSE /\ server_fd # Cl!NoFd => files[server_fd] = Cl!Socket(sockets)

ClientInv ==
  /\ ClientTypes /\ strange = FALSE
  /\ LastSocketOnly /\ SessionHasSocket /\ NumberIsSocket

LEMMA InitClientInv == Cl!Init => ClientInv
  <1>1. SUFFICES ASSUME Cl!Init PROVE ClientInv
    OBVIOUS
  <1>2. behind \in BOOLEAN /\ strange = FALSE
    BY <1>1, Zenon DEF Cl!Init
  <1>3. QED
    BY <1>1, <1>2, FilesDiffer, NoFdIsNone
       DEF Cl!Init, ClientInv, ClientTypes, LastSocketOnly, SessionHasSocket, NumberIsSocket,
       Cl!NoSession

\* After the last socket is closed there is none.
LEMMA NoneLeft ==
  ASSUME ClientInv
  PROVE  /\ DOMAIN Cl!Left = Cl!Fds
         /\ \A f \in Cl!Fds : \A n \in Nat : Cl!Left[f] # Cl!Socket(n)
  BY FilesDiffer, NoFdIsNone DEF ClientInv, ClientTypes, LastSocketOnly, Cl!Left, Cl!Closed

\* Neither is another's file closed with it.
LEMMA NothingStrange ==
  ASSUME ClientInv, Cl!CloseLast
  PROVE  strange' = FALSE
  <1>1. ~(server_fd # Cl!NoFd /\ Cl!Mistaken)
    BY DEF ClientInv, ClientTypes, NumberIsSocket, Cl!Mistaken
  <1>2. QED BY <1>1, Zenon DEF ClientInv, Cl!CloseLast


LEMMA StepClientInv ==
  ASSUME ClientInv, [Cl!Next]_ClientVars
  PROVE  ClientInv'
  <1> USE FilesDiffer, NoFdIsNone
  <1>1. ASSUME NEW p \in Peers, Cl!Create(p)
        PROVE  ClientInv'
    <2>1. PICK g : g = Cl!NewFd
      OBVIOUS
    <2>2. g \in Cl!Fds
      BY <1>1, <2>1, LowestIsFree DEF Cl!Create, Cl!NewFd
    <2>3. /\ server_fd' = g /\ sockets' = sockets + 1 /\ oldaddr' = p /\ behind' = FALSE
          /\ files' = [Cl!Left EXCEPT ![g] = Cl!Socket(sockets + 1)]
          /\ session' = [at |-> "created", peer |-> p, fd |-> g]
      BY <1>1, <2>1 DEF Cl!Create
    <2>4. /\ \A f \in Cl!Fds : f # g => files'[f] = Cl!Left[f]
          /\ files'[g] = Cl!Socket(sockets + 1)
          /\ DOMAIN files' = Cl!Fds /\ files' = [f \in Cl!Fds |-> files'[f]]
      BY <2>2, <2>3, NoneLeft
    <2>5. ClientTypes'
      <3>1. behind' \in BOOLEAN
        BY <2>3, Zenon
      <3>2. session' \in [at : {"none", "created", "open", "closed"}, peer : Peers \cup {NoPeer},
                          fd : Cl!Fds \cup {Cl!NoFd}]
        BY <2>2, <2>3
      <3>3. server_fd' \in Cl!Fds /\ sockets' \in Nat
        BY <2>2, <2>3 DEF ClientInv, ClientTypes
      <3>4. QED BY <2>4, <3>1, <3>2, <3>3 DEF ClientTypes
    <2>6. LastSocketOnly'
      BY <2>2, <2>3, <2>4, NoneLeft DEF LastSocketOnly
    <2>7. SessionHasSocket' /\ NumberIsSocket'
      BY <2>2, <2>3, <2>4 DEF SessionHasSocket, NumberIsSocket
    <2>8. strange' = FALSE
      BY <1>1, NothingStrange DEF Cl!Create
    <2>9. QED BY <2>5, <2>6, <2>7, <2>8 DEF ClientInv
  <1>2. ASSUME NEW p \in Peers, Cl!CreateFails(p)
        PROVE  ClientInv'
    <2>1. strange' = FALSE
      BY <1>2, NothingStrange DEF Cl!CreateFails
    <2>2. files' = [f \in Cl!Fds |-> files'[f]]
      BY <1>2 DEF ClientInv, ClientTypes, Cl!CreateFails, Cl!Left, Cl!Closed
    <2>3. QED
      BY <1>2, <2>1, <2>2, NoneLeft
         DEF ClientInv, ClientTypes, LastSocketOnly, SessionHasSocket, NumberIsSocket,
         Cl!CreateFails, Cl!NoSession
  <1>3. CASE Cl!Connect
    BY <1>3 DEF ClientInv, ClientTypes, LastSocketOnly, SessionHasSocket, NumberIsSocket,
       Cl!Connect
  <1>4. CASE Cl!ConnectFails
    <2>1. ~Cl!Mistaken
      BY <1>4 DEF ClientInv, SessionHasSocket, Cl!ConnectFails, Cl!Mistaken
    <2>2. strange' = FALSE
      BY <1>4, <2>1, Zenon DEF ClientInv, Cl!ConnectFails
    <2>3. QED
      BY <1>4, <2>2
         DEF ClientInv, ClientTypes, LastSocketOnly, SessionHasSocket, NumberIsSocket,
         Cl!ConnectFails, Cl!NoSession, Cl!Closed
  <1>5. CASE Cl!StreamFails
    BY <1>5 DEF ClientInv, ClientTypes, LastSocketOnly, SessionHasSocket, NumberIsSocket,
       Cl!StreamFails, Cl!NoSession, Cl!Closed
  <1>6. CASE Cl!OwnerCloses
    BY <1>6 DEF ClientInv, ClientTypes, LastSocketOnly, SessionHasSocket, NumberIsSocket,
       Cl!OwnerCloses, Cl!Closed
  <1>7. CASE Cl!OtherOpens
    <2>1. PICK g : g = Cl!Lowest(files)
      OBVIOUS
    <2>2. g \in Cl!Fds /\ files[g] = Cl!Free
      BY <1>7, <2>1, LowestIsFree DEF Cl!OtherOpens
    <2>3. files' = [files EXCEPT ![g] = Cl!Other]
      BY <1>7, <2>1 DEF Cl!OtherOpens
    <2>4. QED
      BY <1>7, <2>2, <2>3
         DEF ClientInv, ClientTypes, LastSocketOnly, SessionHasSocket, NumberIsSocket,
         Cl!OtherOpens
  <1>8. ASSUME NEW g \in Cl!Fds, Cl!OtherCloses(g)
        PROVE  ClientInv'
    BY <1>8 DEF ClientInv, ClientTypes, LastSocketOnly, SessionHasSocket, NumberIsSocket,
       Cl!OtherCloses, Cl!Closed
  <1>9. CASE UNCHANGED ClientVars
    BY <1>9 DEF ClientInv, ClientTypes, LastSocketOnly, SessionHasSocket, NumberIsSocket,
       ClientVars
  <1>10. QED
    BY <1>1, <1>2, <1>3, <1>4, <1>5, <1>6, <1>7, <1>8, <1>9 DEF Cl!Next

\* Whatever fails, and whatever numbers the rest of the program gets: a client closes no
\* file of another unless its own was closed behind it, leaves no socket open without a
\* descriptor for it, and a session that is not closed has its socket
\* (spd_tcp_session_client_create, spd_tcp_session_client_start).
THEOREM ClientsAlwaysKeepTheirs == MCSpec => []ClientsKeepTheirs
  <1> DEFINE Inv == of = "client" => ClientInv
  <1>1. MCInit => Inv
    BY InitClientInv DEF MCInit
  <1>2. Inv /\ [MCNext]_mcVars => Inv'
    <2>1. SUFFICES ASSUME Inv, [MCNext]_mcVars, of' = "client"
                   PROVE  ClientInv'
      OBVIOUS
    <2>2. of = "client"
      BY <2>1, SameComponent
    <2>3. QED BY <2>1, <2>2, ClientMoves, StepClientInv
  <1>3. Inv => ClientsKeepTheirs
    BY ClientAssumption
       DEF ClientInv, ClientTypes, LastSocketOnly, SessionHasSocket, ClientsKeepTheirs,
       Cl!ClientsKeepTheirs
  <1>4. QED BY <1>1, <1>2, <1>3, PTL DEF MCSpec

----------------------------------------------------------------------------
(* Startup.                                                                *)

StartPcs == {"none", "fork", "unlinkpid", "openpid", "writepid", "unlink", "bind", "listen",
             "up", "inuse", "failed", "gone"}

StartTypes ==
  /\ startPc \in [Starts -> StartPcs]
  /\ path \in Starts \cup {NoStart} /\ pidFile \in Starts \cup {NoStart}
  /\ latest \in Starts \cup {NoStart}
  /\ opened \in [Starts -> Starts \cup {NoStart}]
  /\ number \in [Starts -> Pids \cup {NoPid}] /\ pid \in [Starts -> Pids \cup {NoPid}]
  /\ author \in [Starts -> Starts \cup {NoStart}]

\* Only a start in the background comes to the pid file, and opens it once.
DaemonsOnly ==
  /\ \A s \in Starts : startPc[s] = "none" => s \notin daemon
  /\ \A s \in Starts : startPc[s] \in {"fork", "unlinkpid", "openpid", "writepid"} => s \in daemon
  /\ \A s \in Starts : startPc[s] \in {"none", "fork", "unlinkpid", "openpid"} => opened[s] = NoStart
  /\ \A s \in Starts : startPc[s] = "writepid" => opened[s] # NoStart

\* No two processes that live have the same number.
NumbersDiffer ==
  \A s \in Starts : Up!Living(s) =>
    /\ pid[s] # NoPid /\ pid[s] \notin others
    /\ \A r \in Starts : Up!Living(r) /\ pid[r] = pid[s] => r = s

\* The number in a file is that of the start that wrote it, which has it as long as it lives.
NumbersWritten ==
  /\ \A f \in Starts : number[f] # NoPid =>
       /\ author[f] \in Starts /\ number[f] = pid[author[f]]
       /\ startPc[author[f]] \in {"unlink", "bind", "listen", "up", "inuse", "failed", "gone"}
  /\ missed \subseteq {s \in Starts : startPc[s] = "gone"}

\* A start that has bound the path and has it no more, or found it taken.
PathTaken ==
  \A s \in Starts : startPc[s] \in {"listen", "up", "inuse"} /\ path # s =>
    \E r \in Starts \ {s} : path = r \/ startPc[r] \in {"bind", "gone", "failed"}

\* While nobody else moves, the last start finds the directory as it left it.
Undisturbed(s) ==
  /\ startPc[s] \notin {"none", "inuse"}
  /\ startPc[s] = "bind" => path = NoStart
  /\ startPc[s] \in {"listen", "up"} => path = s
  /\ startPc[s] = "openpid" => pidFile = NoStart
  /\ startPc[s] = "writepid" => pidFile = s /\ opened[s] = s
  /\ s \in daemon /\ startPc[s] \in {"unlink", "bind", "listen", "up"} =>
       IF opened[s] = NoStart THEN pidFile = NoStart ELSE pidFile = s /\ number[s] = pid[s]

AloneUndisturbed ==
  alone /\ latest # NoStart =>
    /\ \A r \in Starts \ {latest} : Up!Settled(r)
    /\ Undisturbed(latest)

StartInv ==
  /\ StartTypes /\ DaemonsOnly
  /\ NumbersDiffer /\ NumbersWritten
  /\ PathTaken /\ AloneUndisturbed

LEMMA InitStartInv == Up!Init => StartInv
  BY StartAssumption
     DEF Up!Init, StartInv, StartTypes, StartPcs, DaemonsOnly, NumbersDiffer, NumbersWritten,
     PathTaken, AloneUndisturbed, Up!Living

LEMMA StepTypesAndDaemons ==
  ASSUME StartInv, [Up!Next]_StartVars
  PROVE  StartTypes' /\ DaemonsOnly'
  <1> USE StartAssumption DEF StartInv, StartTypes, StartPcs, DaemonsOnly, Up!GoTo, Up!files,
          Up!processes, Up!NewPid
  <1>1. ASSUME NEW s \in Starts, Up!Begin(s)
        PROVE  StartTypes' /\ DaemonsOnly'
    BY <1>1 DEF Up!Begin
  <1>2. ASSUME NEW s \in Starts, Up!Fork(s)
        PROVE  StartTypes' /\ DaemonsOnly'
    BY <1>2 DEF Up!Fork
  <1>3. ASSUME NEW s \in Starts, Up!UnlinkPid(s) \/ Up!OpenPidFails(s)
        PROVE  StartTypes' /\ DaemonsOnly'
    BY <1>3 DEF Up!UnlinkPid, Up!OpenPidFails
  <1>4. ASSUME NEW s \in Starts, Up!OpenPid(s)
        PROVE  StartTypes' /\ DaemonsOnly'
    BY <1>4 DEF Up!OpenPid
  <1>5. ASSUME NEW s \in Starts, Up!WritePid(s)
        PROVE  StartTypes' /\ DaemonsOnly'
    BY <1>5 DEF Up!WritePid
  <1>6. ASSUME NEW s \in Starts, Up!UnlinkSocket(s) \/ Up!Bind(s)
        PROVE  StartTypes' /\ DaemonsOnly'
    BY <1>6 DEF Up!UnlinkSocket, Up!Bind
  <1>7. ASSUME NEW s \in Starts, Up!Listen(s) \/ Up!ServerFails(s) \/ Up!Death(s)
        PROVE  StartTypes' /\ DaemonsOnly'
    BY <1>7 DEF Up!Listen, Up!ServerFails, Up!Death
  <1>8. CASE Up!Kill \/ Up!OtherBegins \/ Up!OtherEnds
    BY <1>8 DEF Up!Kill, Up!OtherBegins, Up!OtherEnds
  <1>9. CASE UNCHANGED StartVars
    BY <1>9 DEF StartVars
  <1>10. QED
    BY <1>1, <1>2, <1>3, <1>4, <1>5, <1>6, <1>7, <1>8, <1>9 DEF Up!Next

\* A process that begins gets a number that nobody has.
LEMMA StepNumbersDiffer ==
  ASSUME StartInv, [Up!Next]_StartVars
  PROVE  NumbersDiffer'
  <1> USE StartAssumption DEF StartInv, StartTypes, StartPcs, NumbersDiffer, Up!GoTo, Up!files,
          Up!processes, Up!Living
  <1>1. ASSUME NEW s \in Starts, Up!Begin(s) \/ Up!Fork(s)
        PROVE  NumbersDiffer'
    <2>1. CASE Up!Fork(s) /\ UNCHANGED pid
      BY <2>1 DEF Up!Fork
    <2>2. CASE Up!NewPid(s)
      <3>1. PICK p \in Pids : Up!Free(p) /\ pid' = [pid EXCEPT ![s] = p]
        BY <2>2 DEF Up!NewPid
      <3>2. others' = others /\ \A r \in Starts \ {s} : startPc'[r] = startPc[r]
        BY <1>1 DEF Up!Begin, Up!Fork
      <3>3. \A r \in Starts : Up!Living(r) => pid[r] # p
        BY <3>1 DEF Up!Free, Up!Holders
      <3>4. QED BY <3>1, <3>2, <3>3 DEF Up!Free
    <2>3. QED BY <1>1, <2>1, <2>2 DEF Up!Begin, Up!Fork
  <1>2. ASSUME NEW s \in Starts,
               \/ Up!UnlinkPid(s) \/ Up!OpenPid(s) \/ Up!OpenPidFails(s) \/ Up!WritePid(s)
               \/ Up!UnlinkSocket(s) \/ Up!Bind(s) \/ Up!Listen(s) \/ Up!ServerFails(s)
               \/ Up!Death(s)
        PROVE  NumbersDiffer'
    <2>1. /\ pid' = pid /\ others' = others
          /\ \A r \in Starts : startPc'[r] \notin {"none", "gone"} => Up!Living(r)
      BY <1>2 DEF Up!UnlinkPid, Up!OpenPid, Up!OpenPidFails, Up!WritePid, Up!UnlinkSocket,
         Up!Bind, Up!Listen, Up!ServerFails, Up!Death
    <2>2. QED BY <2>1
  <1>3. CASE Up!Kill \/ Up!OtherEnds
    BY <1>3 DEF Up!Kill, Up!OtherEnds
  <1>4. CASE Up!OtherBegins
    BY <1>4 DEF Up!OtherBegins, Up!Free, Up!Holders
  <1>5. CASE UNCHANGED StartVars
    BY <1>5 DEF StartVars
  <1>6. QED BY <1>1, <1>2, <1>3, <1>4, <1>5 DEF Up!Next

\* "spider -k" finds the number of a start that lives, and nobody else has it, or of one that
\* has ended.
LEMMA StepNumbersWritten ==
  ASSUME StartInv, [Up!Next]_StartVars
  PROVE  NumbersWritten'
  <1> USE StartAssumption DEF StartInv, StartTypes, StartPcs, NumbersWritten, Up!GoTo, Up!files,
          Up!processes
  <1>1. ASSUME NEW s \in Starts, Up!Begin(s) \/ Up!Fork(s)
        PROVE  NumbersWritten'
    <2>1. /\ startPc[s] \in {"none", "fork"}
          /\ \A r \in Starts \ {s} : startPc'[r] = startPc[r] /\ pid'[r] = pid[r]
          /\ UNCHANGED <<number, author, missed>>
      BY <1>1, Zenon DEF Up!Begin, Up!Fork, Up!NewPid
    <2>2. QED BY <2>1
  <1>2. ASSUME NEW s \in Starts,
               \/ Up!UnlinkPid(s) \/ Up!OpenPidFails(s) \/ Up!UnlinkSocket(s) \/ Up!Bind(s)
               \/ Up!Listen(s) \/ Up!ServerFails(s) \/ Up!Death(s)
        PROVE  NumbersWritten'
    <2>1. /\ UNCHANGED <<number, author, pid, missed>>
          /\ \A r \in Starts : startPc[r] = "gone" => startPc'[r] = "gone"
          /\ \A r \in Starts :
               startPc[r] \in {"unlink", "bind", "listen", "up", "inuse", "failed", "gone"} =>
               startPc'[r] \in {"unlink", "bind", "listen", "up", "inuse", "failed", "gone"}
      BY <1>2 DEF Up!UnlinkPid, Up!OpenPidFails, Up!UnlinkSocket, Up!Bind, Up!Listen,
         Up!ServerFails, Up!Death
    <2>2. QED BY <2>1
  <1>3. ASSUME NEW s \in Starts, Up!OpenPid(s) PROVE NumbersWritten'
    BY <1>3 DEF Up!OpenPid
  <1>4. ASSUME NEW s \in Starts, Up!WritePid(s) PROVE NumbersWritten'
    <2>1. opened[s] \in Starts /\ startPc[s] = "writepid"
      BY <1>4 DEF Up!WritePid, DaemonsOnly
    <2>2. QED BY <1>4, <2>1 DEF Up!WritePid
  <1>5. CASE Up!Kill
    <2> DEFINE by == author[pidFile]
    <2>1. by \in Starts /\ number[pidFile] = pid[by]
      BY <1>5 DEF Up!Kill
    <2>2. startPc[by] # "gone" =>
            number[pidFile] \notin others /\ Up!Holders(number[pidFile]) \ {by} = {}
      BY <1>5, <2>1 DEF Up!Kill, NumbersDiffer, Up!Living, Up!Holders
    <2>3. missed' \subseteq missed \cup {by} /\ (startPc[by] # "gone" => missed' = missed)
      BY <1>5, <2>2 DEF Up!Kill
    <2>4. UNCHANGED <<startPc, number, author, pid>>
      BY <1>5 DEF Up!Kill
    <2> HIDE DEF by
    <2>5. QED BY <2>1, <2>3, <2>4
  <1>6. CASE Up!OtherBegins \/ Up!OtherEnds \/ UNCHANGED StartVars
    BY <1>6 DEF Up!OtherBegins, Up!OtherEnds, StartVars
  <1>7. QED BY <1>1, <1>2, <1>3, <1>4, <1>5, <1>6 DEF Up!Next

LEMMA StepPathTaken ==
  ASSUME StartInv, [Up!Next]_StartVars
  PROVE  PathTaken'
  <1> USE StartAssumption DEF StartInv, StartTypes, StartPcs, PathTaken, Up!GoTo, Up!files, Up!processes
  <1>1. ASSUME NEW s \in Starts, Up!Begin(s) PROVE PathTaken'
    BY <1>1 DEF Up!Begin, Up!NewPid
  <1>2. ASSUME NEW s \in Starts, Up!Fork(s) PROVE PathTaken'
    BY <1>2 DEF Up!Fork, Up!NewPid
  <1>3. ASSUME NEW s \in Starts,
               Up!UnlinkPid(s) \/ Up!OpenPid(s) \/ Up!OpenPidFails(s) \/ Up!WritePid(s)
        PROVE  PathTaken'
    BY <1>3 DEF Up!UnlinkPid, Up!OpenPid, Up!OpenPidFails, Up!WritePid
  <1>4. ASSUME NEW s \in Starts, Up!UnlinkSocket(s) PROVE PathTaken'
    BY <1>4 DEF Up!UnlinkSocket
  <1>5. ASSUME NEW s \in Starts, Up!Bind(s) PROVE PathTaken'
    BY <1>5 DEF Up!Bind
  <1>6. ASSUME NEW s \in Starts, Up!Listen(s) PROVE PathTaken'
    BY <1>6 DEF Up!Listen
  <1>7. ASSUME NEW s \in Starts, Up!ServerFails(s) \/ Up!Death(s) PROVE PathTaken'
    BY <1>7 DEF Up!ServerFails, Up!Death
  <1>8. CASE Up!Kill \/ Up!OtherBegins \/ Up!OtherEnds
    BY <1>8 DEF Up!Kill, Up!OtherBegins, Up!OtherEnds
  <1>9. CASE UNCHANGED StartVars
    BY <1>9 DEF StartVars
  <1>10. QED
    BY <1>1, <1>2, <1>3, <1>4, <1>5, <1>6, <1>7, <1>8, <1>9 DEF Up!Next

LEMMA StepAlone ==
  ASSUME StartInv, [Up!Next]_StartVars
  PROVE  AloneUndisturbed'
  <1> USE StartAssumption DEF StartInv, StartTypes, StartPcs, DaemonsOnly, AloneUndisturbed,
          Undisturbed, Up!Settled, Up!Looping, Up!GoTo, Up!files, Up!processes
  <1>1. ASSUME NEW s \in Starts, Up!Begin(s) PROVE AloneUndisturbed'
    BY <1>1 DEF Up!Begin, Up!NewPid
  <1>2. ASSUME NEW s \in Starts, Up!Fork(s) \/ Up!UnlinkPid(s) PROVE AloneUndisturbed'
    BY <1>2 DEF Up!Fork, Up!UnlinkPid, Up!NewPid
  <1>3. ASSUME NEW s \in Starts, Up!OpenPid(s) PROVE AloneUndisturbed'
    BY <1>3 DEF Up!OpenPid
  <1>4. ASSUME NEW s \in Starts, Up!OpenPidFails(s) PROVE AloneUndisturbed'
    BY <1>4 DEF Up!OpenPidFails
  <1>5. ASSUME NEW s \in Starts, Up!WritePid(s) PROVE AloneUndisturbed'
    BY <1>5 DEF Up!WritePid
  <1>6. ASSUME NEW s \in Starts, Up!UnlinkSocket(s) PROVE AloneUndisturbed'
    BY <1>6 DEF Up!UnlinkSocket
  <1>7. ASSUME NEW s \in Starts, Up!Bind(s) PROVE AloneUndisturbed'
    BY <1>7 DEF Up!Bind
  <1>8. ASSUME NEW s \in Starts, Up!Listen(s) PROVE AloneUndisturbed'
    BY <1>8 DEF Up!Listen
  <1>9. ASSUME NEW s \in Starts, Up!ServerFails(s) PROVE AloneUndisturbed'
    BY <1>9 DEF Up!ServerFails
  <1>10. ASSUME NEW s \in Starts, Up!Death(s) PROVE AloneUndisturbed'
    BY <1>10 DEF Up!Death
  <1>11. CASE Up!Kill \/ Up!OtherBegins \/ Up!OtherEnds
    <2>1. UNCHANGED <<startPc, daemon, path, pidFile, opened, number, pid, latest, alone>>
      BY <1>11 DEF Up!Kill, Up!OtherBegins, Up!OtherEnds
    <2>2. QED BY <2>1
  <1>12. CASE UNCHANGED StartVars
    BY <1>12 DEF StartVars
  <1>13. QED
    BY <1>1, <1>2, <1>3, <1>4, <1>5, <1>6, <1>7, <1>8, <1>9, <1>10, <1>11, <1>12 DEF Up!Next

\* However starts race, fail and die: the last one, if it began alone, has the path and the
\* pid file and is the process that "spider -k" finds by it, a server that lost the path lost
\* it to another, and "spider -k" finds another process than the start that wrote the number
\* only after that has ended (main, start_domainserver and kill_spider_backgroud).
THEOREM StartsAlwaysServe == MCSpec => []StartsServe
  <1> DEFINE Inv == of = "start" => StartInv
  <1>1. MCInit => Inv
    BY InitStartInv DEF MCInit
  <1>2. Inv /\ [MCNext]_mcVars => Inv'
    <2>1. SUFFICES ASSUME Inv, [MCNext]_mcVars, of' = "start"
                   PROVE  StartInv'
      OBVIOUS
    <2>2. of = "start"
      BY <2>1, SameComponent
    <2>3. QED
      BY <2>1, <2>2, StartMoves, StepTypesAndDaemons, StepNumbersDiffer, StepNumbersWritten,
         StepPathTaken, StepAlone DEF StartInv
  <1>3. Inv => StartsServe
    <2>1. SUFFICES ASSUME StartInv
                   PROVE  Up!LatestServes /\ Up!SomeoneServes /\ Up!OthersOnlyAfterDeath
      BY DEF StartsServe, Up!StartsServe
    <2>2. Up!LatestServes
      <3>1. SUFFICES ASSUME alone, latest # NoStart, startPc[latest] \in {"up", "inuse"}
                     PROVE  /\ startPc[latest] = "up" /\ path = latest
                            /\ latest \in daemon =>
                                 IF opened[latest] = NoStart THEN pidFile = NoStart
                                 ELSE /\ pidFile = latest
                                      /\ Up!Holders(number[pidFile]) = {latest}
                                      /\ number[pidFile] \notin others
        BY DEF Up!LatestServes
      <3>2. latest \in Starts /\ Undisturbed(latest)
        BY <2>1, <3>1 DEF StartInv, StartTypes, AloneUndisturbed
      <3>3. startPc[latest] = "up" /\ path = latest
        BY <3>1, <3>2 DEF Undisturbed
      <3>4. Up!Holders(pid[latest]) = {latest} /\ pid[latest] \notin others
        BY <2>1, <3>2, <3>3 DEF StartInv, NumbersDiffer, Up!Living, Up!Holders
      <3>5. QED BY <3>2, <3>3, <3>4 DEF Undisturbed
    <2>3. Up!SomeoneServes
      BY <2>1 DEF StartInv, PathTaken, Up!SomeoneServes
    <2>4. Up!OthersOnlyAfterDeath
      BY <2>1 DEF StartInv, NumbersWritten, Up!OthersOnlyAfterDeath
    <2>5. QED BY <2>2, <2>3, <2>4
  <1>4. QED BY <1>1, <1>2, <1>3, PTL DEF MCSpec

----------------------------------------------------------------------------
(* DynStr.                                                                 *)

LEMMA CutIs ==
  ASSUME NEW s \in Seq(Int), NEW n \in Nat
  PROVE  /\ Str!Cut(s, n) \in Seq(Int)
         /\ Len(Str!Cut(s, n)) = IF n < Len(s) THEN n ELSE Len(s)
         /\ \A i \in 1 .. Len(Str!Cut(s, n)) : Str!Cut(s, n)[i] = s[i]
  <1>1. PICK m \in Nat : m = IF n < Len(s) THEN n ELSE Len(s)
    OBVIOUS
  <1>2. m <= Len(s) /\ Str!Cut(s, n) = SubSeq(s, 1, m)
    BY <1>1 DEF Str!Cut
  <1>3. QED BY <1>1, <1>2

LEMMA PrefixIs ==
  ASSUME NEW s \in Seq(Int), NEW t \in Seq(Int), Len(s) <= Len(t),
         \A i \in 1 .. Len(s) : s[i] = t[i]
  PROVE  Str!IsPrefix(s, t)
  <1>1. SubSeq(s, 1, Len(s)) = SubSeq(t, 1, Len(s))
    OBVIOUS
  <1>2. QED BY <1>1 DEF Str!IsPrefix

\* What is put behind the end is not seen; else the text is kept up to the place.
TextPut(whole, text, offset, new) ==
  /\ whole \in Seq(Int)
  /\ Len(whole) = IF offset > Len(text) THEN Len(text) ELSE offset + Len(new)
  /\ \A i \in 1 .. Len(whole) :
       whole[i] = IF offset > Len(text) \/ i <= offset THEN text[i] ELSE new[i - offset]

LEMMA TextsJoined ==
  ASSUME NEW text \in Seq(Int), NEW new \in Seq(Int), NEW offset \in Nat,
         NEW whole, whole = Str!Joined(text, offset, new)
  PROVE  TextPut(whole, text, offset, new)
  <1> USE DEF TextPut
  <1>1. CASE offset > Len(text)
    BY <1>1 DEF Str!Joined
  <1>2. CASE offset <= Len(text)
    <2>1. PICK kept : kept = Str!Cut(text, offset)
      OBVIOUS
    <2>2. kept \in Seq(Int) /\ Len(kept) = offset /\ \A i \in 1 .. Len(kept) : kept[i] = text[i]
      BY <1>2, <2>1, CutIs
    <2>3. whole = kept \o new
      BY <1>2, <2>1 DEF Str!Joined
    <2>4. /\ whole \in Seq(Int) /\ Len(whole) = offset + Len(new)
          /\ \A i \in 1 .. Len(whole) : whole[i] = IF i <= offset THEN kept[i] ELSE new[i - offset]
      BY <2>2, <2>3
    <2>5. \A i \in 1 .. Len(whole) : i <= offset => i \in 1 .. Len(kept)
      BY <2>2, <2>4
    <2>6. QED BY <1>2, <2>2, <2>4, <2>5
  <1>3. QED BY <1>1, <1>2

\* As much of it as there is room for.
Fills(p, whole, size) ==
  /\ p \in Seq(Int)
  /\ Len(p) = IF size - 1 < Len(whole) THEN size - 1 ELSE Len(whole)
  /\ Str!IsPrefix(p, whole)
  /\ Len(whole) < size => p = whole

\* The text vsnprintf leaves.
LEMMA PrintedIs ==
  ASSUME NEW text \in Seq(Int), NEW new \in Seq(Int), NEW offset \in Nat, NEW size \in Nat,
         offset < size, NEW whole, whole = Str!Joined(text, offset, new),
         NEW p, p = Str!Printed(text, offset, new, size)
  PROVE  Fills(p, whole, size)
  <1>1. whole \in Seq(Int)
    BY TextsJoined DEF TextPut
  <1>2. p = Str!Cut(whole, size - 1) /\ size - 1 \in Nat
    BY DEF Str!Printed
  <1>3. /\ p \in Seq(Int)
        /\ Len(p) = IF size - 1 < Len(whole) THEN size - 1 ELSE Len(whole)
        /\ \A i \in 1 .. Len(p) : p[i] = whole[i]
    BY <1>1, <1>2, CutIs
  <1>4. Str!IsPrefix(p, whole)
    <2>1. Len(p) <= Len(whole)
      BY <1>1, <1>3
    <2>2. QED BY <1>1, <1>3, <2>1, PrefixIs
  <1>5. ASSUME Len(whole) < size PROVE p = whole
    <2>1. Len(p) = Len(whole)
      BY <1>1, <1>3, <1>5
    <2>2. QED BY <1>1, <1>3, <2>1, SeqEqual
  <1>6. QED BY <1>3, <1>4, <1>5 DEF Fills

LEMMA TextIs ==
  ASSUME NEW n \in Nat, strCalls \in Nat
  PROVE  Str!Text(n) \in Seq(Int) /\ Len(Str!Text(n)) = n
         /\ \A i \in 1 .. n : Str!Text(n)[i] = strCalls
  BY DEF Str!Text

CallTypes ==
  [of : {"dyn", "str", "part"}, text : Seq(Int), from : Nat, result : {"ok", "failed"}, limit : Int]
StringTypes == [text : Seq(Int), len : Nat, used : Nat, state : {"ok", "loops", "overrun"}]

StrTypes ==
  /\ strCalls \in Nat
  /\ before \in CallTypes
  /\ dyn \in [text : Seq(Int), len : Nat, memory : Nat]
  /\ str \in StringTypes

\* A string of a thread that can be used ends within its memory.
DynFits == dyn.len = dyn.memory => Len(dyn.text) < dyn.memory

\* So does the other one, and its "used" is not before the end of the text.
StrFits == str.state = "ok" => Len(str.text) < str.len /\ Len(str.text) <= str.used

StrInv == StrTypes /\ DynFits /\ StrFits /\ Str!DynWhole /\ Str!StrWhole

LEMMA InitStrInv == Str!Init => StrInv
  <1>1. SUFFICES ASSUME Str!Init PROVE StrInv
    OBVIOUS
  <1>2. StrTypes /\ DynFits /\ StrFits
    BY <1>1, StringAssumption
       DEF Str!Init, Str!NewDyn, Str!NewStr, StrTypes, StringTypes, CallTypes, DynFits, StrFits
  <1>3. Str!IsPrefix(<<>>, <<>>)
    <2>1. << >> \in Seq(Int) /\ Len(<< >>) = 0
      OBVIOUS
    <2>2. QED BY <2>1 DEF Str!IsPrefix
  <1>4. Str!DynWhole /\ Str!StrWhole
    BY <1>1, <1>3, StringAssumption
       DEF Str!Init, Str!NewDyn, Str!NewStr, Str!DynWhole, Str!StrWhole
  <1>5. QED BY <1>2, <1>4 DEF StrInv

\* What a call notes.
LEMMA CallIs ==
  ASSUME StrInv, NEW string \in {"dyn", "str", "part"}, NEW text \in Seq(Int), NEW offset \in Nat,
         NEW n \in Nat, NEW limit \in Int, Str!Call(string, text, offset, n, limit),
         NEW whole, whole = Str!Joined(text, offset, Str!Text(n))
  PROVE  /\ before' = [of |-> string, text |-> whole, from |-> offset, result |-> "ok",
                       limit |-> limit]
         /\ whole \in Seq(Int) /\ strCalls' \in Nat /\ before' \in CallTypes
  <1>1. Str!Text(n) \in Seq(Int)
    BY TextIs DEF StrInv, StrTypes
  <1>2. whole \in Seq(Int)
    BY <1>1, TextsJoined DEF TextPut
  <1>3. before' = [of |-> string, text |-> whole, from |-> offset, result |-> "ok",
                   limit |-> limit]
    BY DEF Str!Call
  <1>4. strCalls' \in Nat
    BY DEF Str!Call, StrInv, StrTypes
  <1>5. QED BY <1>2, <1>3, <1>4 DEF CallTypes

LEMMA BuildKeeps ==
  ASSUME StrInv, Str!Usable, NEW append \in BOOLEAN, NEW n \in Nat, NEW limit \in Nat,
         Str!Build(append, n, limit), UNCHANGED str
  PROVE  StrInv'
  <1>1. PICK text \in Seq(Int), offset \in Nat, need \in Nat :
          /\ text = dyn.text
          /\ offset = (IF append THEN Len(text) ELSE 0)
          /\ need = offset + n + 1
    BY DEF StrInv, StrTypes
  <1>2. PICK size \in Nat :
          size = IF need > dyn.len /\ (limit = 0 \/ dyn.len < limit)
                 THEN (IF limit # 0 /\ limit < need THEN limit ELSE need) ELSE dyn.len
    BY DEF StrInv, StrTypes
  <1>3. PICK new, whole, p :
          /\ new = Str!Text(n) /\ whole = Str!Joined(text, offset, new)
          /\ p = Str!Printed(text, offset, new, size)
    OBVIOUS
  <1>4. dyn' = [dyn EXCEPT !.text = p, !.len = size, !.memory = size]
    <2>1. dyn.len = dyn.memory
      BY DEF Str!Usable
    <2>2. CASE need > dyn.len /\ (limit = 0 \/ dyn.len < limit)
      BY <1>1, <1>2, <1>3, <2>2 DEF Str!Build
    <2>3. CASE ~(need > dyn.len /\ (limit = 0 \/ dyn.len < limit))
      BY <1>1, <1>2, <1>3, <2>1, <2>3 DEF Str!Build, StrInv, StrTypes
    <2>4. QED BY <2>2, <2>3
  <1>5. dyn' = [text |-> p, len |-> size, memory |-> size]
    BY <1>4 DEF StrInv, StrTypes
  <1>6. /\ before' = [of |-> "dyn", text |-> whole, from |-> offset, result |-> "ok",
                      limit |-> limit]
        /\ whole \in Seq(Int) /\ strCalls' \in Nat /\ before' \in CallTypes
    <2>1. Str!Call("dyn", text, offset, n, limit)
      BY <1>1 DEF Str!Build
    <2>2. PICK string \in {"dyn", "str", "part"}, m \in Nat, max \in Int :
            /\ string = "dyn" /\ m = n /\ max = limit
            /\ Str!Call(string, text, offset, m, max)
      BY <2>1
    <2>3. whole = Str!Joined(text, offset, Str!Text(m))
      BY <1>3, <2>2
    <2>4. QED BY <2>2, <2>3, CallIs
  <1>7. offset < dyn.len /\ dyn.len <= size /\ offset < size
    BY <1>1, <1>2 DEF StrInv, StrTypes, DynFits, Str!Usable
  <1>8. new \in Seq(Int) /\ Len(new) = n
    BY <1>3, TextIs DEF StrInv, StrTypes
  <1>9. Fills(p, whole, size)
    BY <1>1, <1>3, <1>7, <1>8, PrintedIs
  <1>10. Len(whole) = offset + n
    <2>1. offset <= Len(text)
      BY <1>1
    <2>2. whole = Str!Joined(text, offset, new)
      BY <1>3
    <2>3. Len(whole) = offset + Len(new)
      BY <1>8, <2>1, <2>2, TextsJoined DEF TextPut
    <2>4. QED BY <1>8, <2>3
  <1>11. StrTypes'
    BY <1>5, <1>6, <1>9 DEF StrInv, StrTypes, Fills
  <1>12. Len(p) < size
    BY <1>6, <1>7, <1>9 DEF Fills
  <1>13. DynFits' /\ StrFits' /\ Str!StrWhole'
    BY <1>5, <1>6, <1>12 DEF StrInv, DynFits, StrFits, Str!StrWhole
  <1>14. p # whole => limit # 0 /\ Len(p) = size - 1
    <2>1. SUFFICES ASSUME p # whole PROVE limit # 0 /\ Len(p) = size - 1
      OBVIOUS
    <2>2. size <= offset + n
      BY <1>9, <1>10, <2>1 DEF Fills
    <2>3. limit # 0
      BY <1>1, <1>2, <2>2 DEF StrInv, StrTypes
    <2>4. QED BY <1>9, <1>10, <2>2, <2>3 DEF Fills
  <1>15. Str!DynWhole'
    BY <1>5, <1>6, <1>9, <1>12, <1>14 DEF Fills, Str!DynWhole
  <1>16. QED BY <1>11, <1>13, <1>15 DEF StrInv

LEMMA BuildFailsKeeps ==
  ASSUME StrInv, Str!BuildFails
  PROVE  StrInv'
  <1>1. PICK append \in BOOLEAN, n \in Lengths :
          LET offset == IF append THEN Len(dyn.text) ELSE 0 IN
          /\ offset + n + 1 > dyn.len
          /\ dyn' = [dyn EXCEPT !.text = Str!Printed(@, offset, Str!Text(n), dyn.len),
                                !.len = offset + n + 1]
    BY Zenon DEF Str!BuildFails
  <1>2. n \in Nat
    BY StringAssumption
  <1>3. PICK text, size, offset, new :
          /\ text = dyn.text /\ size = dyn.len
          /\ offset = (IF append THEN Len(text) ELSE 0) /\ new = Str!Text(n)
    OBVIOUS
  <1>4. PICK p, whole :
          p = Str!Printed(text, offset, new, size) /\ whole = Str!Joined(text, offset, new)
    OBVIOUS
  <1>5. /\ offset + n + 1 > size
        /\ dyn' = [dyn EXCEPT !.text = p, !.len = offset + n + 1]
    BY <1>1, <1>3, <1>4
  <1>6. text \in Seq(Int) /\ new \in Seq(Int) /\ Len(new) = n /\ offset \in Nat
    BY <1>2, <1>3, TextIs DEF StrInv, StrTypes
  <1>7. size = dyn.memory /\ offset < size /\ size \in Nat
    BY <1>3 DEF Str!BuildFails, Str!Usable, StrInv, StrTypes, DynFits
  <1>8. p \in Seq(Int)
    BY <1>4, <1>6, <1>7, PrintedIs DEF Fills
  <1>9. /\ dyn'.len # dyn'.memory
        /\ dyn' \in [text : Seq(Int), len : Nat, memory : Nat]
    <2>1. dyn' = [text |-> p, len |-> offset + n + 1, memory |-> dyn.memory]
      BY <1>5 DEF StrInv, StrTypes
    <2>2. offset + n + 1 \in Nat /\ offset + n + 1 # dyn.memory /\ dyn.memory \in Nat
      BY <1>2, <1>5, <1>6, <1>7
    <2>3. QED BY <1>8, <2>1, <2>2
  <1>10. /\ before'.of = "dyn" /\ before'.result = "failed" /\ before' \in CallTypes
         /\ strCalls' \in Nat /\ str' = str
    <2>1. before' = [of |-> "dyn", text |-> before.text, from |-> before.from,
                     result |-> "failed", limit |-> before.limit]
      BY DEF Str!BuildFails, StrInv, StrTypes, CallTypes
    <2>2. QED BY <2>1 DEF Str!BuildFails, StrInv, StrTypes, CallTypes
  <1>11. QED
    BY <1>9, <1>10 DEF StrInv, StrTypes, DynFits, StrFits, Str!DynWhole, Str!StrWhole

\* A call on spd_str keeps the invariant if it leaves a prefix of its text, as long as it
\* should be, or a string that is used no more.
LEMMA StrKept ==
  ASSUME StrInv, UNCHANGED dyn, strCalls' \in Nat, before' \in CallTypes, before'.of # "dyn",
         str' \in StringTypes,
         str'.state = "ok" =>
           /\ Str!IsPrefix(str'.text, before'.text)
           /\ Len(str'.text) <= str'.used /\ Len(str'.text) < str'.len
           /\ Len(str'.text) < Len(before'.text) =>
                \/ Len(str'.text) = str'.len - 1
                \/ before'.of = "part" /\ Len(str'.text) = before'.from + before'.limit - 1
  PROVE  StrInv'
  BY DEF StrInv, StrTypes, DynFits, StrFits, Str!DynWhole, Str!StrWhole

\* The string a call finds, and where it puts its text.
LEMMA StrFound ==
  ASSUME StrInv, str.state = "ok", NEW append \in BOOLEAN
  PROVE  \E text \in Seq(Int), size, used, offset \in Nat :
           /\ text = str.text /\ size = str.len /\ used = str.used /\ offset = Str!Offset(append)
           /\ str = [text |-> text, len |-> size, used |-> used, state |-> "ok"]
           /\ Len(text) < size /\ Len(text) <= used
           /\ offset <= used /\ (offset > Len(text) => offset = used)
  BY DEF StrInv, StrTypes, StringTypes, StrFits, Str!Offset

LEMMA BuildStrKeeps ==
  ASSUME StrInv, Str!BuildStr
  PROVE  StrInv'
  <1>1. PICK append \in BOOLEAN, n \in Lengths, limit \in Limits \cup {-1} :
          /\ Str!Helper(append, n, limit)
          /\ Str!Call("str", str.text, Str!Offset(append), n, limit)
    BY DEF Str!BuildStr
  <1>2. n \in Nat /\ limit \in Int
    BY StringAssumption
  <1>3. PICK text \in Seq(Int), size, used, offset \in Nat :
          /\ text = str.text /\ size = str.len /\ used = str.used /\ offset = Str!Offset(append)
          /\ str = [text |-> text, len |-> size, used |-> used, state |-> "ok"]
          /\ Len(text) < size /\ Len(text) <= used
          /\ offset <= used /\ (offset > Len(text) => offset = used)
    BY StrFound, Zenon DEF Str!BuildStr
  <1>4. PICK new, whole, p :
          /\ new = Str!Text(n) /\ whole = Str!Joined(text, offset, new)
          /\ p = Str!Printed(text, offset, new, size)
    OBVIOUS
  <1>5. new \in Seq(Int) /\ Len(new) = n
    BY <1>2, <1>4, TextIs DEF StrInv, StrTypes
  <1>6. /\ before' = [of |-> "str", text |-> whole, from |-> offset, result |-> "ok",
                      limit |-> limit]
        /\ whole \in Seq(Int) /\ strCalls' \in Nat /\ before' \in CallTypes
    <2>1. PICK string \in {"dyn", "str", "part"} :
            string = "str" /\ Str!Call(string, text, offset, n, limit)
      BY <1>1, <1>3
    <2>2. QED BY <1>2, <1>3, <1>4, <2>1, CallIs
  <1>7. Len(whole) = IF offset > Len(text) THEN Len(text) ELSE offset + n
    BY <1>4, <1>5, TextsJoined DEF TextPut
  <1>8. /\ p \in Seq(Int) /\ Str!IsPrefix(p, whole) /\ Len(p) < size
        /\ Len(p) = IF size - 1 < Len(whole) THEN size - 1 ELSE Len(whole)
    <2>1. CASE offset < size
      <3>1. Fills(p, whole, size)
        BY <1>4, <1>5, <2>1, PrintedIs
      <3>2. QED BY <1>3, <1>6, <3>1 DEF Fills
    <2>2. CASE offset >= size
      <3>1. p = text /\ whole = text
        BY <1>3, <1>4, <2>2 DEF Str!Printed, Str!Joined
      <3>2. Str!IsPrefix(text, text)
        BY PrefixIs
      <3>3. QED BY <1>3, <3>1, <3>2
    <2>3. QED BY <2>1, <2>2
  <1>9. PICK end \in Nat : end = IF n + offset > size THEN size - 1 ELSE n + offset
    BY <1>2, <1>3
  <1>10. \/ str' = [str EXCEPT !.state = "overrun"]
         \/ str' = [str EXCEPT !.text = p, !.state = "loops"]
         \/ offset <= size /\ str' = [str EXCEPT !.text = p, !.used = end]
    <2>1. offset > size \/ offset <= size
      OBVIOUS
    <2>2. QED BY <1>1, <1>3, <1>4, <1>9, <2>1, Zenon DEF Str!Helper
  <1>11. CASE str' = [str EXCEPT !.state = "overrun"]
    <2>1. str' = [text |-> text, len |-> size, used |-> used, state |-> "overrun"]
      BY <1>3, <1>11
    <2>2. QED BY <1>6, <2>1, StrKept DEF StringTypes, Str!BuildStr
  <1>12. CASE str' = [str EXCEPT !.text = p, !.state = "loops"]
    <2>1. str' = [text |-> p, len |-> size, used |-> used, state |-> "loops"]
      BY <1>3, <1>12
    <2>2. QED BY <1>6, <1>8, <2>1, StrKept DEF StringTypes, Str!BuildStr
  <1>13. CASE offset <= size /\ str' = [str EXCEPT !.text = p, !.used = end]
    <2>1. str' = [text |-> p, len |-> size, used |-> end, state |-> "ok"]
      <3>1. str' = [str EXCEPT !.text = p, !.used = end]
        BY <1>13
      <3>2. str = [text |-> text, len |-> size, used |-> used, state |-> "ok"]
        BY <1>3
      <3>3. QED BY <3>1, <3>2
    <2>2. Len(p) <= end
      BY <1>2, <1>7, <1>8, <1>9
    <2>3. Len(p) < Len(whole) => Len(p) = size - 1
      BY <1>8
    <2>4. str' \in StringTypes
      BY <1>8, <2>1 DEF StringTypes
    <2>5. QED BY <1>6, <1>8, <2>1, <2>2, <2>3, <2>4, StrKept DEF Str!BuildStr
  <1>14. QED BY <1>10, <1>11, <1>12, <1>13

\* A part of the text that is put at a place leaves a beginning of the whole.
PartOf(p, whole, text, offset, m, n) ==
  /\ p \in Seq(Int) /\ Str!IsPrefix(p, whole)
  /\ Len(p) = IF offset > Len(text) THEN Len(text) ELSE offset + m
  /\ Len(whole) = IF offset > Len(text) THEN Len(text) ELSE offset + n

LEMMA PartIsPrefix ==
  ASSUME strCalls \in Nat, NEW text \in Seq(Int), NEW offset \in Nat, NEW n \in Nat,
         NEW m \in Nat, m <= n, NEW p, p = Str!Joined(text, offset, Str!Text(m)),
         NEW whole, whole = Str!Joined(text, offset, Str!Text(n))
  PROVE  PartOf(p, whole, text, offset, m, n)
  <1>1. PICK part, new : part = Str!Text(m) /\ new = Str!Text(n)
    OBVIOUS
  <1>2. /\ part \in Seq(Int) /\ Len(part) = m /\ \A i \in 1 .. m : part[i] = strCalls
        /\ new \in Seq(Int) /\ Len(new) = n /\ \A i \in 1 .. n : new[i] = strCalls
    BY <1>1, TextIs
  <1>3. TextPut(p, text, offset, part)
    BY <1>1, <1>2, TextsJoined
  <1>4. TextPut(whole, text, offset, new)
    BY <1>1, <1>2, TextsJoined
  <1>5. Len(p) <= Len(whole) /\ \A i \in 1 .. Len(p) : p[i] = whole[i]
    BY <1>2, <1>3, <1>4 DEF TextPut
  <1>6. QED
    <2>1. p \in Seq(Int) /\ whole \in Seq(Int)
      BY <1>3, <1>4 DEF TextPut
    <2>2. QED BY <1>2, <1>3, <1>4, <1>5, <2>1, PrefixIs DEF TextPut, PartOf

LEMMA CopySubstringKeeps ==
  ASSUME StrInv, Str!CopySubstring
  PROVE  StrInv'
  <1>1. PICK append \in BOOLEAN, escaped \in BOOLEAN, n \in Lengths, limit \in Limits \cup {-1} :
          /\ Str!Substring(append, n, limit, escaped)
          /\ Str!Call("part", str.text, Str!Offset(append), n, limit)
    BY DEF Str!CopySubstring
  <1>2. n \in Nat /\ limit \in Int
    BY StringAssumption
  <1>3. PICK text \in Seq(Int), size, used, offset \in Nat :
          /\ text = str.text /\ size = str.len /\ used = str.used /\ offset = Str!Offset(append)
          /\ str = [text |-> text, len |-> size, used |-> used, state |-> "ok"]
          /\ Len(text) < size /\ Len(text) <= used
          /\ offset <= used /\ (offset > Len(text) => offset = used)
    BY StrFound, Zenon DEF Str!CopySubstring
  <1>4. PICK whole : whole = Str!Joined(text, offset, Str!Text(n))
    OBVIOUS
  <1>5. /\ before' = [of |-> "part", text |-> whole, from |-> offset, result |-> "ok",
                      limit |-> limit]
        /\ strCalls' \in Nat /\ before' \in CallTypes
    <2>1. PICK string \in {"dyn", "str", "part"} :
            string = "part" /\ Str!Call(string, text, offset, n, limit)
      BY <1>1, <1>3
    <2>2. QED BY <1>2, <1>3, <1>4, <2>1, CallIs
  <1>6. PICK max \in Nat : max > 0 /\ max = IF limit < 1 THEN size ELSE limit
    BY <1>2, <1>3
  <1>7. PICK w \in Str!Ends(max, escaped) :
          IF n >= w /\ (w = 0 \/ offset + w < size - 3)
          THEN Str!Written(offset + (max - 1), Str!Joined(text, offset, Str!Text(max - 1)), used + w)
          ELSE Str!Written(offset + n, Str!Joined(text, offset, Str!Text(n)), used + n)
    BY <1>1, <1>3, <1>6, Zenon DEF Str!Substring
  <1>8. w \in Nat /\ w >= max - 1
    BY <1>6 DEF Str!Ends
  <1>9. PICK m \in Nat, end \in Nat :
          /\ m <= n /\ used + m <= end /\ (m < n => m = max - 1)
          /\ Str!Written(offset + m, Str!Joined(text, offset, Str!Text(m)), end)
    <2>1. CASE n >= w /\ (w = 0 \/ offset + w < size - 3)
      <3>1. max - 1 \in Nat /\ used + w \in Nat /\ max - 1 <= n /\ used + (max - 1) <= used + w
        BY <1>2, <1>6, <1>8, <2>1
      <3>2. QED BY <1>7, <2>1, <3>1
    <2>2. CASE ~(n >= w /\ (w = 0 \/ offset + w < size - 3))
      <3>1. used + n \in Nat /\ n <= n /\ ~(n < n)
        BY <1>2
      <3>2. QED BY <1>2, <1>7, <2>2, <3>1
    <2>3. QED BY <2>1, <2>2
  <1>10. PICK p : p = Str!Joined(text, offset, Str!Text(m))
    OBVIOUS
  <1>11. /\ p \in Seq(Int) /\ Str!IsPrefix(p, whole)
         /\ Len(p) = IF offset > Len(text) THEN Len(text) ELSE offset + m
         /\ Len(whole) = IF offset > Len(text) THEN Len(text) ELSE offset + n
    <2>1. n \in Nat /\ m \in Nat /\ m <= n /\ strCalls \in Nat
      BY <1>2, <1>9 DEF StrInv, StrTypes
    <2>2. PartOf(p, whole, text, offset, m, n)
      BY <1>4, <1>10, <2>1, PartIsPrefix
    <2>3. QED BY <2>2 DEF PartOf
  <1>12. PICK state : state = IF offset + m >= size THEN "overrun" ELSE "ok"
    OBVIOUS
  <1>13. str' = [text |-> p, len |-> size, used |-> end, state |-> state]
    <2>1. Str!Written(offset + m, p, end)
      BY <1>9, <1>10
    <2>2. str.len = size /\ str.state = "ok"
      BY <1>3
    <2>3. str' = [str EXCEPT !.text = p, !.used = end, !.state = state]
      BY <1>12, <2>1, <2>2 DEF Str!Written
    <2>4. QED BY <1>3, <2>3
  <1>14. str' \in StringTypes
    BY <1>11, <1>12, <1>13 DEF StringTypes
  <1>15. state = "ok" =>
           /\ Len(p) <= end /\ Len(p) < size
           /\ Len(p) < Len(whole) => Len(p) = size - 1 \/ Len(p) = offset + limit - 1
    <2>1. SUFFICES ASSUME state = "ok"
                   PROVE  /\ Len(p) <= end /\ Len(p) < size
                          /\ Len(p) < Len(whole) =>
                               Len(p) = size - 1 \/ Len(p) = offset + limit - 1
      OBVIOUS
    <2>2. offset + m < size
      BY <1>3, <1>9, <1>12, <2>1
    <2>3. Len(p) <= end /\ Len(p) < size
      BY <1>3, <1>9, <1>11, <2>2, SMTT(30)
    <2>4. ASSUME Len(p) < Len(whole)
          PROVE  Len(p) = size - 1 \/ Len(p) = offset + limit - 1
      <3>1. Len(p) = offset + m /\ m = max - 1
        BY <1>2, <1>3, <1>9, <1>11, <2>4, SMTT(30)
      <3>2. CASE limit < 1
        BY <1>3, <1>6, <2>2, <3>1, <3>2
      <3>3. CASE limit >= 1
        BY <1>2, <1>6, <3>1, <3>3
      <3>4. QED BY <1>2, <3>2, <3>3
    <2>5. QED BY <2>3, <2>4
  <1>16. QED BY <1>5, <1>11, <1>13, <1>14, <1>15, StrKept DEF Str!CopySubstring

\* A call that prints nothing.
LEMMA NothingPrinted ==
  ASSUME StrInv, NEW p \in Seq(Int), Str!Call("str", p, Len(p), 0, 0)
  PROVE  /\ before' \in CallTypes /\ before'.of = "str" /\ strCalls' \in Nat
         /\ before'.text \in Seq(Int)
         /\ Str!IsPrefix(p, before'.text) /\ Len(before'.text) = Len(p)
  <1>1. PICK string \in {"dyn", "str", "part"}, offset \in Nat, n \in Nat, limit \in Int :
          /\ string = "str" /\ offset = Len(p) /\ n = 0 /\ limit = 0
          /\ Str!Call(string, p, offset, n, limit)
    OBVIOUS
  <1>2. PICK new, whole : new = Str!Text(n) /\ whole = Str!Joined(p, offset, new)
    OBVIOUS
  <1>3. /\ before' = [of |-> string, text |-> whole, from |-> offset, result |-> "ok",
                      limit |-> limit]
        /\ whole \in Seq(Int) /\ strCalls' \in Nat /\ before' \in CallTypes
    BY <1>1, <1>2, CallIs
  <1>4. new \in Seq(Int) /\ Len(new) = 0
    BY <1>1, <1>2, TextIs DEF StrInv, StrTypes
  <1>5. Len(whole) = Len(p) /\ \A i \in 1 .. Len(p) : p[i] = whole[i]
    <2>1. whole = Str!Joined(p, offset, new) /\ ~(offset > Len(p)) /\ offset + Len(new) = Len(p)
      BY <1>1, <1>2, <1>4
    <2>2. TextPut(whole, p, offset, new)
      BY <1>1, <1>4, <2>1, TextsJoined
    <2>3. QED BY <1>1, <2>1, <2>2 DEF TextPut
  <1>6. Len(p) <= Len(whole)
    BY <1>5
  <1>7. Str!IsPrefix(p, whole)
    BY <1>3, <1>5, <1>6, PrefixIs
  <1>8. QED BY <1>1, <1>3, <1>5, <1>7

LEMMA TruncateKeeps ==
  ASSUME StrInv, Str!Truncate
  PROVE  StrInv'
  <1>1. PICK end \in Nat : Str!Written(end, Str!Cut(str.text, end), end)
    <2>1. PICK n \in Lengths : Str!Shortened(n) \/ Str!Shortened(IF n > str.used THEN 0 ELSE str.used - n)
      BY DEF Str!Truncate
    <2>2. n \in Nat /\ (IF n > str.used THEN 0 ELSE str.used - n) \in Nat
      BY StringAssumption DEF StrInv, StrTypes, StringTypes
    <2>3. QED BY <2>1, <2>2 DEF Str!Shortened
  <1>2. PICK text, p : text = str.text /\ p = Str!Cut(text, end)
    OBVIOUS
  <1>3. text \in Seq(Int) /\ str.len \in Nat /\ Len(text) < str.len
    BY <1>2 DEF StrInv, StrTypes, StringTypes, StrFits, Str!Truncate
  <1>4. p \in Seq(Int) /\ Len(p) <= end /\ Len(p) <= Len(text)
    BY <1>2, <1>3, CutIs
  <1>5. PICK state : state = IF end >= str.len THEN "overrun" ELSE "ok"
    OBVIOUS
  <1>6. str' = [text |-> p, len |-> str.len, used |-> end, state |-> state]
    BY <1>1, <1>2, <1>5 DEF StrInv, StrTypes, StringTypes, Str!Written, Str!Truncate
  <1>7. str' \in StringTypes
    BY <1>3, <1>4, <1>5, <1>6 DEF StringTypes
  <1>8. Str!Call("str", p, Len(p), 0, 0)
    BY <1>6 DEF Str!Truncate
  <1>9. /\ before' \in CallTypes /\ before'.of = "str" /\ strCalls' \in Nat
        /\ before'.text \in Seq(Int)
        /\ Str!IsPrefix(p, before'.text) /\ Len(before'.text) = Len(p)
    BY <1>4, <1>8, NothingPrinted
  <1>10. QED BY <1>3, <1>4, <1>6, <1>7, <1>9, StrKept DEF Str!Truncate

LEMMA MendKeeps ==
  ASSUME StrInv, Str!Mend
  PROVE  StrInv'
  <1>1. PICK p \in Seq(Int), used \in Nat :
          /\ used = Len(p) /\ Len(p) <= Len(str.text)
          /\ str' = [text |-> p, len |-> str.len, used |-> used, state |-> "ok"]
    <2>1. CASE Str!Reset
      <3>1. str' = [text |-> << >>, len |-> str.len, used |-> 0, state |-> "ok"]
        BY <2>1 DEF StrInv, StrTypes, StringTypes, Str!Reset, Str!Mend
      <3>2. << >> \in Seq(Int) /\ Len(<< >>) = 0 /\ 0 <= Len(str.text)
        BY DEF StrInv, StrTypes, StringTypes
      <3>3. QED BY <3>1, <3>2
    <2>2. CASE Str!Update
      <3>1. str' = [text |-> str.text, len |-> str.len, used |-> Len(str.text), state |-> "ok"]
        BY <2>2 DEF StrInv, StrTypes, StringTypes, Str!Update, Str!Mend
      <3>2. str.text \in Seq(Int) /\ Len(str.text) <= Len(str.text) /\ Len(str.text) \in Nat
        BY DEF StrInv, StrTypes, StringTypes
      <3>3. QED BY <3>1, <3>2
    <2>3. QED BY <2>1, <2>2 DEF Str!Mend
  <1>2. str.len \in Nat /\ Len(p) < str.len
    BY <1>1 DEF StrInv, StrTypes, StringTypes, StrFits, Str!Mend
  <1>3. str' \in StringTypes
    BY <1>1, <1>2 DEF StringTypes
  <1>4. Str!Call("str", p, Len(p), 0, 0)
    BY <1>1 DEF Str!Mend
  <1>5. /\ before' \in CallTypes /\ before'.of = "str" /\ strCalls' \in Nat
        /\ before'.text \in Seq(Int)
        /\ Str!IsPrefix(p, before'.text) /\ Len(before'.text) = Len(p)
    BY <1>4, NothingPrinted
  <1>6. QED BY <1>1, <1>2, <1>3, <1>5, StrKept DEF Str!Mend

LEMMA StepStrInv ==
  ASSUME StrInv, [Str!Next]_StrVars
  PROVE  StrInv'
  <1>1. CASE Str!BuildDyn
    <2>1. PICK append \in BOOLEAN, n \in Lengths, limit \in Limits : Str!Build(append, n, limit)
      BY <1>1 DEF Str!BuildDyn
    <2>2. n \in Nat /\ limit \in Nat
      BY StringAssumption
    <2>3. QED BY <1>1, <2>1, <2>2, BuildKeeps DEF Str!BuildDyn
  <1>2. CASE UNCHANGED StrVars
    BY <1>2 DEF StrInv, StrTypes, DynFits, StrFits, Str!DynWhole, Str!StrWhole, StrVars
  <1>3. QED
    BY <1>1, <1>2, BuildFailsKeeps, BuildStrKeeps, CopySubstringKeeps, TruncateKeeps, MendKeeps
       DEF Str!Next

\* After whatever calls: a string of a thread holds what was printed into it, cut at the end
\* of its buffer only, and within its memory unless that could not grow; so does an spd_str
\* as long as no call has gone on for ever or past the end of the buffer, but for a part that
\* was cut at its limit (spd_thread_dynamic_str_build_helper, __spd_str_helper,
\* __spd_str_helper2, spd_str_truncate).
THEOREM StringsAlwaysKept == MCSpec => []StringsKept
  <1> DEFINE Inv == of = "str" => StrInv
  <1>1. MCInit => Inv
    BY InitStrInv DEF MCInit
  <1>2. Inv /\ [MCNext]_mcVars => Inv'
    <2>1. SUFFICES ASSUME Inv, [MCNext]_mcVars, of' = "str"
                   PROVE  StrInv'
      OBVIOUS
    <2>2. of = "str"
      BY <2>1, SameComponent
    <2>3. QED BY <2>1, <2>2, StrMoves, StepStrInv
  <1>3. Inv => StringsKept
    BY DEF StrInv, StringsKept, Str!StringsKept
  <1>4. QED BY <1>1, <1>2, <1>3, PTL DEF MCSpec

----------------------------------------------------------------------------
(* Engines.                                                                *)

EngineVars == <<first, after, config_lock, engineCall, engineCalls, registered, dragged>>

LEMMA EngineMoves ==
  ASSUME of = "engine", [MCNext]_mcVars
  PROVE  [En!Next]_EngineVars
  <1>1. EngineNext \/ UNCHANGED EngineVars
    BY Zenon DEF MCNext, mcVars, By, ConfNext, SaveNext, LinkNext, LogNext, TestNext, StrNext,
       WriteNext, ClientNext, StartNext, EngineVars
  <1>2. EngineNext => En!Next
    BY DEF EngineNext, By, En!Next
  <1>3. QED BY <1>1, <1>2

EngineTypes ==
  /\ first \in EngineSet \union {NoEngine}
  /\ after \in [EngineSet -> EngineSet \union {NoEngine}]
  /\ registered \in Seq(EngineSet)

\* The list leads through the engines registered, each once, and ends there.
Linked ==
  /\ registered = <<>> => first = NoEngine
  /\ registered # <<>> =>
       /\ first = registered[1]
       /\ after[registered[Len(registered)]] = NoEngine
  /\ \A i \in 1 .. Len(registered) - 1 : after[registered[i]] = registered[i + 1]
  /\ \A i, j \in 1 .. Len(registered) : registered[i] = registered[j] => i = j

EngineInv == ~dragged => EngineTypes /\ Linked /\ config_lock = NoEngine

LEMMA InitEngineInv == En!Init => EngineInv
  <1>1. En!Init => EngineTypes /\ registered = <<>> /\ first = NoEngine /\ config_lock = NoEngine
    BY DEF En!Init, EngineTypes
  <1>2. registered = <<>> /\ first = NoEngine => Linked
    BY DEF Linked
  <1>3. QED BY <1>1, <1>2 DEF EngineInv

\* The instance has a copy of Cardinality.
LEMMA SameCardinality == En!Cardinality(EngineSet) = Cardinality(EngineSet)
  BY Zenon DEF En!Cardinality, Cardinality

\* The members of Walks: how long they are, and what they pass.
LEMMA WalkTypes ==
  ASSUME NEW w \in En!Walks
  PROVE  /\ w \in Seq(EngineSet) /\ Len(w) \in Nat /\ DOMAIN w = 1 .. Len(w)
         /\ \A i \in 1 .. Len(w) : /\ w[i] \in EngineSet
                                   /\ i = 1 => w[i] = first
                                   /\ i # 1 => w[i] = after[w[i - 1]]
  <1>1. Cardinality(EngineSet) \in Nat
    BY EngineAssumption, FS_CardinalityType
  <1> DEFINE Sizes == 0 .. Cardinality(EngineSet)
  <1>2. PICK n \in Sizes : w \in [1 .. n -> EngineSet]
    <2>1. w \in UNION {[1 .. n -> EngineSet] : n \in Sizes}
      BY SameCardinality, Zenon DEF En!Walks
    <2>2. QED
      <3> HIDE DEF Sizes
      <3> QED BY <2>1, Zenon
  <1>3. n \in Nat
    BY <1>1
  <1>4. w \in Seq(EngineSet)
    BY <1>2, <1>3
  <1>5. Len(w) \in Nat /\ DOMAIN w = 1 .. Len(w) /\ w \in [1 .. Len(w) -> EngineSet]
    BY <1>4, LenProperties
  <1>6. \A i \in DOMAIN w : w[i] = IF i = 1 THEN first ELSE after[w[i - 1]]
    BY DEF En!Walks
  <1>7. QED BY <1>4, <1>5, <1>6

\* Nothing but the engines registered is passed, and in their order.
LEMMA WalkIsPrefix ==
  ASSUME EngineTypes, Linked, NEW w \in En!Walks
  PROVE  /\ Len(w) <= Len(registered)
         /\ \A i \in 1 .. Len(w) : w[i] = registered[i]
  <1>0. /\ Len(registered) \in Nat
        /\ \A i \in 1 .. Len(registered) : registered[i] \in EngineSet
        /\ Len(registered) = 0 => registered = <<>>
    BY LenProperties, ElementOfSeq DEF EngineTypes
  <1>1. /\ Len(w) \in Nat
        /\ \A i \in 1 .. Len(w) : /\ w[i] \in EngineSet
                                  /\ i = 1 => w[i] = first
                                  /\ i # 1 => w[i] = after[w[i - 1]]
    BY WalkTypes
  <1> DEFINE T == {i \in 1 .. Len(w) : ~ (i \in 1 .. Len(registered) /\ w[i] = registered[i])}
  <1>2. T = {}
    <2>1. SUFFICES ASSUME T # {} PROVE FALSE
      OBVIOUS
    <2>2. T \subseteq Nat
      BY <1>1
    <2>3. PICK k \in T : \A y \in T : k <= y
      <3> HIDE DEF T
      <3> QED BY <2>1, <2>2, LeastNumber
    <2>4. k \in 1 .. Len(w) /\ ~ (k \in 1 .. Len(registered) /\ w[k] = registered[k])
      OBVIOUS
    <2>5. CASE k = 1
      <3>1. w[k] = first /\ w[k] \in EngineSet
        BY <1>1, <2>4, <2>5
      <3>2. registered # <<>>
        BY <3>1, EngineAssumption DEF Linked
      <3>3. first = registered[1]
        BY <3>2 DEF Linked
      <3>4. 1 \in 1 .. Len(registered)
        BY <1>0, <3>2
      <3>5. QED BY <2>4, <2>5, <3>1, <3>3, <3>4
    <2>6. CASE k # 1
      <3>1. k - 1 \in 1 .. Len(w) /\ ~ (k <= k - 1)
        BY <1>1, <2>4, <2>6
      <3>2. k - 1 \notin T
        BY <2>3, <3>1
      <3>3. k - 1 \in 1 .. Len(registered) /\ w[k - 1] = registered[k - 1]
        BY <3>1, <3>2
      <3>4. w[k] = after[registered[k - 1]] /\ w[k] \in EngineSet
        BY <1>1, <2>4, <2>6, <3>3
      <3>5. registered # <<>>
        BY <1>0, <3>3, EmptySeq
      <3>6. k - 1 # Len(registered)
        BY <3>4, <3>5, EngineAssumption DEF Linked
      <3>7. k - 1 \in 1 .. Len(registered) - 1 /\ k \in 1 .. Len(registered) /\ (k - 1) + 1 = k
        BY <1>0, <2>4, <3>3, <3>6, <1>1
      <3>8. after[registered[k - 1]] = registered[k]
        BY <3>7 DEF Linked
      <3>9. QED BY <2>4, <3>4, <3>7, <3>8
    <2>7. QED BY <2>5, <2>6
  <1>3. \A i \in 1 .. Len(w) : i \in 1 .. Len(registered) /\ w[i] = registered[i]
    BY <1>2
  <1>4. Len(w) <= Len(registered)
    <2>1. CASE Len(w) = 0
      BY <1>0, <2>1
    <2>2. CASE Len(w) # 0
      <3>1. Len(w) \in 1 .. Len(w)
        BY <1>1, <2>2
      <3>2. Len(w) \in 1 .. Len(registered)
        BY <1>3, <3>1
      <3>3. QED BY <1>0, <3>2
    <2>3. QED BY <2>1, <2>2
  <1>5. QED BY <1>3, <1>4

\* The first engines registered, as many as one likes, are a walk.
LEMMA PrefixIsWalk ==
  ASSUME EngineTypes, Linked, NEW k \in 0 .. Len(registered)
  PROVE  /\ [i \in 1 .. k |-> registered[i]] \in En!Walks
         /\ Len([i \in 1 .. k |-> registered[i]]) = k
  <1> DEFINE w == [i \in 1 .. k |-> registered[i]]
  <1>1. /\ Len(registered) \in Nat
        /\ \A i \in 1 .. Len(registered) : registered[i] \in EngineSet
        /\ Len(registered) # 0 => registered # <<>>
    BY LenProperties, ElementOfSeq, EmptySeq DEF EngineTypes
  <1>2. k \in Nat /\ k <= Len(registered)
    BY <1>1
  <1>3. w \in [1 .. k -> EngineSet]
    BY <1>1, <1>2
  <1>4. w \in Seq(EngineSet) /\ Len(w) = k
    <2>1. w \in Seq(EngineSet)
      BY <1>2, <1>3
    <2>2. Len(w) \in Nat /\ DOMAIN w = 1 .. Len(w) /\ DOMAIN w = 1 .. k
      BY <2>1, LenProperties
    <2>3. ASSUME NEW m \in Nat, 1 .. m = 1 .. k PROVE m = k
      BY <1>2, <2>3
    <2>4. Len(w) = k
      <3> HIDE DEF w
      <3> QED BY <2>2, <2>3, Zenon
    <2>5. QED BY <2>1, <2>4
  <1>5. k <= Cardinality(EngineSet)
    <2>1. \A i, j \in 1 .. k : w[i] = w[j] => i = j
      BY <1>1, <1>2 DEF Linked
    <2>2. IsFiniteSet(1 .. k) /\ Cardinality(1 .. k) = k
      BY <1>2, FS_Interval
    <2>3. ~ (Cardinality(EngineSet) < Cardinality(1 .. k))
      <3> HIDE DEF w
      <3> QED BY <1>3, <2>1, <2>2, EngineAssumption, FS_PigeonHole
    <2>4. Cardinality(EngineSet) \in Nat
      BY EngineAssumption, FS_CardinalityType
    <2>5. QED BY <1>2, <2>2, <2>3, <2>4
  <1>6. k \in 0 .. Cardinality(EngineSet)
    BY <1>2, <1>5, EngineAssumption, FS_CardinalityType
  <1>7. \A i \in DOMAIN w : w[i] = IF i = 1 THEN first ELSE after[w[i - 1]]
    <2>1. SUFFICES ASSUME NEW i \in 1 .. k
                   PROVE  registered[i] = IF i = 1 THEN first ELSE after[w[i - 1]]
      OBVIOUS
    <2>2. i \in Nat /\ i >= 1 /\ Len(registered) # 0
      BY <1>1, <1>2
    <2>3. CASE i = 1
      BY <1>1, <2>2, <2>3 DEF Linked
    <2>4. CASE i # 1
      <3>1. i - 1 \in 1 .. k /\ i - 1 \in 1 .. Len(registered) - 1 /\ (i - 1) + 1 = i
        BY <1>1, <1>2, <2>2, <2>4
      <3>2. after[registered[i - 1]] = registered[i]
        BY <3>1 DEF Linked
      <3>3. w[i - 1] = registered[i - 1]
        BY <3>1
      <3>4. QED BY <2>4, <3>2, <3>3
    <2>5. QED BY <2>3, <2>4
  <1>8. w \in UNION {[1 .. n -> EngineSet] : n \in 0 .. Cardinality(EngineSet)}
    BY <1>3, <1>6
  <1>9. w \in En!Walks
    <2> HIDE DEF w
    <2> QED BY <1>7, <1>8, SameCardinality, Zenon DEF En!Walks
  <1>10. QED BY <1>4, <1>9

\* The walk that comes to an end is that of the engines registered.
LEMMA LinkedWay ==
  ASSUME EngineTypes, Linked
  PROVE  ~ En!Endless /\ En!Way = registered
  <1>1. /\ Len(registered) \in Nat
        /\ \A i \in 1 .. Len(registered) : registered[i] \in EngineSet
        /\ Len(registered) # 0 <=> registered # <<>>
        /\ registered \in [1 .. Len(registered) -> EngineSet]
    BY LenProperties, ElementOfSeq, EmptySeq DEF EngineTypes
  <1>2. registered \in En!Walks
    <2>1. registered = [i \in 1 .. Len(registered) |-> registered[i]]
      BY <1>1
    <2>2. Len(registered) \in 0 .. Len(registered)
      BY <1>1
    <2>3. QED BY <2>1, <2>2, PrefixIsWalk
  <1>3. En!Ends(registered)
    BY DEF Linked, En!Ends
  <1>4. ASSUME NEW w \in En!Walks, En!Ends(w)
        PROVE  w = registered
    <2>1. w \in Seq(EngineSet) /\ Len(w) \in Nat /\ (Len(w) = 0 <=> w = <<>>)
      BY WalkTypes, EmptySeq
    <2>2. Len(w) <= Len(registered) /\ \A i \in 1 .. Len(w) : w[i] = registered[i]
      BY WalkIsPrefix
    <2>3. Len(w) = Len(registered)
      <3>1. SUFFICES ASSUME Len(w) < Len(registered) PROVE FALSE
        BY <1>1, <2>1, <2>2
      <3>2. CASE w = <<>>
        <4>1. first = NoEngine
          BY <1>4, <3>2 DEF En!Ends
        <4>2. registered # <<>> /\ 1 \in 1 .. Len(registered)
          BY <1>1, <2>1, <3>1
        <4>3. first \in EngineSet
          BY <1>1, <4>2 DEF Linked
        <4>4. QED BY <4>1, <4>3, EngineAssumption
      <3>3. CASE w # <<>>
        <4>1. NoEngine = after[w[Len(w)]]
          BY <1>4, <3>3 DEF En!Ends
        <4>2. Len(w) \in 1 .. Len(w) /\ Len(w) \in 1 .. Len(registered) - 1
              /\ Len(w) + 1 \in 1 .. Len(registered)
          BY <1>1, <2>1, <3>1, <3>3
        <4>3. after[w[Len(w)]] = registered[Len(w) + 1]
          BY <2>2, <4>2 DEF Linked
        <4>4. QED BY <1>1, <4>1, <4>2, <4>3, EngineAssumption
      <3>4. QED BY <3>2, <3>3
    <2>4. QED BY <2>1, <2>2, <2>3, SeqEqual DEF EngineTypes
  <1>5. En!Way = registered
    BY <1>2, <1>3, <1>4 DEF En!Way
  <1>6. QED BY <1>2, <1>3, <1>5 DEF En!Endless

\* An engine is found where it was registered, behind the one registered before it.
LEMMA FoundWhereRegistered ==
  ASSUME EngineTypes, Linked, NEW k \in 1 .. Len(registered)
  PROVE  /\ En!Found(registered[k])
         /\ En!Before(registered[k]) = IF k = 1 THEN NoEngine ELSE registered[k - 1]
  <1> DEFINE e == registered[k]
             v == [i \in 1 .. k |-> registered[i]]
  <1>1. Len(registered) \in Nat /\ k \in Nat /\ k >= 1 /\ k \in 0 .. Len(registered)
    BY LenProperties DEF EngineTypes
  <1>2. v \in En!Walks /\ Len(v) = k
    BY <1>1, PrefixIsWalk
  <1>3. v # <<>> /\ \A i \in DOMAIN v : v[i] = e <=> i = Len(v)
    <2>1. DOMAIN v = 1 .. k /\ \A i \in 1 .. k : v[i] = registered[i]
      OBVIOUS
    <2>2. \A i \in 1 .. k : i \in 1 .. Len(registered)
      BY <1>1
    <2>3. \A i \in 1 .. k : registered[i] = registered[k] <=> i = k
      BY <2>2 DEF Linked
    <2>4. v # <<>>
      BY <1>1, <2>1
    <2>5. QED
      <3> HIDE DEF v
      <3> QED BY <1>2, <2>1, <2>3, <2>4
  <1>4. v \in En!WalksTo(e)
    <2> HIDE DEF v, e
    <2> QED BY <1>2, <1>3 DEF En!WalksTo
  <1>5. ASSUME NEW w \in En!WalksTo(e)
        PROVE  Len(w) = k /\ \A i \in 1 .. k : w[i] = registered[i]
    <2>1. w \in En!Walks /\ w # <<>> /\ \A i \in DOMAIN w : w[i] = e <=> i = Len(w)
      BY <1>5 DEF En!WalksTo
    <2>2. Len(w) \in Nat /\ DOMAIN w = 1 .. Len(w) /\ w \in Seq(EngineSet)
      BY <2>1, WalkTypes
    <2>3. Len(w) <= Len(registered) /\ \A i \in 1 .. Len(w) : w[i] = registered[i]
      BY <2>1, WalkIsPrefix
    <2>4. Len(w) # 0
      BY <2>1, <2>2, EmptySeq
    <2>5. Len(w) \in 1 .. Len(w) /\ Len(w) \in 1 .. Len(registered)
      BY <1>1, <2>2, <2>3, <2>4
    <2>6. registered[Len(w)] = registered[k]
      BY <2>1, <2>2, <2>3, <2>5
    <2>7. Len(w) = k
      BY <2>5, <2>6 DEF Linked
    <2>8. QED BY <2>3, <2>7
  <1> HIDE DEF v, e
  <1>6. En!Found(e)
    BY <1>4 DEF En!Found
  <1>7. PICK u : u = (CHOOSE w \in En!WalksTo(e) : TRUE)
    OBVIOUS
  <1>8. u \in En!WalksTo(e)
    BY <1>4, <1>7
  <1>9. Len(u) = k /\ \A i \in 1 .. k : u[i] = registered[i]
    BY <1>5, <1>8
  <1>10. En!Before(e) = IF Len(u) = 1 THEN NoEngine ELSE u[Len(u) - 1]
    BY <1>7 DEF En!Before
  <1>11. k # 1 => k - 1 \in 1 .. k
    BY <1>1
  <1>12. En!Before(e) = IF k = 1 THEN NoEngine ELSE registered[k - 1]
    BY <1>9, <1>10, <1>11
  <1>13. QED BY <1>6, <1>12 DEF e

LEMMA FoundIsRegistered ==
  ASSUME EngineTypes, Linked, NEW e, En!Found(e)
  PROVE  \E k \in 1 .. Len(registered) : registered[k] = e
  <1>1. PICK w : w \in En!WalksTo(e)
    BY DEF En!Found
  <1>2. w \in En!Walks /\ w # <<>> /\ \A i \in DOMAIN w : w[i] = e <=> i = Len(w)
    BY <1>1 DEF En!WalksTo
  <1>3. Len(w) \in Nat /\ DOMAIN w = 1 .. Len(w) /\ w \in Seq(EngineSet)
    BY <1>2, WalkTypes
  <1>4. Len(w) <= Len(registered) /\ \A i \in 1 .. Len(w) : w[i] = registered[i]
    BY <1>2, WalkIsPrefix
  <1>5. Len(w) # 0 /\ Len(registered) \in Nat
    BY <1>2, <1>3, EmptySeq, LenProperties DEF EngineTypes
  <1>6. Len(w) \in 1 .. Len(w) /\ Len(w) \in 1 .. Len(registered)
    BY <1>3, <1>4, <1>5
  <1>7. QED BY <1>2, <1>3, <1>4, <1>6

\* What RemoveFirst takes out.
LEMMA RemoveFirstEngine ==
  ASSUME NEW s \in Seq(EngineSet), NEW e
  PROVE  /\ (\A i \in 1 .. Len(s) : s[i] # e) => En!RemoveFirst(s, e) = s
         /\ \A k \in 1 .. Len(s) :
              s[k] = e /\ (\A i \in 1 .. Len(s) : s[i] = e => i = k)
                => En!RemoveFirst(s, e) = RemoveAt(s, k)
  <1>1. (\A i \in 1 .. Len(s) : s[i] # e) => En!RemoveFirst(s, e) = s
    BY DEF En!RemoveFirst
  <1>2. ASSUME NEW k \in 1 .. Len(s), s[k] = e, \A i \in 1 .. Len(s) : s[i] = e => i = k
        PROVE  En!RemoveFirst(s, e) = RemoveAt(s, k)
    <2> DEFINE I == {i \in 1 .. Len(s) : s[i] = e}
    <2>1. Len(s) \in Nat /\ k \in Nat
      BY LenProperties
    <2>2. I = {k}
      BY <1>2
    <2>3. En!Min(I) = k
      <3>1. En!Min({k}) = k
        BY <2>1 DEF En!Min
      <3>2. QED BY <2>2, <3>1
    <2>4. En!SelectInSeq(s, LAMBDA v : v = e) = k
      BY <2>2, <2>3 DEF En!SelectInSeq
    <2>5. En!RemoveFirst(s, e) = En!RemoveAt(s, k)
      BY <1>2, <2>4 DEF En!RemoveFirst
    <2>6. En!RemoveAt(s, k) = RemoveAt(s, k)
      BY DEF En!RemoveAt, RemoveAt
    <2>7. QED BY <2>5, <2>6
  <1>3. QED BY <1>1, <1>2

\* A new engine at the end.
LEMMA RegisterLinks ==
  ASSUME NEW t, NEW e \in EngineSet, En!Register(t, e),
         EngineTypes, Linked, config_lock = NoEngine, after[e] = NoEngine
  PROVE  EngineTypes' /\ Linked' /\ config_lock' = NoEngine
  <1> DEFINE n == Len(registered)
  <1>1. /\ n \in Nat /\ DOMAIN registered = 1 .. n
        /\ \A i \in 1 .. n : registered[i] \in EngineSet
        /\ n # 0 <=> registered # <<>>
    BY LenProperties, ElementOfSeq, EmptySeq DEF EngineTypes
  <1>2. ~ En!Endless /\ En!Way = registered
    BY LinkedWay
  <1>3. /\ En!Append1(e) /\ registered' = Append(registered, e) /\ config_lock' = NoEngine
        /\ e \notin En!Range(registered)
    BY <1>2 DEF En!Register
  <1>4. /\ registered' \in Seq(EngineSet) /\ Len(registered') = n + 1
        /\ \A i \in 1 .. n : registered'[i] = registered[i]
        /\ registered'[n + 1] = e /\ registered' # <<>>
    <2>1. registered' = Append(registered, e) /\ registered \in Seq(EngineSet)
      BY <1>3 DEF EngineTypes
    <2>2. QED BY <1>1, <2>1
  <1>5. \A i \in 1 .. n : registered[i] # e
    BY <1>1, <1>3 DEF En!Range
  <1>6. CASE n = 0
    <2>1. first' = e /\ after' = after
      BY <1>1, <1>3, <1>6 DEF En!Append1, Linked
    <2>2. EngineTypes'
      BY <1>4, <2>1 DEF EngineTypes
    <2>3. Linked'
      <3>1. registered'[1] = e /\ registered'[Len(registered')] = e /\ Len(registered') = 1
        BY <1>4, <1>6
      <3>2. after'[registered'[Len(registered')]] = NoEngine /\ first' = registered'[1]
        BY <2>1, <3>1
      <3>3. \A i \in 1 .. Len(registered') - 1 : FALSE
        BY <3>1
      <3>4. \A i, j \in 1 .. Len(registered') : i = j
        BY <3>1
      <3>5. QED BY <1>4, <3>2, <3>3, <3>4 DEF Linked
    <2>4. QED BY <1>3, <2>2, <2>3
  <1>7. CASE n # 0
    <2>1. n \in 1 .. n /\ 1 \in 1 .. n
      BY <1>1, <1>7
    <2>2. first = registered[1] /\ first # NoEngine /\ registered[n] \in EngineSet
      BY <1>1, <1>7, <2>1, EngineAssumption DEF Linked
    <2>3. En!Last(En!Way) = registered[n]
      BY <1>2 DEF En!Last
    <2>4. first' = first /\ after' = [after EXCEPT ![registered[n]] = e]
      BY <1>3, <2>2, <2>3 DEF En!Append1
    <2>5. /\ after'[registered[n]] = e
          /\ \A f \in EngineSet : f # registered[n] => after'[f] = after[f]
      BY <2>2, <2>4 DEF EngineTypes
    <2>6. EngineTypes'
      BY <1>4, <2>4 DEF EngineTypes
    <2>7. after'[e] = NoEngine
      BY <1>5, <2>1, <2>5
    <2>8. ASSUME NEW i \in 1 .. Len(registered') - 1
          PROVE  after'[registered'[i]] = registered'[i + 1]
      <3>1. i \in 1 .. n
        BY <1>1, <1>4
      <3>2. CASE i = n
        BY <1>4, <2>5, <3>1, <3>2
      <3>3. CASE i # n
        <4>1. i \in 1 .. n - 1 /\ i + 1 \in 1 .. n
          <5> HIDE DEF n
          <5> QED BY <1>1, <3>1, <3>3
        <4>2. registered[i] # registered[n]
          BY <2>1, <3>1, <3>3 DEF Linked
        <4>3. after'[registered[i]] = after[registered[i]]
          BY <1>1, <2>5, <3>1, <4>2
        <4>4. after[registered[i]] = registered[i + 1]
          BY <4>1 DEF Linked
        <4>5. QED BY <1>4, <3>1, <4>1, <4>3, <4>4
      <3>4. QED BY <3>2, <3>3
    <2>9. ASSUME NEW i \in 1 .. Len(registered'), NEW j \in 1 .. Len(registered'),
                 registered'[i] = registered'[j]
          PROVE  i = j
      <3>1. (i \in 1 .. n \/ i = n + 1) /\ (j \in 1 .. n \/ j = n + 1)
        BY <1>1, <1>4
      <3>2. QED BY <1>4, <1>5, <2>9, <3>1 DEF Linked
    <2>10. first' = registered'[1] /\ after'[registered'[Len(registered')]] = NoEngine
      BY <1>4, <2>1, <2>2, <2>4, <2>7
    <2>11. Linked'
      BY <1>4, <2>8, <2>9, <2>10 DEF Linked
    <2>12. QED BY <1>3, <2>6, <2>11
  <1>8. QED BY <1>6, <1>7

\* The k-th engine taken out.
LEMMA DeregisterLinks ==
  ASSUME EngineTypes, Linked, NEW k \in 1 .. Len(registered),
         En!TakeOut(registered[k]), registered' = RemoveAt(registered, k)
  PROVE  EngineTypes' /\ Linked'
  <1> DEFINE n == Len(registered)
             e == registered[k]
  <1>1. /\ n \in Nat /\ k \in Nat /\ k >= 1 /\ k <= n
        /\ \A i \in 1 .. n : registered[i] \in EngineSet
        /\ registered # <<>> /\ e \in EngineSet
    BY LenProperties, ElementOfSeq, EmptySeq DEF EngineTypes
  <1>2. /\ registered' \in Seq(EngineSet) /\ Len(registered') = n - 1
        /\ \A j \in 1 .. n - 1 : registered'[j] = registered[IF j < k THEN j ELSE j + 1]
        /\ n - 1 = 0 <=> registered' = <<>>
    <2>1. registered \in Seq(EngineSet)
      BY DEF EngineTypes
    <2>2. /\ RemoveAt(registered, k) \in Seq(EngineSet)
          /\ Len(RemoveAt(registered, k)) = n - 1
          /\ \A j \in 1 .. n - 1 :
               RemoveAt(registered, k)[j] = registered[IF j < k THEN j ELSE j + 1]
      BY <2>1, RemovedAt
    <2>3. QED BY <2>2, EmptySeq
  <1>3. /\ k = n => after[e] = NoEngine
        /\ k < n => k + 1 \in 1 .. n /\ after[e] = registered[k + 1]
    BY <1>1 DEF Linked
  <1>4. En!Before(e) = IF k = 1 THEN NoEngine ELSE registered[k - 1]
    BY FoundWhereRegistered
  <1>5. /\ \A j \in 1 .. n - 1 : j < k => j \in 1 .. n /\ registered'[j] = registered[j]
        /\ \A j \in 1 .. n - 1 : j >= k => j + 1 \in 1 .. n /\ registered'[j] = registered[j + 1]
    <2>1. \A j \in 1 .. n - 1 : j \in 1 .. n /\ j + 1 \in 1 .. n /\ (j >= k => ~ (j < k))
      <3> HIDE DEF n, e
      <3> QED BY <1>1
    <2>2. QED BY <1>2, <2>1
  <1>6. ASSUME NEW i \in 1 .. n - 1, NEW j \in 1 .. n - 1, registered'[i] = registered'[j]
        PROVE  i = j
    BY <1>1, <1>5, <1>6 DEF Linked
  <1>7. CASE k = 1
    <2>1. first' = after[e] /\ after' = after
      BY <1>4, <1>7 DEF En!TakeOut
    <2>2. EngineTypes'
      BY <1>1, <1>2, <2>1 DEF EngineTypes
    <2>3. ASSUME NEW i \in 1 .. (n - 1) - 1
          PROVE  after'[registered'[i]] = registered'[i + 1]
      <3>1. /\ i \in 1 .. n - 1 /\ i + 1 \in 1 .. n - 1 /\ i >= k /\ i + 1 >= k
        BY <1>1, <1>7
      <3>2. registered'[i] = registered[i + 1] /\ registered'[i + 1] = registered[(i + 1) + 1]
        BY <1>5, <3>1
      <3>3. QED BY <2>1, <3>1, <3>2 DEF Linked
    <2>4. ASSUME n - 1 # 0
          PROVE  first' = registered'[1] /\ after'[registered'[n - 1]] = NoEngine
      <3>1. 1 \in 1 .. n - 1 /\ n - 1 \in 1 .. n - 1 /\ 1 >= k /\ n - 1 >= k /\ k < n
        <4> HIDE DEF n, e
        <4> QED BY <1>1, <1>7, <2>4
      <3>2. registered'[1] = registered[k + 1] /\ registered'[n - 1] = registered[(n - 1) + 1]
        BY <1>5, <1>7, <3>1
      <3>3. (n - 1) + 1 = n
        BY <1>1
      <3>4. after[registered[n]] = NoEngine
        BY <1>1 DEF Linked
      <3>5. QED BY <1>3, <2>1, <3>1, <3>2, <3>3, <3>4, Zenon
    <2>5. n - 1 = 0 => first' = NoEngine
      BY <1>1, <1>3, <1>7, <2>1
    <2>6. Linked'
      BY <1>2, <1>6, <2>3, <2>4, <2>5 DEF Linked
    <2>7. QED BY <2>2, <2>6
  <1>8. CASE k # 1
    <2>1. k - 1 \in 1 .. n /\ k - 1 \in 1 .. n - 1 /\ (k - 1) + 1 = k /\ 1 \in 1 .. n
      BY <1>1, <1>8
    <2>2. registered[k - 1] \in EngineSet /\ En!Before(e) = registered[k - 1]
      BY <1>1, <1>4, <1>8, <2>1
    <2>3. first' = first /\ after' = [after EXCEPT ![registered[k - 1]] = after[e]]
      BY <2>2, EngineAssumption DEF En!TakeOut
    <2>4. /\ after'[registered[k - 1]] = after[e]
          /\ \A f \in EngineSet : f # registered[k - 1] => after'[f] = after[f]
      BY <2>2, <2>3 DEF EngineTypes
    <2>5. EngineTypes'
      BY <1>1, <1>2, <2>3 DEF EngineTypes
    <2>6. first = registered[1]
      BY <1>1 DEF Linked
    <2>7. first' = registered'[1]
      <3>1. 1 \in 1 .. n - 1 /\ 1 < k
        BY <1>1, <1>8
      <3>2. QED BY <1>5, <2>3, <2>6, <3>1
    <2>8. ASSUME NEW i \in 1 .. n, i # k - 1
          PROVE  after'[registered[i]] = after[registered[i]]
      BY <1>1, <2>1, <2>4, <2>8 DEF Linked
    <2>9. ASSUME NEW i \in 1 .. (n - 1) - 1
          PROVE  after'[registered'[i]] = registered'[i + 1]
      <3>1. i \in 1 .. n - 1 /\ i + 1 \in 1 .. n - 1
        BY <1>1
      <3>2. CASE i < k - 1
        <4>1. /\ registered'[i] = registered[i] /\ registered'[i + 1] = registered[i + 1]
              /\ i \in 1 .. n /\ i # k - 1
          BY <1>1, <1>5, <3>1, <3>2
        <4>2. after[registered[i]] = registered[i + 1]
          BY <3>1 DEF Linked
        <4>3. QED BY <2>8, <4>1, <4>2
      <3>3. CASE i = k - 1
        <4>1. registered'[i] = registered[k - 1] /\ registered'[i + 1] = registered[k + 1] /\ k < n
          BY <1>1, <1>5, <3>1, <3>3, <2>1
        <4>2. QED BY <1>3, <2>4, <4>1
      <3>4. CASE i > k - 1
        <4>1. /\ i >= k /\ i + 1 >= k /\ i + 1 \in 1 .. n /\ i + 1 # k - 1
          BY <1>1, <3>1, <3>4
        <4>2. registered'[i] = registered[i + 1] /\ registered'[i + 1] = registered[(i + 1) + 1]
          BY <1>5, <3>1, <4>1
        <4>3. after[registered[i + 1]] = registered[(i + 1) + 1]
          BY <3>1 DEF Linked
        <4>4. QED BY <2>8, <4>1, <4>2, <4>3
      <3>5. QED BY <1>1, <3>1, <3>2, <3>3, <3>4
    <2>10. after'[registered'[n - 1]] = NoEngine
      <3>1. n - 1 \in 1 .. n - 1 /\ n \in 1 .. n /\ (n - 1) + 1 = n
        BY <1>1, <1>8
      <3>2. CASE k = n
        <4>1. registered'[n - 1] = registered[k - 1]
          BY <1>1, <1>5, <3>1, <3>2
        <4>2. QED BY <1>3, <2>4, <3>2, <4>1
      <3>3. CASE k # n
        <4>1. n - 1 >= k /\ n # k - 1
          BY <1>1, <3>3
        <4>2. registered'[n - 1] = registered[n]
          BY <1>5, <3>1, <4>1
        <4>3. after[registered[n]] = NoEngine
          BY <1>1 DEF Linked
        <4>4. QED BY <2>8, <3>1, <4>1, <4>2, <4>3
      <3>4. QED BY <3>2, <3>3
    <2>11. n - 1 # 0
      BY <1>1, <1>8
    <2>12. Linked'
      BY <1>2, <1>6, <2>7, <2>9, <2>10, <2>11 DEF Linked
    <2>13. QED BY <2>5, <2>12
  <1>9. QED BY <1>7, <1>8

LEMMA StepEngineInv == EngineInv /\ [En!Next]_EngineVars => EngineInv'
  <1>1. SUFFICES ASSUME EngineInv, [En!Next]_EngineVars, ~dragged'
                 PROVE  EngineTypes' /\ Linked' /\ config_lock' = NoEngine
    BY DEF EngineInv
  <1>2. ASSUME NEW t \in Callers, NEW e \in EngineSet, En!Register(t, e)
        PROVE  EngineTypes' /\ Linked' /\ config_lock' = NoEngine
    <2>1. CASE first # NoEngine /\ En!Endless
      <3>1. dragged' = dragged
        BY <1>2, <2>1, Zenon DEF En!Register, En!Sticks
      <3>2. EngineTypes /\ Linked
        BY <1>1, <3>1, Zenon DEF EngineInv
      <3>3. QED BY <2>1, <3>2, LinkedWay
    <2>2. CASE ~ (first # NoEngine /\ En!Endless)
      <3>1. dragged' = (dragged \/ after[e] # NoEngine)
        BY <1>2, <2>2, Zenon DEF En!Register
      <3>2. EngineTypes /\ Linked /\ config_lock = NoEngine /\ after[e] = NoEngine
        BY <1>1, <3>1, Zenon DEF EngineInv
      <3>3. QED BY <1>2, <3>2, RegisterLinks
    <2>3. QED BY <2>1, <2>2
  <1>3. ASSUME NEW t \in Callers, NEW e \in EngineSet, En!Deregister(t, e)
        PROVE  EngineTypes' /\ Linked' /\ config_lock' = NoEngine
    <2>1. dragged' = dragged
      BY <1>3, Zenon DEF En!Deregister, En!Sticks
    <2>2. EngineTypes /\ Linked /\ config_lock = NoEngine
      BY <1>1, <2>1, Zenon DEF EngineInv
    <2>3. ~ En!Endless
      BY <2>2, LinkedWay
    <2>4. /\ IF En!Found(e) THEN En!TakeOut(e) ELSE UNCHANGED <<first, after>>
          /\ registered' = En!RemoveFirst(registered, e) /\ config_lock' = config_lock
      BY <1>3, <2>3, Zenon DEF En!Deregister
    <2>5. CASE En!Found(e)
      <3>1. PICK k \in 1 .. Len(registered) : registered[k] = e
        BY <2>2, <2>5, FoundIsRegistered
      <3>2. \A i \in 1 .. Len(registered) : registered[i] = e => i = k
        BY <2>2, <3>1 DEF Linked
      <3>3. registered' = RemoveAt(registered, k)
        BY <2>2, <2>4, <3>1, <3>2, RemoveFirstEngine DEF EngineTypes
      <3>4. QED BY <2>2, <2>4, <2>5, <3>1, <3>3, DeregisterLinks
    <2>6. CASE ~ En!Found(e)
      <3>1. \A i \in 1 .. Len(registered) : registered[i] # e
        BY <2>2, <2>6, FoundWhereRegistered
      <3>2. registered' = registered
        BY <2>2, <2>4, <3>1, RemoveFirstEngine DEF EngineTypes
      <3>3. QED BY <2>2, <2>4, <2>6, <3>2 DEF EngineTypes, Linked
    <2>7. QED BY <2>5, <2>6
  <1>4. ASSUME UNCHANGED <<first, after, config_lock, registered, dragged>>
        PROVE  EngineTypes' /\ Linked' /\ config_lock' = NoEngine
    <2>1. dragged' = dragged
      BY <1>4
    <2>2. EngineTypes /\ Linked /\ config_lock = NoEngine
      BY <1>1, <2>1, Zenon DEF EngineInv
    <2>3. QED BY <1>4, <2>2 DEF EngineTypes, Linked
  <1>5. CASE En!Next
    <2>1. PICK t \in Callers :
            \/ \E e \in EngineSet : En!Register(t, e) \/ En!Deregister(t, e)
            \/ En!Load(t) \/ En!FindEngine(t)
      BY <1>5 DEF En!Next
    <2>2. En!Load(t) \/ En!FindEngine(t)
            => UNCHANGED <<first, after, config_lock, registered, dragged>>
      BY DEF En!Load, En!FindEngine
    <2>3. QED BY <1>2, <1>3, <1>4, <2>1, <2>2
  <1>6. CASE UNCHANGED EngineVars
    BY <1>4, <1>6 DEF EngineVars
  <1>7. QED BY <1>1, <1>5, <1>6

\* After whatever calls of whatever threads: the list leads through the engines that are
\* registered, in their order, and comes to an end, and nobody keeps the lock, unless an
\* engine was registered again that still led on to another (spd_config_engine_register,
\* spd_config_engine_deregister).
THEOREM EnginesAlwaysListed == MCSpec => []EnginesListed
  <1> DEFINE Inv == of = "engine" => EngineInv
  <1>1. MCInit => Inv
    BY InitEngineInv DEF MCInit
  <1>2. Inv /\ [MCNext]_mcVars => Inv'
    <2>1. SUFFICES ASSUME Inv, [MCNext]_mcVars, of' = "engine"
                   PROVE  EngineInv'
      OBVIOUS
    <2>2. of = "engine"
      BY <2>1, SameComponent
    <2>3. QED BY <2>1, <2>2, EngineMoves, StepEngineInv
  <1>3. Inv => EnginesListed
    <2>1. SUFFICES ASSUME EngineInv PROVE En!EnginesListed
      BY DEF EnginesListed
    <2>2. CASE dragged
      BY <2>2, Zenon DEF En!EnginesListed
    <2>3. CASE ~ dragged
      <3>1. EngineTypes /\ Linked /\ config_lock = NoEngine
        BY <2>1, <2>3, Zenon DEF EngineInv
      <3>2. ~ En!Endless /\ En!Way = registered
        BY <3>1, LinkedWay
      <3>3. QED BY <3>1, <3>2, Zenon DEF En!EnginesListed
    <2>4. QED BY <2>2, <2>3
  <1>4. QED BY <1>1, <1>2, <1>3, PTL DEF MCSpec

----------------------------------------------------------------------------
(* The logger: what PartProofs shows, for the logger.conf of MCLibraries   *)
(* and for none.                                                           *)

LogVars == <<chains, verbs, writer, readers, stack, started, logged, nested>>

LEMMA LogMoves ==
  ASSUME of = "log", [MCNext]_mcVars
  PROVE  [Log!Next]_LogVars
  <1>1. LogNext \/ UNCHANGED LogVars
    BY Zenon DEF MCNext, mcVars, By, ConfNext, SaveNext, LinkNext, TestNext, StrNext, WriteNext,
       EngineNext, ClientNext, StartNext, LogVars
  <1>2. LogNext => Log!Next
    BY DEF LogNext, By, Log!Next, Log!Step
  <1>3. QED BY <1>1, <1>2

Part == INSTANCE PartProofs WITH Confs <- {{}, Channels}

\* The logger of the theorems is that of the run.
LEMMA SameInit == Log!Init => Part!Init
  BY DEF Log!Init, Part!Init

LEMMA SameInitLogger == Log!InitLogger => Part!InitLogger
  BY Zenon DEF Log!InitLogger, Part!InitLogger, Log!MakeLogchain, Part!MakeLogchain,
     Log!DefaultMark, Part!DefaultMark, Log!Levels, Part!Levels, Log!Debug, Part!Debug,
     Log!Verbose, Part!Verbose, Log!Reverse, Part!Reverse, Log!Cardinality, Part!Cardinality

LEMMA SameStep ==
  ASSUME NEW t \in Threads, Log!Step(t)
  PROVE  Part!Step(t)
  <1> USE DEF Log!At, Part!At, Log!Top, Part!Top, Log!Goto, Part!Goto, Log!Return, Part!Return,
         Log!Line, Part!Line, Log!Ends, Part!Ends, Log!Frame, Part!Frame, Log!Takes, Part!Takes,
         Log!Verbose, Part!Verbose, Log!Notice, Part!Notice
  <1>1. ASSUME NEW level \in Logged, Log!Log(t, level) PROVE Part!Log(t, level)
    BY <1>1, Zenon DEF Log!Log, Part!Log
  <1>2. Log!LogTest(t) => Part!LogTest(t)
    BY Zenon DEF Log!LogTest, Part!LogTest
  <1>3. Log!LogLock(t) => Part!LogLock(t)
    BY Zenon DEF Log!LogLock, Part!LogLock
  <1>4. Log!LogHeader(t) => Part!LogHeader(t)
    BY Zenon DEF Log!LogHeader, Part!LogHeader
  <1>5. Log!LogText(t) => Part!LogText(t)
    BY Zenon DEF Log!LogText, Part!LogText
  <1>6. Log!LogUnlock(t) => Part!LogUnlock(t)
    BY Zenon DEF Log!LogUnlock, Part!LogUnlock
  <1>7. Log!Signal(t) => Part!Signal(t)
    BY Zenon DEF Log!Signal, Part!Signal
  <1>8. Log!VerboseLine(t) => Part!VerboseLine(t)
    BY Zenon DEF Log!VerboseLine, Part!VerboseLine
  <1>9. Log!VerboseLock(t) => Part!VerboseLock(t)
    BY Zenon DEF Log!VerboseLock, Part!VerboseLock
  <1>10. Log!Call(t) => Part!Call(t)
    BY Zenon DEF Log!Call, Part!Call
  <1>11. Log!VerboseUnlock(t) => Part!VerboseUnlock(t)
    BY Zenon DEF Log!VerboseUnlock, Part!VerboseUnlock
  <1>12. Log!Register(t) => Part!Register(t)
    BY Zenon DEF Log!Register, Part!Register, Log!Range, Part!Range
  <1>13. Log!Unregister(t) => Part!Unregister(t)
    BY Zenon DEF Log!Unregister, Part!Unregister, Log!RemoveAt, Part!RemoveAt
  <1>14. Log!VerboseFails(t) => Part!VerboseFails(t)
    BY Zenon DEF Log!VerboseFails, Part!VerboseFails
  <1>15. QED
    BY <1>1, <1>2, <1>3, <1>4, <1>5, <1>6, <1>7, <1>8, <1>9, <1>10, <1>11, <1>12, <1>13, <1>14,
       Zenon DEF Log!Step, Part!Step

LEMMA SameNext ==
  ASSUME [Log!Next]_LogVars
  PROVE  [Part!Next]_(Part!vars)
  BY SameInitLogger, SameStep, Zenon DEF Log!Next, Part!Next, LogVars, Part!vars

LEMMA SameDelivery == Part!LinesDelivered => Log!LinesDelivered
  BY Zenon DEF Part!LinesDelivered, Log!LinesDelivered, Part!WholeLines, Log!WholeLines,
     Part!OnItsChains, Log!OnItsChains, Part!Heard, Log!Heard, Part!Takes, Log!Takes,
     Log!Cardinality, Part!Cardinality, Log!Range, Part!Range, Log!IsPrefix, Part!IsPrefix,
     Log!Verbose, Part!Verbose

LEMMA LogCardinality == \A S : Part!Cardinality(S) = Cardinality(S)
  BY Zenon DEF Part!Cardinality, Cardinality

\* The sections of logger.conf: their lines are numbered, their levels are levels.
LEMMA ChannelsNumbered == Part!ConfsNumbered
  <1>1. Cardinality({}) = 0
    BY FS_EmptySet
  <1>2. PICK a, b, c : /\ a = [line |-> 1, channel |-> "file", levels |-> {1, 4}]
                       /\ b = [line |-> 2, channel |-> "console", levels |-> {0, 1}]
                       /\ c = [line |-> 3, channel |-> "syslog", levels |-> {1}]
    OBVIOUS
  <1>3. Channels = {a, b, c} /\ a.line = 1 /\ b.line = 2 /\ c.line = 3
    BY <1>2 DEF Channels
  <1>4. Cardinality({a, b, c}) = 3
    <2>1. IsFiniteSet({a}) /\ Cardinality({a}) = 1
      BY FS_Singleton
    <2>2. b \notin {a} /\ {a} \cup {b} = {a, b}
      BY <1>3
    <2>3. IsFiniteSet({a, b}) /\ Cardinality({a, b}) = 1 + 1
      BY <2>1, <2>2, FS_AddElement
    <2>4. c \notin {a, b} /\ {a, b} \cup {c} = {a, b, c}
      BY <1>3
    <2>5. Cardinality({a, b, c}) = (1 + 1) + 1
      BY <2>3, <2>4, FS_AddElement
    <2>6. QED BY <2>5
  <1>5. Part!Levels = 0 .. 4
    BY DEF Part!Levels, Part!Debug, Part!Verbose
  <1>6. /\ a.levels \in SUBSET Part!Levels /\ b.levels \in SUBSET Part!Levels
        /\ c.levels \in SUBSET Part!Levels
    BY <1>2, <1>5
  <1>7. ASSUME NEW i \in 1 .. 3
        PROVE  (CHOOSE x \in {a, b, c} : x.line = i).levels \in SUBSET Part!Levels
    <2>1. \E x \in {a, b, c} : x.line = i
      <3>1. i = 1 \/ i = 2 \/ i = 3
        OBVIOUS
      <3>2. QED BY <1>3, <3>1
    <2>2. PICK d : d = CHOOSE x \in {a, b, c} : x.line = i
      OBVIOUS
    <2>3. d \in {a, b, c}
      BY <2>1, <2>2, Zenon
    <2>4. QED BY <1>6, <2>2, <2>3
  <1>8. SUFFICES ASSUME NEW cs \in {{}, Channels}
                 PROVE  /\ Cardinality(cs) \in Nat
                        /\ \A i \in 1 .. Cardinality(cs) :
                             (CHOOSE x \in cs : x.line = i).levels \in SUBSET Part!Levels
    BY LogCardinality, Zenon DEF Part!ConfsNumbered
  <1>9. CASE cs = {}
    BY <1>1, <1>9
  <1>10. CASE cs = Channels
    BY <1>3, <1>4, <1>7, <1>10
  <1>11. QED BY <1>9, <1>10

\* Whatever the threads do, whatever writing fails, and whenever the program starts its logger,
\* each line arrives once and wherever it should, whole but for the parts that were lost, and
\* is heard by the verbosers there were, unless the signal handler has interrupted a thread
\* that was writing (spd_log, spd_verbose).
THEOREM LinesAlwaysDelivered == MCSpec => []LinesDelivered
  <1> DEFINE Inv == of = "log" => Part!LogInv
  <1>1. MCInit => Inv
    BY SameInit, Part!InitLogStrong DEF MCInit, Part!LogInv
  <1>2. Inv /\ [MCNext]_mcVars => Inv'
    <2>1. SUFFICES ASSUME Inv, [MCNext]_mcVars, of' = "log"
                   PROVE  Part!LogInv'
      OBVIOUS
    <2>2. of = "log"
      BY <2>1, SameComponent
    <2>3. QED BY <2>1, <2>2, LogMoves, SameNext, ChannelsNumbered, Part!StepLogInv
  <1>3. Inv => LinesDelivered
    BY Part!LogStrongDelivers, SameDelivery DEF Part!LogInv, LinesDelivered, Part!LinesDelivered
  <1>4. QED BY <1>1, <1>2, <1>3, PTL DEF MCSpec

----------------------------------------------------------------------------
(* TestEngine: what PartProofs shows, for the categories of MCLibraries.   *)

TestVars == <<list, lock, run, results, report, testCalls>>

LEMMA TestMoves ==
  ASSUME of = "test", [MCNext]_mcVars
  PROVE  [Test!Next]_TestVars
  <1>1. TestNext \/ UNCHANGED TestVars
    BY Zenon DEF MCNext, mcVars, By, ConfNext, SaveNext, LinkNext, LogNext, StrNext,
       WriteNext, EngineNext, ClientNext, StartNext, TestVars
  <1>2. TestNext => Test!Next
    BY DEF TestNext, By, Test!Next
  <1>3. QED BY <1>1, <1>2

LEMMA RanksAreKnown == Part!RanksKnown
  <1> DEFINE all == <<<<"a">>, <<"a", "b">>, <<"c">>>>
  <1>1. ASSUME NEW c \in {<<"a">>, <<"a", "b">>, <<"c">>}
        PROVE  Index(c, all) \in 1 .. 3
    <2>1. DOMAIN all = 1 .. 3 /\ all[1] = <<"a">> /\ all[2] = <<"a", "b">> /\ all[3] = <<"c">>
      OBVIOUS
    <2>2. \E i \in DOMAIN all : all[i] = c
      BY <2>1
    <2>3. QED
      <3> HIDE DEF all
      <3> QED BY <2>1, <2>2 DEF Index
  <1>2. ASSUME NEW c \in {<<"a">>, <<"a", "b">>, <<"c">>}
        PROVE  CategoryRank[c] \in Int
    <2>1. CategoryRank[c] = Index(c, all)
      BY DEF CategoryRank
    <2>2. QED BY <1>1, <2>1
  <1>3. \A t \in Tests : CategoryOf[t] \in {<<"a">>, <<"a", "b">>, <<"c">>}
    BY DEF CategoryOf
  <1>4. QED BY <1>2, <1>3 DEF Part!RanksKnown

\* The engine of the theorems is that of the run.
LEMMA SameTestInit == Test!Init => Part!Test!Init
  BY Zenon DEF Test!Init, Part!Test!Init, Test!NoRun, Part!Test!NoRun, Test!NoResults,
     Part!Test!NoResults, Test!NoReport, Part!Test!NoReport, Test!Null, Part!Test!Null

LEMMA SameTestNext ==
  ASSUME [Test!Next]_TestVars
  PROVE  [Part!Test!Next]_(Part!TestVars)
  <1> USE DEF Test!CanLock, Part!Test!CanLock, Test!Range, Part!Test!Range,
              Test!Called, Part!Test!Called, Test!SelectInSeq, Part!Test!SelectInSeq,
              Test!Min, Part!Test!Min, Test!NoResults, Part!Test!NoResults,
              Test!Null, Part!Test!Null, Test!Empty, Part!Test!Empty,
              Test!InCategory, Part!Test!InCategory, Test!IsPrefix, Part!Test!IsPrefix,
              Test!Wanted, Part!Test!Wanted
  <1>1. \A t, cb : Test!Register(t, cb) => Part!Test!Register(t, cb)
    BY Zenon DEF Test!Register, Part!Test!Register, Test!InsertAt, Part!Test!InsertAt,
       Test!NotRun, Part!Test!NotRun
  <1>2. \A t, cb : Test!Unregister(t, cb) => Part!Test!Unregister(t, cb)
    BY Zenon DEF Test!Unregister, Part!Test!Unregister, Test!RemoveAt, Part!Test!RemoveAt
  <1>3. \A t : Test!Run(t) => Part!Test!Run(t)
    BY Zenon DEF Test!Run, Part!Test!Run
  <1>4. \A t : Test!RunOne(t) => Part!Test!RunOne(t)
    BY Zenon DEF Test!RunOne, Part!Test!RunOne, Test!Compares, Part!Test!Compares,
       Test!Counted, Part!Test!Counted, Test!One, Part!Test!One,
       Test!NotRun, Part!Test!NotRun, Test!Pass, Part!Test!Pass, Test!Failed, Part!Test!Failed
  <1>5. \A t : Test!RunReturns(t) => Part!Test!RunReturns(t)
    BY Zenon DEF Test!RunReturns, Part!Test!RunReturns, Test!Front, Part!Test!Front,
       Test!NoRun, Part!Test!NoRun
  <1>6. QED
    BY <1>1, <1>2, <1>3, <1>4, <1>5, Zenon DEF Test!Next, Part!Test!Next, TestVars, Part!TestVars

LEMMA SameSum == Part!Test!TestsAddUp => Test!TestsAddUp
  BY Zenon DEF Part!Test!TestsAddUp, Test!TestsAddUp, Part!Test!With, Test!With,
     Part!Test!Cardinality, Test!Cardinality, Part!Test!Pass, Test!Pass,
     Part!Test!Failed, Test!Failed

\* After whatever calls of whatever threads: a report counts the tests that were in the list
\* when the run returned and what came of those it called, and the list is sorted
\* (spd_test_run, spd_test_register, spd_test_unregister).
THEOREM TestsAlwaysAddUp == MCSpec => []TestsAddUp
  <1> DEFINE Inv == of = "test" => Part!TestInv
  <1>1. MCInit => Inv
    BY SameTestInit, Part!InitTestInv DEF MCInit
  <1>2. Inv /\ [MCNext]_mcVars => Inv'
    <2>1. SUFFICES ASSUME Inv, [MCNext]_mcVars, of' = "test"
                   PROVE  Part!TestInv'
      OBVIOUS
    <2>2. of = "test"
      BY <2>1, SameComponent
    <2>3. QED BY <2>1, <2>2, TestMoves, SameTestNext, RanksAreKnown, Part!StepTestInv
  <1>3. Inv => TestsAddUp
    BY Part!TestsAddUpThen, SameSum DEF TestsAddUp
  <1>4. QED BY <1>1, <1>2, <1>3, PTL DEF MCSpec

----------------------------------------------------------------------------
(* The linked lists: what PartProofs shows, for the entries of MCLibraries *)
(* and the way they sort.                                                  *)

LinkVars == <<head, next, iter>>

LEMMA LinkMoves ==
  ASSUME [MCNext]_mcVars
  PROVE  [Link!Next]_LinkVars
  <1>1. LinkNext \/ UNCHANGED LinkVars
    <2>1. CASE of = "list"
      BY <2>1, Zenon DEF MCNext, mcVars, By, ConfNext, SaveNext, LogNext, TestNext, StrNext,
         WriteNext, EngineNext, ClientNext, StartNext, LinkVars
    <2>2. CASE of # "list"
      <3>1. ConfNext \/ SaveNext \/ LogNext \/ TestNext => UNCHANGED LinkVars
        BY <2>2, Zenon DEF ConfNext, SaveNext, LogNext, TestNext, By, Keep, LinkVars
      <3>2. StrNext \/ WriteNext \/ EngineNext => UNCHANGED LinkVars
        BY <2>2, Zenon DEF StrNext, WriteNext, EngineNext, By, Keep, LinkVars
      <3>3. ClientNext \/ StartNext => UNCHANGED LinkVars
        BY <2>2, Zenon DEF ClientNext, StartNext, By, Keep, LinkVars
      <3>4. ASSUME \/ By("text", Tx!Try) \/ By("cli", Cw!TryLine) \/ By("cli", Cw!TryArguments)
                   \/ By("address", Ad!Try) \/ By("clock", Ck!Try)
            PROVE  UNCHANGED LinkVars
        BY <2>2, <3>4, Zenon DEF By, Keep, LinkVars
      <3>5. UNCHANGED mcVars => UNCHANGED LinkVars
        BY DEF mcVars, LinkVars
      <3>6. QED BY <3>1, <3>2, <3>3, <3>4, <3>5 DEF MCNext
    <2>3. QED BY <2>1, <2>2
  <1>2. LinkNext => Link!Next
    BY Zenon DEF LinkNext, By, Link!Next
  <1>3. QED BY <1>1, <1>2, Zenon

LEMMA LinksAreKnown == Part!LinksKnown
  BY LinkAssumption DEF Part!LinksKnown, LinkRank, Part!IsFiniteSet, IsFiniteSet

\* The lists of the theorems are those of the run.
LEMMA SameLinkInit == Link!Init => Part!Link!Init
  BY Zenon DEF Link!Init, Part!Link!Init, Link!NoIter, Part!Link!NoIter

LEMMA SameSort ==
  ASSUME NEW h, NEW e
  PROVE  Part!Link!InsertSortAlpha(h, e) <=> Link!InsertSortAlpha(h, e)
  BY Zenon DEF Part!Link!InsertSortAlpha, Link!InsertSortAlpha,
     Part!Link!In, Link!In, Part!Link!Walk, Link!Walk, Part!Link!Cardinality, Link!Cardinality,
     Part!Link!SelectInSeq, Link!SelectInSeq, Part!Link!Min, Link!Min,
     Part!Link!InsertHead, Link!InsertHead, Part!Link!InsertTail, Link!InsertTail,
     Part!Link!InsertAfter, Link!InsertAfter

LEMMA SameLinkNext ==
  ASSUME [Link!Next]_LinkVars
  PROVE  [Part!Link!Next]_(Part!LinkVars)
  <1> USE DEF Link!NoIter, Part!Link!NoIter, Link!NoLoop, Part!Link!NoLoop,
              Link!Range, Part!Link!Range, Link!Loose, Part!Link!Loose,
              Link!In, Part!Link!In, Link!Walk, Part!Link!Walk,
              Link!Cardinality, Part!Link!Cardinality
  <1>1. Link!Insert => Part!Link!Insert
    BY SameSort, Zenon DEF Link!Insert, Part!Link!Insert, Link!InsertHead, Part!Link!InsertHead,
       Link!InsertTail, Part!Link!InsertTail, Link!InsertAfter, Part!Link!InsertAfter
  <1>2. Link!RemoveHead => Part!Link!RemoveHead
    BY Zenon DEF Link!RemoveHead, Part!Link!RemoveHead
  <1>3. Link!RemoveEntry => Part!Link!RemoveEntry
    BY Zenon DEF Link!RemoveEntry, Part!Link!RemoveEntry
  <1>4. Link!AppendList => Part!Link!AppendList
    BY Zenon DEF Link!AppendList, Part!Link!AppendList
  <1>5. Link!InsertListAfter => Part!Link!InsertListAfter
    BY Zenon DEF Link!InsertListAfter, Part!Link!InsertListAfter
  <1>6. Link!Begin \/ Link!Advance => Part!Link!Begin \/ Part!Link!Advance
    BY Zenon DEF Link!Begin, Part!Link!Begin, Link!Advance, Part!Link!Advance,
       Link!After, Part!Link!After
  <1>7. /\ Link!RemoveCurrent => Part!Link!RemoveCurrent
        /\ Link!InsertBeforeCurrent => Part!Link!InsertBeforeCurrent
    BY Zenon DEF Link!RemoveCurrent, Part!Link!RemoveCurrent, Link!Standing, Part!Link!Standing,
       Link!InsertBeforeCurrent, Part!Link!InsertBeforeCurrent
  <1>8. QED
    BY <1>1, <1>2, <1>3, <1>4, <1>5, <1>6, <1>7, Zenon
       DEF Link!Next, Part!Link!Next, LinkVars, Part!LinkVars

\* So is what they promise.
LEMMA SamePromise ==
  /\ Part!Link!Promised!Init => Link!Promised!Init
  /\ [Part!Link!Promised!Next]_(Part!Link!Promised!vars) =>
       [Link!Promised!Next]_(Link!Promised!vars)
  /\ Part!Link!LastIsLast => Link!LastIsLast
  /\ Part!Link!SortsIn => Link!SortsIn
  <1> USE DEF Part!Link!In, Link!In, Part!Link!Walk, Link!Walk,
              Part!Link!Cardinality, Link!Cardinality, Part!Link!Range, Link!Range,
              Part!Link!Promised!NoLoop, Link!Promised!NoLoop,
              Part!Link!Promised!Spliced, Link!Promised!Spliced,
              Part!Link!Promised!Becomes, Link!Promised!Becomes,
              Part!Link!Promised!Outside, Link!Promised!Outside
  <1>1. Part!Link!Promised!Init => Link!Promised!Init
    BY Zenon DEF Part!Link!Promised!Init, Link!Promised!Init
  <1>2. \A h : Part!Link!Promised!InsertSorted(h) => Link!Promised!InsertSorted(h)
    BY Zenon DEF Part!Link!Promised!InsertSorted, Link!Promised!InsertSorted
  <1>3. Part!Link!Promised!Between => Link!Promised!Between
    BY <1>2, Zenon DEF Part!Link!Promised!Between, Link!Promised!Between,
       Part!Link!Promised!Insert, Link!Promised!Insert,
       Part!Link!Promised!RemoveOne, Link!Promised!RemoveOne,
       Part!Link!Promised!Move, Link!Promised!Move
  <1>4. Part!Link!Promised!Begin => Link!Promised!Begin
    BY Zenon DEF Part!Link!Promised!Begin, Link!Promised!Begin
  <1>5. Part!Link!Promised!Advance => Link!Promised!Advance
    BY Zenon DEF Part!Link!Promised!Advance, Link!Promised!Advance
  <1>6. Part!Link!Promised!Change => Link!Promised!Change
    BY Zenon DEF Part!Link!Promised!Change, Link!Promised!Change
  <1>7. [Part!Link!Promised!Next]_(Part!Link!Promised!vars) =>
          [Link!Promised!Next]_(Link!Promised!vars)
    BY <1>3, <1>4, <1>5, <1>6, Zenon
       DEF Part!Link!Promised!Next, Link!Promised!Next, Part!Link!Promised!vars, Link!Promised!vars
  <1>8. Part!Link!LastIsLast => Link!LastIsLast
    BY Zenon DEF Part!Link!LastIsLast, Link!LastIsLast, Part!Link!Last, Link!Last
  <1>9. Part!Link!SortsIn => Link!SortsIn
    BY SameSort, <1>2, Zenon DEF Part!Link!SortsIn, Link!SortsIn, Part!Link!Loose, Link!Loose
  <1>10. QED BY <1>1, <1>7, <1>8, <1>9

\* The pointers of the linked lists implement sequences, and a loop over a list visits what was
\* in it, once and in order, whatever is removed or put in where it stands
\* (linkedlist.h:503-856); an entry that is put in by its rank goes behind the lesser ones.
THEOREM ListsAlwaysSequences == MCSpec => ListsAreSequences
  <1>1. MCInit => Part!LinkInv /\ Link!Promised!Init
    BY SameLinkInit, LinksAreKnown, Part!LinkInit, SamePromise, Zenon DEF MCInit
  <1>2. Part!LinkInv /\ [MCNext]_mcVars =>
          Part!LinkInv' /\ [Link!Promised!Next]_(Link!Promised!vars)
    BY LinkMoves, SameLinkNext, LinksAreKnown, Part!LinkStep, SamePromise, Zenon
  <1>3. Part!LinkInv => Link!LastIsLast /\ Link!SortsIn
    BY LinksAreKnown, Part!LinkLast, Part!LinkSorts, SamePromise, Zenon
  <1>4. QED BY <1>1, <1>2, <1>3, PTL DEF MCSpec, ListsAreSequences, Link!ListsAreSequences,
                                         Link!Promised!Spec

=============================================================================
