------------------------------- MODULE Logger -------------------------------
(***************************************************************************)
(* src/src/logger.c: the log chains, each with its levels, the verbosers,  *)
(* and the threads that log while the program starts and after.  main      *)
(* starts the threads of the consoles before it reads logger.conf, and     *)
(* SIGINT or SIGTERM may interrupt any thread, where the handler logs a    *)
(* notice (spider.c:585).                                                  *)
(*                                                                         *)
(* A line is two writes, its header and its text, and either may be lost:  *)
(* what fputs and fflush say is not looked at, and there may be no memory  *)
(* for the text.  What is written in part is lost.  The rotation after     *)
(* SIGXFSZ, which calls itself without end, is left out: no signal of that *)
(* kind comes.                                                             *)
(*                                                                         *)
(* A definition that stands before another one and is used nowhere is that *)
(* other with a mistake in it.                                             *)
(***************************************************************************)
EXTENDS Integers, Sequences, SequencesExt, FiniteSets

CONSTANTS
  Threads, Main,  \* Main \in Threads
  Verbosers,
  Logged,         \* the levels the threads log with, of Debug .. Error
  Confs,       \* logger.conf: sequences of channels with their levels, or {} if there is none
  MaxLines     \* bound: lines of all threads

VARIABLES
  chains,      \* spd_logchains with what has been written to each
  verbs,       \* verbosers, the last registered first
  writer,      \* who holds the lock of the chains, {} if nobody
  readers,     \* who reads the verbosers
  stack,       \* by thread: the calls it is in, the innermost first
  started,     \* whether init_logger has returned
  logged,      \* history: by line, how it went
  nested       \* history: the handler has interrupted a thread that was writing

vars == <<chains, verbs, writer, readers, stack, started, logged, nested>>

Debug == 0   Notice == 1   Warning == 2   Error == 3   Verbose == 4
Levels == Debug .. Verbose

\* The levels' numbers are used as if they were bits: 2 | 1 | 3.
DefaultMark == {l \in Levels : (3 \div 2 ^ l) % 2 = 1}

Init ==
  /\ chains = <<>> /\ verbs = <<>> /\ writer = {} /\ readers = {}
  /\ stack = [t \in Threads |-> <<>>]
  /\ started = FALSE /\ logged = <<>> /\ nested = FALSE

----------------------------------------------------------------------------
(* The chains.                                                             *)

\* A file that cannot be opened makes a chain all the same, and so does "syslog".
MakeLogchain(channel, levels, opened) ==
  [console |-> channel = "console", levels |-> levels, out |-> <<>>,
   open |-> channel = "file" /\ opened]

\* One critical section; the last variable of the file is the first chain.
InitLogger ==
  /\ ~started /\ stack[Main] = <<>> /\ writer = {}
  /\ \E conf \in Confs, opened \in BOOLEAN :
       chains' = IF conf = {} THEN <<MakeLogchain("console", DefaultMark, FALSE)>>
                 ELSE Reverse([i \in 1 .. Cardinality(conf) |->
                        LET c == CHOOSE x \in conf : x.line = i
                        IN  MakeLogchain(c.channel, c.levels, opened)])
  /\ started' = TRUE
  /\ UNCHANGED <<verbs, writer, readers, stack, logged, nested>>

----------------------------------------------------------------------------
(* spd_log.                                                                *)

Frame(fn, n) == [fn |-> fn, line |-> n, at |-> "begin", i |-> 1]
Top(t) == stack[t][1]
At(t, fn, at) == stack[t] # <<>> /\ Top(t).fn = fn /\ Top(t).at = at
Goto(t, at, i) ==
  stack' = [stack EXCEPT ![t][1] = [fn |-> Top(t).fn, line |-> Top(t).line, at |-> at, i |-> i]]
Return(t) == stack' = [stack EXCEPT ![t] = Tail(@)]

Line(level) == [level |-> level, how |-> "begun", failed |-> {}, cut |-> {},
                due |-> <<>>, heard |-> <<>>]
Ends(n, how) == logged' = [logged EXCEPT ![n].how = how]

Log(t, level) ==
  /\ stack[t] = <<>> /\ Len(logged) < MaxLines
  /\ t # Main => started \/ verbs # <<>>
  /\ logged' = Append(logged, Line(level))
  /\ stack' = [stack EXCEPT ![t] = <<Frame("log", Len(logged) + 1)>>]
  /\ UNCHANGED <<chains, verbs, writer, readers, started, nested>>

\* The list is looked at without its lock.  A line is lost if there is no buffer for it, or,
\* before there are chains, if the buffer cannot be made larger.
LogTest(t) ==
  /\ At(t, "log", "begin")
  /\ \/ /\ chains = <<>> /\ Return(t)
        /\ Ends(Top(t).line, IF logged[Top(t).line].level = Verbose THEN "dropped" ELSE "stdout")
     \/ /\ chains # <<>> /\ Goto(t, "lock", 1) /\ UNCHANGED logged
     \/ Return(t) /\ Ends(Top(t).line, "lost")
  /\ UNCHANGED <<chains, verbs, writer, readers, started, nested>>

\* A read-write lock: who has it and asks for it again is told so, and goes on.
LogLockUntaken(t) ==
  /\ At(t, "log", "lock")
  /\ Goto(t, "chain", 1)
  /\ UNCHANGED <<chains, verbs, writer, readers, started, logged, nested>>
LogLock(t) ==
  /\ At(t, "log", "lock") /\ writer \subseteq {t}
  /\ writer' = {t}
  /\ Goto(t, "chain", 1)
  /\ UNCHANGED <<chains, verbs, readers, started, logged, nested>>

Takes(c, level) == level \in c.levels /\ IF c.console THEN level # Verbose ELSE c.open

\* The header of a line.  A file may refuse it, and then gets no text either; or it is lost,
\* which nobody notices.  Once the buffer is gone there is no step for a chain that takes the
\* line: the call would write where there is nothing, and the program end.
LogHeader(t) ==
  /\ At(t, "log", "chain") /\ Top(t).i <= Len(chains)
  /\ LET n == Top(t).line
         i == Top(t).i
     IN  \/ /\ Takes(chains[i], logged[n].level) /\ logged[n].how # "gone"
            /\ \/ /\ chains' = [chains EXCEPT ![i].out = Append(@, <<n, "header">>)]
                  /\ UNCHANGED logged
               \/ /\ logged' = [logged EXCEPT ![n].cut = @ \cup {i}]
                  /\ UNCHANGED chains
            /\ Goto(t, "text", i)
         \/ /\ Takes(chains[i], logged[n].level) => ~chains[i].console /\ logged[n].how # "gone"
            /\ logged' = IF Takes(chains[i], logged[n].level)
                         THEN [logged EXCEPT ![n].failed = @ \cup {i}] ELSE logged
            /\ Goto(t, "chain", i + 1) /\ UNCHANGED chains
  /\ UNCHANGED <<verbs, writer, readers, started, nested>>

\* The text of a line.  To a file it goes out together with the header, and is lost with it;
\* or there is no memory to make it, which takes the call's buffer away.
LogText(t) ==
  /\ At(t, "log", "text")
  /\ LET n == Top(t).line
         i == Top(t).i
     IN  /\ \/ /\ chains[i].console \/ i \notin logged[n].cut
               /\ chains' = [chains EXCEPT ![i].out = Append(@, <<n, "text">>)]
               /\ UNCHANGED logged
            \/ /\ \E how \in {logged[n].how, "gone"} :
                    logged' = [logged EXCEPT ![n].cut = @ \cup {i}, ![n].how = how]
               /\ UNCHANGED chains
         /\ Goto(t, "chain", i + 1)
  /\ UNCHANGED <<verbs, writer, readers, started, nested>>

\* The handler gives back the lock of the call it has interrupted.
LogUnlock(t) ==
  /\ At(t, "log", "chain") /\ Top(t).i > Len(chains)
  /\ writer' = writer \ {t}
  /\ Return(t) /\ Ends(Top(t).line, "logged")
  /\ UNCHANGED <<chains, verbs, readers, started, nested>>

\* term_handler, on top of whatever the thread does.
Signal(t) ==
  /\ Len(logged) < MaxLines /\ Len(stack[t]) < 2
  /\ t # Main => stack[t] # <<>>
  /\ nested' = (nested \/ writer = {t})
  /\ logged' = Append(logged, Line(Notice))
  /\ stack' = [stack EXCEPT ![t] = <<Frame("log", Len(logged) + 1)>> \o @]
  /\ UNCHANGED <<chains, verbs, writer, readers, started>>

----------------------------------------------------------------------------
(* spd_verbose and the verbosers.                                          *)

VerboseLine(t) ==
  /\ stack[t] = <<>> /\ Len(logged) < MaxLines
  /\ t # Main => started \/ verbs # <<>>
  /\ logged' = Append(logged, Line(Verbose))
  /\ stack' = [stack EXCEPT ![t] = <<Frame("verbose", Len(logged) + 1)>>]
  /\ UNCHANGED <<chains, verbs, writer, readers, started, nested>>

VerboseLock(t) ==
  /\ At(t, "verbose", "begin")
  /\ readers' = readers \cup {t}
  /\ logged' = [logged EXCEPT ![Top(t).line].due = verbs]
  /\ Goto(t, "call", 1)
  /\ UNCHANGED <<chains, verbs, writer, started, nested>>

\* There is no buffer, or it cannot be made larger.
VerboseFails(t) ==
  /\ At(t, "verbose", "begin")
  /\ Return(t) /\ Ends(Top(t).line, "lost")
  /\ UNCHANGED <<chains, verbs, writer, readers, started, nested>>

Call(t) ==
  /\ At(t, "verbose", "call") /\ Top(t).i <= Len(verbs)
  /\ logged' = [logged EXCEPT ![Top(t).line].heard = Append(@, verbs[Top(t).i])]
  /\ Goto(t, "call", Top(t).i + 1)
  /\ UNCHANGED <<chains, verbs, writer, readers, started, nested>>

\* Then the line is logged.
VerboseUnlock(t) ==
  /\ At(t, "verbose", "call") /\ Top(t).i > Len(verbs)
  /\ readers' = readers \ {t}
  /\ stack' = [stack EXCEPT ![t][1] = Frame("log", Top(t).line)]
  /\ UNCHANGED <<chains, verbs, writer, started, logged, nested>>

\* The functions wait for the readers; both are one critical section.
Register(t) ==
  /\ stack[t] = <<>> /\ readers = {}
  /\ \E v \in Verbosers \ Range(verbs) : verbs' = <<v>> \o verbs
  /\ UNCHANGED <<chains, writer, readers, stack, started, logged, nested>>

UnregisterAtOnce(t) ==
  /\ stack[t] = <<>>
  /\ \E i \in DOMAIN verbs : verbs' = RemoveAt(verbs, i)
  /\ UNCHANGED <<chains, writer, readers, stack, started, logged, nested>>
Unregister(t) ==
  /\ stack[t] = <<>> /\ readers = {}
  /\ \E i \in DOMAIN verbs : verbs' = RemoveAt(verbs, i)
  /\ UNCHANGED <<chains, writer, readers, stack, started, logged, nested>>

Step(t) ==
  \/ \E level \in Logged : Log(t, level)
  \/ LogTest(t) \/ LogLock(t) \/ LogHeader(t) \/ LogText(t) \/ LogUnlock(t) \/ Signal(t)
  \/ VerboseLine(t) \/ VerboseLock(t) \/ VerboseFails(t) \/ Call(t) \/ VerboseUnlock(t)
  \/ Register(t) \/ Unregister(t)

Next == InitLogger \/ \E t \in Threads : Step(t)
Spec == Init /\ [][Next]_vars

----------------------------------------------------------------------------
\* A chain has whole lines only, but for the one that is being written and for those of which
\* a part was lost: no other's mark comes between a header and its text (logger.c:301-358).
WholeLines ==
  \A i \in DOMAIN chains : LET out == chains[i].out IN \A k \in DOMAIN out :
    \/ i \in logged[out[k][1]].cut
    \/ out[k][2] = "header" /\ k = Len(out) /\ writer # {}
    \/ out[k][2] = "header" /\ k < Len(out) /\ out[k + 1] = <<out[k][1], "text">>
    \/ out[k][2] = "text" /\ k > 1 /\ out[k - 1] = <<out[k][1], "header">>

\* A line that was logged is on every chain that takes its level, once, or what is not lost
\* of it is, and on no other.
OnItsChains ==
  \A n \in {m \in DOMAIN logged : logged[m].how = "logged"}, i \in DOMAIN chains :
    LET places == {k \in DOMAIN chains[i].out : chains[i].out[k][1] = n}
        due == Takes(chains[i], logged[n].level) /\ i \notin logged[n].failed
    IN  /\ ~due => places = {}
        /\ due => IF i \in logged[n].cut THEN Cardinality(places) <= 1 ELSE Cardinality(places) = 2

\* A line has been heard by the verbosers that were registered when it was sent, as far as
\* they have been called, and none of them goes away meanwhile.
Heard ==
  /\ \A n \in DOMAIN logged : IsPrefix(logged[n].heard, logged[n].due)
  /\ \A t \in Threads : \A f \in Range(stack[t]) :
       /\ f.fn = "verbose" /\ f.at = "call" => logged[f.line].due = verbs
       /\ f.fn = "log" => logged[f.line].heard = logged[f.line].due

\* Whatever the threads do, each line arrives once and wherever it should, and whole unless
\* writing it failed, as long as the signal handler has not interrupted a thread that was
\* writing (logger.c:269-427).
LinesDelivered == nested \/ (WholeLines /\ OnItsChains /\ Heard)

=============================================================================
