----------------------------- MODULE PartProofs -----------------------------
(***************************************************************************)
(* What is true, for every value of their constants, of three components   *)
(* whose proofs stand each by itself: of the calls of the logger, a        *)
(* strengthening of LinesDelivered that every step of Logger preserves as  *)
(* long as no signal handler interrupts a thread that writes; of the       *)
(* linked lists, the sequences that their pointers stand for, by which     *)
(* LinkedList implements Lists; and of the test engine, what its list and  *)
(* its results have to do with each other.  LibraryProofs takes them over. *)
(***************************************************************************)
EXTENDS Logger, Basics, FiniteSetTheorems

CONSTANTS Heads, Links, NoLink, LinkRank
VARIABLES head, next, iter

CONSTANTS Tests, Names, CategoryOf, CategoryRank, MaxTests, MaxTestCalls
VARIABLES list, lock, run, results, report, testCalls

\* What init_logger makes its chains of: the sections are numbered by their lines.
ConfsNumbered ==
  \A c \in Confs :
    /\ Cardinality(c) \in Nat
    /\ \A i \in 1 .. Cardinality(c) : (CHOOSE x \in c : x.line = i).levels \in SUBSET Levels

----------------------------------------------------------------------------
(* The invariant.                                                          *)

LogLine == [level : Levels \cup Logged,
          how : {"begun", "stdout", "dropped", "lost", "logged", "gone"},
          failed : SUBSET Nat, cut : SUBSET Nat, due : Seq(Verbosers), heard : Seq(Verbosers)]
Marks == Nat \X {"header", "text"}
Chain == [console : BOOLEAN, levels : SUBSET Levels, out : Seq(Marks), open : BOOLEAN]
LogFrame == [fn : {"log", "verbose"}, line : Nat, at : {"begin", "lock", "chain", "text", "call"},
           i : Nat \ {0}]

LogTypes ==
  /\ chains \in Seq(Chain) /\ verbs \in Seq(Verbosers)
  /\ writer \in SUBSET Threads /\ readers \in SUBSET Threads
  /\ started \in BOOLEAN /\ logged \in Seq(LogLine) /\ stack \in [Threads -> Seq(LogFrame)]

\* Where a line is in what was written to a chain.
Places(n, i) == {k \in 1 .. Len(chains[i].out) : chains[i].out[k][1] = n}
Belongs(n, i) == Takes(chains[i], logged[n].level) /\ i \notin logged[n].failed
Untouched(n, i) == Places(n, i) = {} /\ i \notin logged[n].failed /\ i \notin logged[n].cut
Settled(n, i) ==
  /\ ~Belongs(n, i) => Places(n, i) = {}
  /\ Belongs(n, i) /\ i \notin logged[n].cut =>
       \E k \in 1 .. Len(chains[i].out) : Places(n, i) = {k, k + 1}
  /\ i \in logged[n].cut => \A k, j \in Places(n, i) : k = j
\* The header was written, or lost.
Half(n, i) ==
  /\ Belongs(n, i)
  /\ i \in logged[n].cut => Places(n, i) = {}
  /\ i \notin logged[n].cut => Places(n, i) = {Len(chains[i].out)}

\* The lock of the chains is with the thread that writes, which does nothing else.
Position(t, k, f) ==
  /\ f.fn = "log" => f.at # "call"
  /\ f.fn = "verbose" => f.at \in {"begin", "call"} /\ k = Len(stack[t])
  /\ f.at \in {"begin", "lock"} => f.i = 1
  /\ f.at \in {"lock", "chain", "text"} => started
  /\ f.at \in {"chain", "text"} => k = 1 /\ writer = {t}
  /\ f.at = "call" => t \in readers

\* The chains before the one a line has come to are settled, those behind it untouched.
OnChains(f) ==
  /\ f.at # "call" => \A i \in 1 .. Len(chains) : i < f.i => Settled(f.line, i)
  /\ \A i \in 1 .. Len(chains) : f.at = "call" \/ f.i < i => Untouched(f.line, i)
  /\ f.at \in {"begin", "lock", "chain"} /\ f.i \in 1 .. Len(chains) => Untouched(f.line, f.i)
  /\ f.at = "text" => f.i \in 1 .. Len(chains) /\ Half(f.line, f.i)

HeardBy(f) ==
  /\ f.fn = "log" => logged[f.line].heard = logged[f.line].due
  /\ f.fn = "verbose" /\ f.at = "begin" => logged[f.line].heard = <<>>
  /\ f.at = "call" => /\ f.i <= Len(verbs) + 1 /\ logged[f.line].due = verbs
                      /\ logged[f.line].heard = SubSeq(verbs, 1, f.i - 1)

FrameFits(t, k, f) ==
  /\ f.line \in 1 .. Len(logged) /\ logged[f.line].how \in {"begun", "gone"}
  /\ Position(t, k, f) /\ OnChains(f) /\ HeardBy(f)

FramesFit == \A t \in Threads : \A k \in 1 .. Len(stack[t]) : FrameFits(t, k, stack[t][k])
\* A line is in one call.
OneFrame ==
  \A t, u \in Threads : \A k \in 1 .. Len(stack[t]), j \in 1 .. Len(stack[u]) :
    stack[t][k].line = stack[u][j].line => t = u /\ k = j

\* A header that has no text is the last mark of the chain, and somebody is to write the text;
\* or a part of the line was lost.
TextDue(n, i) ==
  \E t \in Threads : /\ stack[t] # <<>> /\ stack[t][1].at = "text"
                     /\ stack[t][1].i = i /\ stack[t][1].line = n
Pair(out, k) ==
  \/ /\ out[k][2] = "header" /\ k + 1 \in 1 .. Len(out)
     /\ out[k + 1] = <<out[k][1], "text">>
  \/ /\ out[k][2] = "text" /\ k - 1 \in 1 .. Len(out)
     /\ out[k - 1] = <<out[k][1], "header">>
WholeMark(i, k) ==
  \/ i \in logged[chains[i].out[k][1]].cut
  \/ /\ chains[i].out[k][2] = "header" /\ k = Len(chains[i].out)
     /\ TextDue(chains[i].out[k][1], i)
  \/ Pair(chains[i].out, k)
Whole == \A i \in 1 .. Len(chains) : \A k \in 1 .. Len(chains[i].out) : WholeMark(i, k)

MarksKnown ==
  \A i \in 1 .. Len(chains) : \A k \in 1 .. Len(chains[i].out) :
    chains[i].out[k][1] \in 1 .. Len(logged)

LineKept(n) ==
  /\ \A i \in logged[n].failed \cup logged[n].cut : i \in 1 .. Len(chains)
  /\ logged[n].how = "logged" => started /\ \A i \in 1 .. Len(chains) : Settled(n, i)
  /\ Len(logged[n].heard) <= Len(logged[n].due)
  /\ logged[n].heard = SubSeq(logged[n].due, 1, Len(logged[n].heard))
LinesKept == \A n \in 1 .. Len(logged) : LineKept(n)

\* All of it, while no handler has interrupted a thread that was writing.
LogStrong ==
  /\ LogTypes /\ (started \/ chains = <<>>)
  /\ FramesFit /\ OneFrame /\ Whole /\ MarksKnown /\ LinesKept
LogInv == ~nested => LogStrong

----------------------------------------------------------------------------
(* The calls of a thread and the lines of all.                             *)

\* The call a thread is in goes on.
LEMMA GotoFrames ==
  ASSUME LogTypes, NEW t \in Threads, stack[t] # <<>>, NEW f \in LogFrame,
         stack' = [stack EXCEPT ![t][1] = f]
  PROVE  /\ stack' \in [Threads -> Seq(LogFrame)]
         /\ Len(stack[t]) \in Nat \ {0}
         /\ \A u \in Threads : u # t => stack'[u] = stack[u]
         /\ Len(stack'[t]) = Len(stack[t])
         /\ stack'[t][1] = f
         /\ \A k \in 1 .. Len(stack[t]) : k # 1 => stack'[t][k] = stack[t][k]
  <1>1. stack \in [Threads -> Seq(LogFrame)] /\ stack[t] \in Seq(LogFrame)
    BY DEF LogTypes
  <1>2. Len(stack[t]) \in Nat \ {0} /\ 1 \in 1 .. Len(stack[t])
    BY <1>1, EmptySeq
  <1>3. PICK s : s = [stack[t] EXCEPT ![1] = f]
    OBVIOUS
  <1>4. /\ s \in Seq(LogFrame) /\ Len(s) = Len(stack[t])
        /\ \A k \in 1 .. Len(stack[t]) : s[k] = IF k = 1 THEN f ELSE stack[t][k]
    BY <1>1, <1>2, <1>3, ReplacedAt
  <1>5. stack' = [stack EXCEPT ![t] = s]
    BY <1>1, <1>3
  <1>6. QED BY <1>1, <1>2, <1>4, <1>5

\* A call returns to the one it has interrupted.
LEMMA ReturnFrames ==
  ASSUME LogTypes, NEW t \in Threads, stack[t] # <<>>, Return(t)
  PROVE  /\ stack' \in [Threads -> Seq(LogFrame)]
         /\ \A u \in Threads : u # t => stack'[u] = stack[u]
         /\ Len(stack[t]) \in Nat \ {0}
         /\ Len(stack'[t]) = Len(stack[t]) - 1
         /\ \A k \in 1 .. Len(stack[t]) - 1 : stack'[t][k] = stack[t][k + 1]
  <1>1. stack \in [Threads -> Seq(LogFrame)] /\ stack[t] \in Seq(LogFrame)
    BY DEF LogTypes
  <1>2. stack' = [stack EXCEPT ![t] = Tail(stack[t])]
    BY DEF Return
  <1>3. /\ Tail(stack[t]) \in Seq(LogFrame) /\ Len(Tail(stack[t])) = Len(stack[t]) - 1
        /\ \A k \in 1 .. Len(stack[t]) - 1 : Tail(stack[t])[k] = stack[t][k + 1]
        /\ Len(stack[t]) \in Nat \ {0}
    BY <1>1, HeadTailProperties, EmptySeq
  <1>4. QED BY <1>1, <1>2, <1>3

\* A thread logs, or is interrupted by a signal whose handler logs.
LEMMA NewFrames ==
  ASSUME LogTypes, NEW t \in Threads, NEW f \in LogFrame,
         stack' = [stack EXCEPT ![t] = <<f>> \o stack[t]]
  PROVE  /\ stack' \in [Threads -> Seq(LogFrame)]
         /\ \A u \in Threads : u # t => stack'[u] = stack[u]
         /\ Len(stack[t]) \in Nat /\ Len(stack'[t]) = Len(stack[t]) + 1
         /\ stack'[t][1] = f
         /\ \A k \in 1 .. Len(stack[t]) + 1 : k # 1 => stack'[t][k] = stack[t][k - 1]
  <1>1. stack \in [Threads -> Seq(LogFrame)] /\ stack[t] \in Seq(LogFrame)
    BY DEF LogTypes
  <1>2. <<f>> \in Seq(LogFrame) /\ Len(<<f>>) = 1 /\ <<f>>[1] = f
    OBVIOUS
  <1>3. PICK s : s = <<f>> \o stack[t]
    OBVIOUS
  <1>4. /\ s \in Seq(LogFrame) /\ Len(s) = 1 + Len(stack[t])
        /\ \A k \in 1 .. 1 + Len(stack[t]) : s[k] = IF k <= 1 THEN f ELSE stack[t][k - 1]
    <2>1. /\ s \in Seq(LogFrame) /\ Len(s) = Len(<<f>>) + Len(stack[t])
          /\ \A k \in 1 .. Len(<<f>>) + Len(stack[t]) :
               s[k] = IF k <= Len(<<f>>) THEN <<f>>[k] ELSE stack[t][k - Len(<<f>>)]
      BY <1>1, <1>2, <1>3, ConcatProperties, Zenon
    <2>2. \A k \in Nat : 1 <= k /\ k <= 1 => k = 1
      OBVIOUS
    <2>3. QED BY <1>2, <2>1, <2>2
  <1>5. stack' = [stack EXCEPT ![t] = s] /\ Len(stack[t]) \in Nat
    BY <1>1, <1>3
  <1>6. QED BY <1>1, <1>4, <1>5

\* The state of one line changes.
LEMMA LineChanges ==
  ASSUME LogTypes, NEW n \in 1 .. Len(logged), NEW e \in LogLine,
         logged' = [logged EXCEPT ![n] = e]
  PROVE  /\ logged' \in Seq(LogLine) /\ Len(logged') = Len(logged)
         /\ \A j \in 1 .. Len(logged) : j # n => logged'[j] = logged[j]
         /\ logged'[n] = e
  BY ReplacedAt DEF LogTypes

LEMMA EndTypes ==
  ASSUME LogTypes, NEW t \in Threads, stack[t] # <<>>, Return(t),
         Top(t).line \in 1 .. Len(logged),
         NEW how \in {"stdout", "dropped", "lost", "logged"}, Ends(Top(t).line, how),
         UNCHANGED <<chains, verbs, readers, started>>, writer' \in SUBSET Threads
  PROVE  LogTypes'
  <1>1. PICK n, e : n = Top(t).line /\ e = [logged[n] EXCEPT !.how = how]
    OBVIOUS
  <1>2. logged[n] \in LogLine
    BY <1>1, ElementOfSeq DEF LogTypes
  <1>3. e \in LogLine
    BY <1>1, <1>2 DEF LogLine
  <1>4. logged' = [logged EXCEPT ![n] = e]
    BY <1>1 DEF Ends
  <1>5. logged' \in Seq(LogLine)
    BY <1>1, <1>3, <1>4, LineChanges
  <1>6. stack' \in [Threads -> Seq(LogFrame)]
    BY ReturnFrames
  <1>7. QED BY <1>5, <1>6 DEF LogTypes

\* A line is new.
LEMMA LineAdded ==
  ASSUME LogTypes, NEW level \in Levels \cup Logged, logged' = Append(logged, Line(level))
  PROVE  /\ logged' \in Seq(LogLine) /\ Len(logged) \in Nat /\ Len(logged') = Len(logged) + 1
         /\ \A n \in 1 .. Len(logged) : logged'[n] = logged[n]
         /\ logged'[Len(logged) + 1] = Line(level)
         /\ Line(level) \in LogLine
  <1>1. <<>> \in Seq(Verbosers) /\ {} \in SUBSET Nat
    OBVIOUS
  <1>2. Line(level) \in LogLine
    BY <1>1 DEF Line, LogLine
  <1>3. QED BY <1>2, AppendProperties, LenProperties DEF LogTypes

LEMMA ChainTypes ==
  ASSUME NEW c \in Seq(Chain), NEW i \in 1 .. Len(c)
  PROVE  /\ c[i] \in Chain /\ c[i].out \in Seq(Marks) /\ Len(c[i].out) \in Nat
         /\ DOMAIN c[i].out = 1 .. Len(c[i].out)
         /\ \A k \in 1 .. Len(c[i].out) : c[i].out[k] \in Marks
  <1>1. c[i] \in Chain
    BY ElementOfSeq
  <1>2. c[i].out \in Seq(Marks)
    BY <1>1 DEF Chain
  <1>3. QED BY <1>1, <1>2, LenProperties, ElementOfSeq

\* A mark is written to a chain.
LEMMA MarkWritten ==
  ASSUME LogTypes, NEW i \in 1 .. Len(chains), NEW m \in Marks,
         chains' = [chains EXCEPT ![i].out = Append(@, m)]
  PROVE  /\ chains' \in Seq(Chain) /\ Len(chains') = Len(chains) /\ Len(chains) \in Nat
         /\ \A j \in 1 .. Len(chains) : j # i => chains'[j] = chains[j]
         /\ \A j \in 1 .. Len(chains) : \A l : Takes(chains'[j], l) <=> Takes(chains[j], l)
         /\ Len(chains[i].out) \in Nat
         /\ Len(chains'[i].out) = Len(chains[i].out) + 1
         /\ \A k \in 1 .. Len(chains[i].out) : chains'[i].out[k] = chains[i].out[k]
         /\ chains'[i].out[Len(chains[i].out) + 1] = m
  <1>1. chains \in Seq(Chain) /\ chains[i] \in Chain
    BY DEF LogTypes
  <1>2. PICK out : out = Append(chains[i].out, m)
    OBVIOUS
  <1>3. chains[i].out \in Seq(Marks)
    BY <1>1 DEF Chain
  <1>4. /\ out \in Seq(Marks) /\ Len(chains[i].out) \in Nat
        /\ Len(out) = Len(chains[i].out) + 1
        /\ \A k \in 1 .. Len(chains[i].out) : out[k] = chains[i].out[k]
        /\ out[Len(chains[i].out) + 1] = m
    BY <1>2, <1>3, AppendProperties, LenProperties
  <1>5. PICK c : c = [chains[i] EXCEPT !.out = out]
    OBVIOUS
  <1>6. /\ c \in Chain /\ c.out = out
        /\ c.console = chains[i].console /\ c.levels = chains[i].levels /\ c.open = chains[i].open
    BY <1>1, <1>4, <1>5 DEF Chain
  <1>7. chains' = [chains EXCEPT ![i] = c]
    BY <1>1, <1>2, <1>5
  <1>8. /\ chains' \in Seq(Chain) /\ Len(chains') = Len(chains) /\ Len(chains) \in Nat
        /\ \A j \in 1 .. Len(chains) : chains'[j] = IF j = i THEN c ELSE chains[j]
    <2>1. Len(chains) \in Nat
      BY <1>1, LenProperties
    <2>2. c \in Chain /\ chains \in Seq(Chain)
      BY <1>1, <1>6
    <2>3. /\ chains' \in Seq(Chain) /\ Len(chains') = Len(chains)
          /\ \A j \in 1 .. Len(chains) : chains'[j] = IF j = i THEN c ELSE chains[j]
      <3>1. PICK d : d = chains'
        OBVIOUS
      <3>2. d \in Seq(Chain) /\ Len(d) = Len(chains)
          /\ \A j \in 1 .. Len(chains) : d[j] = IF j = i THEN c ELSE chains[j]
        BY <1>7, <2>2, <3>1, ReplacedAt
      <3>3. QED BY <3>1, <3>2
    <2>4. QED BY <2>1, <2>3
  <1>9. \A j \in 1 .. Len(chains) : \A l : Takes(chains'[j], l) <=> Takes(chains[j], l)
    BY <1>6, <1>8 DEF Takes
  <1>10. QED BY <1>4, <1>6, <1>8, <1>9

----------------------------------------------------------------------------
\* What is true of a call that has not moved remains so, if what it knows does.
LEMMA FrameStays ==
  ASSUME LogTypes, LogTypes', NEW t \in Threads, NEW k \in 1 .. Len(stack[t]),
         NEW j \in 1 .. Len(stack'[t]), NEW g \in LogFrame, FrameFits(t, k, g),
         Len(stack'[t]) - j = Len(stack[t]) - k,
         started' = started, Len(logged) <= Len(logged'), logged'[g.line] = logged[g.line],
         g.at \in {"chain", "text"} => j = 1 /\ writer' = writer,
         g.at = "call" => t \in readers' /\ verbs' = verbs,
         Len(chains') = Len(chains),
         \A i \in 1 .. Len(chains) : /\ \A l : Takes(chains'[i], l) <=> Takes(chains[i], l)
                                     /\ Places(g.line, i)' = Places(g.line, i),
         \A i \in 1 .. Len(chains) : Len(chains[i].out) <= Len(chains'[i].out),
         g.at = "text" => chains' = chains
  PROVE  FrameFits(t, j, g)'
  <1>1. /\ Len(chains) \in Nat /\ Len(logged) \in Nat /\ Len(logged') \in Nat
        /\ Len(stack[t]) \in Nat /\ Len(stack'[t]) \in Nat
        /\ \A i \in 1 .. Len(chains) : Len(chains[i].out) \in Nat /\ Len(chains'[i].out) \in Nat
    <2>1. \A i \in 1 .. Len(chains) : Len(chains[i].out) \in Nat /\ Len(chains'[i].out) \in Nat
      BY ChainTypes DEF LogTypes
    <2>2. stack[t] \in Seq(LogFrame) /\ stack'[t] \in Seq(LogFrame)
      BY DEF LogTypes
    <2>3. QED BY <2>1, <2>2, LenProperties DEF LogTypes
  <1>2. g.line \in 1 .. Len(logged') /\ logged'[g.line].how \in {"begun", "gone"}
    BY <1>1 DEF FrameFits
  <1>3. Position(t, j, g)'
    BY <1>1, SMTT(30) DEF FrameFits, Position
  <1>4. \A i \in 1 .. Len(chains) : /\ Untouched(g.line, i) => Untouched(g.line, i)'
                                    /\ Belongs(g.line, i)' <=> Belongs(g.line, i)
    BY DEF Untouched, Belongs
  <1>5. \A i \in 1 .. Len(chains) : Settled(g.line, i) => Settled(g.line, i)'
    <2>1. SUFFICES ASSUME NEW i \in 1 .. Len(chains), Settled(g.line, i)
                   PROVE  Settled(g.line, i)'
      OBVIOUS
    <2>2. \A k1 \in 1 .. Len(chains[i].out) : k1 \in 1 .. Len(chains'[i].out)
      BY <1>1, SMTT(30)
    <2>3. QED BY <1>4, <2>1, <2>2 DEF Settled
  <1>6. g.at = "text" => \A i \in 1 .. Len(chains) : Half(g.line, i) => Half(g.line, i)'
    BY <1>4 DEF Half
  <1>7. OnChains(g)'
    BY <1>4, <1>5, <1>6 DEF FrameFits, OnChains
  <1>8. HeardBy(g)'
    BY DEF FrameFits, HeardBy
  <1>9. QED BY <1>2, <1>3, <1>7, <1>8 DEF FrameFits

\* The calls of the other threads are where they were, and a text that is not to be written
\* any more was lost.
LEMMA WholeStays ==
  ASSUME Whole, MarksKnown, chains' = chains,
         \A n \in 1 .. Len(logged) : logged[n].cut \subseteq logged'[n].cut,
         \A t \in Threads : stack[t] # <<>> /\ stack[t][1].at = "text" =>
            stack'[t] = stack[t] \/ stack[t][1].i \in logged'[stack[t][1].line].cut
  PROVE  Whole'
  <1>1. \A i, n : TextDue(n, i) => TextDue(n, i)' \/ i \in logged'[n].cut
    BY DEF TextDue
  <1>2. SUFFICES ASSUME NEW i \in 1 .. Len(chains), NEW k \in 1 .. Len(chains[i].out)
                 PROVE  WholeMark(i, k)'
    BY DEF Whole
  <1>3. WholeMark(i, k) /\ chains[i].out[k][1] \in 1 .. Len(logged)
    BY DEF Whole, MarksKnown
  <1>4. QED BY <1>1, <1>3 DEF WholeMark

LEMMA MarksStay ==
  ASSUME MarksKnown, chains' = chains, Len(logged) \in Nat, Len(logged') \in Nat,
         Len(logged) <= Len(logged')
  PROVE  MarksKnown'
  BY DEF MarksKnown

LEMMA LineStays ==
  ASSUME LogTypes, LogTypes', NEW n \in 1 .. Len(logged), LineKept(n), logged'[n] = logged[n],
         started => started', Len(chains') = Len(chains),
         \A i \in 1 .. Len(chains) : /\ \A l : Takes(chains'[i], l) <=> Takes(chains[i], l)
                                     /\ Places(n, i)' = Places(n, i)
                                     /\ Len(chains[i].out) <= Len(chains'[i].out)
  PROVE  LineKept(n)'
  <1>1. \A i \in 1 .. Len(chains) : Len(chains[i].out) \in Nat /\ Len(chains'[i].out) \in Nat
    BY ChainTypes DEF LogTypes
  <1>2. \A i \in 1 .. Len(chains) : Settled(n, i) => Settled(n, i)'
    <2>1. SUFFICES ASSUME NEW i \in 1 .. Len(chains), Settled(n, i) PROVE Settled(n, i)'
      OBVIOUS
    <2>2. Belongs(n, i)' <=> Belongs(n, i)
      BY DEF Belongs
    <2>3. \A k \in 1 .. Len(chains[i].out) : k \in 1 .. Len(chains'[i].out)
      BY <1>1
    <2>4. QED BY <2>1, <2>2, <2>3 DEF Settled
  <1>3. QED BY <1>2 DEF LineKept

\* Whoever writes to the chains is the only one.
LEMMA OnlyWriter ==
  ASSUME FramesFit, NEW t \in Threads, NEW u \in Threads,
         NEW k \in 1 .. Len(stack[t]), NEW j \in 1 .. Len(stack[u]),
         stack[t][k].at \in {"chain", "text"}, stack[u][j].at \in {"chain", "text"}
  PROVE  t = u /\ k = 1 /\ j = 1 /\ writer = {t}
  BY SMTT(60) DEF FramesFit, FrameFits, Position


\* The call a thread is in.
LEMMA TopFits ==
  ASSUME LogStrong, NEW t \in Threads, stack[t] # <<>>
  PROVE  /\ Top(t) \in LogFrame /\ FrameFits(t, 1, Top(t)) /\ 1 \in 1 .. Len(stack[t])
         /\ Top(t).line \in 1 .. Len(logged) /\ logged[Top(t).line] \in LogLine
         /\ logged[Top(t).line].how \in {"begun", "gone"}
  <1>1. stack[t] \in Seq(LogFrame)
    BY DEF LogStrong, LogTypes
  <1>2. 1 \in 1 .. Len(stack[t])
    BY <1>1, EmptySeq
  <1>3. Top(t) \in LogFrame /\ FrameFits(t, 1, Top(t))
    BY <1>1, <1>2, ElementOfSeq DEF LogStrong, FramesFit, Top
  <1>4. Top(t).line \in 1 .. Len(logged) /\ logged[Top(t).line].how \in {"begun", "gone"}
    BY <1>3 DEF FrameFits
  <1>5. logged[Top(t).line] \in LogLine
    BY <1>4, ElementOfSeq DEF LogStrong, LogTypes
  <1>6. QED BY <1>2, <1>3, <1>4, <1>5

\* A call goes on, and what it writes is of its own line.
LEMMA Moves ==
  ASSUME LogStrong, LogTypes', NEW t \in Threads, stack[t] # <<>>, NEW f \in LogFrame,
         f.line = Top(t).line, stack' = [stack EXCEPT ![t][1] = f],
         started' = started, Len(logged') = Len(logged), Len(chains') = Len(chains),
         \A n \in 1 .. Len(logged) : n # f.line => logged'[n] = logged[n],
         \A i \in 1 .. Len(chains) :
           /\ \A l : Takes(chains'[i], l) <=> Takes(chains[i], l)
           /\ Len(chains[i].out) <= Len(chains'[i].out)
           /\ \A n \in 1 .. Len(logged) : n # f.line => Places(n, i)' = Places(n, i),
         chains' = chains \/ Top(t).at \in {"chain", "text"},
         \A u \in Threads : \A k \in 1 .. Len(stack[u]) : u # t \/ k # 1 =>
           /\ stack[u][k].at \in {"chain", "text"} => writer' = writer
           /\ stack[u][k].at = "call" /\ u \in readers => u \in readers' /\ verbs' = verbs,
         FrameFits(t, 1, f)', LineKept(f.line)', Whole', MarksKnown'
  PROVE  LogStrong'
  <1>1. /\ Len(stack[t]) \in Nat \ {0} /\ \A u \in Threads : Len(stack'[u]) = Len(stack[u])
        /\ stack'[t][1] = f
        /\ \A u \in Threads : u # t => stack'[u] = stack[u]
        /\ \A u \in Threads : \A k \in 1 .. Len(stack[u]) : u # t \/ k # 1 =>
             stack'[u][k] = stack[u][k]
    BY GotoFrames, Zenon DEF LogStrong
  <1>2. \A u \in Threads : \A k \in 1 .. Len(stack[u]) : stack'[u][k].line = stack[u][k].line
    BY <1>1 DEF Top
  <1>3. OneFrame'
    <2>1. \A u \in Threads : 1 .. Len(stack'[u]) = 1 .. Len(stack[u])
      BY <1>1
    <2>2. QED BY SMTT(60), <1>2, <2>1 DEF LogStrong, OneFrame
  <1>4. ASSUME NEW u \in Threads, NEW k \in 1 .. Len(stack[u]), u # t \/ k # 1
        PROVE  FrameFits(u, k, stack[u][k])'
    <2>1. stack[u][k] \in LogFrame /\ FrameFits(u, k, stack[u][k])
      BY ElementOfSeq DEF LogStrong, LogTypes, FramesFit
    <2>2. stack[u][k].line # f.line
      <3>1. 1 \in 1 .. Len(stack[t])
        BY <1>1
      <3>2. stack[t][1].line = f.line
        BY DEF Top
      <3>3. QED BY <1>4, <3>1, <3>2 DEF LogStrong, OneFrame
    <2>3. stack[u][k].line \in 1 .. Len(logged)
      BY <2>1, Zenon DEF FrameFits
    <2>4. PICK g : g = stack[u][k]
      OBVIOUS
    <2>5. /\ g.at \in {"chain", "text"} => writer' = writer
          /\ g.at = "call" /\ u \in readers => u \in readers' /\ verbs' = verbs
      BY <1>4, <2>4, Zenon
    <2>6. k \in Nat /\ Len(stack[u]) \in Nat /\ Len(logged) \in Nat
      BY LenProperties DEF LogStrong, LogTypes
    <2>7. FrameFits(u, k, g)'
      <3>1. /\ Len(stack'[u]) - k = Len(stack[u]) - k
            /\ k \in 1 .. Len(stack'[u])
        BY <1>1
      <3>2. (g.at \in {"chain", "text"} => k = 1) /\ (g.at = "call" => u \in readers)
        BY <2>1, <2>4 DEF FrameFits, Position
      <3>3. \A i \in 1 .. Len(chains) : /\ \A l : Takes(chains'[i], l) <=> Takes(chains[i], l)
                                     /\ Places(g.line, i)' = Places(g.line, i)
        BY <2>2, <2>3, <2>4
      <3>4. g.at = "text" => chains' = chains
        <4>1. SUFFICES ASSUME g.at = "text", Top(t).at \in {"chain", "text"} PROVE FALSE
          OBVIOUS
        <4>2. 1 \in 1 .. Len(stack[t]) /\ stack[t][1].at \in {"chain", "text"}
          BY <1>1, <4>1 DEF Top
        <4>3. QED BY <1>4, <2>4, <4>1, <4>2, OnlyWriter DEF LogStrong
      <3>5. Len(logged) <= Len(logged') /\ logged'[g.line] = logged[g.line]
        BY <2>2, <2>3, <2>4, <2>6
      <3>6. QED BY Zenon, <2>1, <2>4, <2>5, <3>1, <3>2, <3>3, <3>4, <3>5, FrameStays DEF LogStrong
    <2>8. QED BY <2>4, <2>7
  <1>5. FramesFit'
    <2>1. SUFFICES ASSUME NEW u \in Threads, NEW k \in 1 .. Len(stack'[u])
                   PROVE  FrameFits(u, k, stack[u][k])'
      BY DEF FramesFit
    <2>2. CASE u = t /\ k = 1
      BY <1>1, <2>2
    <2>3. CASE u # t \/ k # 1
      BY <1>1, <1>4, <2>3
    <2>4. QED BY <2>2, <2>3
  <1>6. LinesKept'
    <2>1. SUFFICES ASSUME NEW n \in 1 .. Len(logged), n # f.line
                   PROVE  LineKept(n)'
      BY DEF LinesKept
    <2>2. LineKept(n) /\ logged'[n] = logged[n]
      BY <2>1 DEF LogStrong, LinesKept
    <2>3. \A i \in 1 .. Len(chains) : /\ \A l : Takes(chains'[i], l) <=> Takes(chains[i], l)
                                     /\ Places(n, i)' = Places(n, i)
                                     /\ Len(chains[i].out) <= Len(chains'[i].out)
      BY <2>1
    <2>4. QED BY <2>1, <2>2, <2>3, LineStays DEF LogStrong
  <1>7. started' \/ chains' = <<>>
    <2>1. CASE chains' = chains
      BY <2>1 DEF LogStrong
    <2>2. CASE Top(t).at \in {"chain", "text"}
      BY <2>2, TopFits DEF FrameFits, Position
    <2>3. QED BY <2>1, <2>2
  <1>8. QED BY <1>3, <1>5, <1>6, <1>7 DEF LogStrong

\* A call goes on and writes nothing.
LEMMA GoesOn ==
  ASSUME LogStrong, LogTypes', NEW t \in Threads, stack[t] # <<>>, NEW f \in LogFrame,
         f.line = Top(t).line, stack' = [stack EXCEPT ![t][1] = f],
         UNCHANGED <<chains, started>>, Len(logged') = Len(logged),
         \A n \in 1 .. Len(logged) : n # f.line => logged'[n] = logged[n],
         logged[f.line].cut \subseteq logged'[f.line].cut,
         Top(t).at = "text" => Top(t).i \in logged'[f.line].cut,
         \A u \in Threads : \A k \in 1 .. Len(stack[u]) : u # t \/ k # 1 =>
           /\ stack[u][k].at \in {"chain", "text"} => writer' = writer
           /\ stack[u][k].at = "call" /\ u \in readers => u \in readers' /\ verbs' = verbs,
         FrameFits(t, 1, f)', LineKept(f.line)'
  PROVE  LogStrong'
  <1>1. \A u \in Threads : u # t => stack'[u] = stack[u]
    BY GotoFrames, Zenon DEF LogStrong
  <1>2. Whole'
    <2>1. \A n \in 1 .. Len(logged) : logged[n].cut \subseteq logged'[n].cut
      OBVIOUS
    <2>2. \A u \in Threads : stack[u] # <<>> /\ stack[u][1].at = "text" =>
            stack'[u] = stack[u] \/ stack[u][1].i \in logged'[stack[u][1].line].cut
      BY <1>1 DEF Top
    <2>3. QED BY <2>1, <2>2, WholeStays DEF LogStrong
  <1>3. MarksKnown'
    BY MarksStay, LenProperties DEF LogStrong, LogTypes
  <1>4. \A i \in 1 .. Len(chains) :
           /\ \A l : Takes(chains'[i], l) <=> Takes(chains[i], l)
           /\ Len(chains[i].out) <= Len(chains'[i].out)
           /\ \A n \in 1 .. Len(logged) : n # f.line => Places(n, i)' = Places(n, i)
    BY ChainTypes DEF LogStrong, LogTypes, Places
  <1>5. Len(chains') = Len(chains) /\ started' = started /\ chains' = chains
    OBVIOUS
  <1>6. QED BY <1>2, <1>3, <1>4, <1>5, Moves

\* A line ends, and the call returns.
LEMMA Returns ==
  ASSUME LogStrong, LogTypes', NEW t \in Threads, stack[t] # <<>>, Return(t),
         UNCHANGED <<chains, verbs, readers, started>>,
         NEW how \in {"stdout", "dropped", "lost", "logged"}, Ends(Top(t).line, how),
         Top(t).at # "text",
         \A u \in Threads : \A k \in 1 .. Len(stack[u]) : u # t \/ k # 1 =>
           (stack[u][k].at \in {"chain", "text"} => writer' = writer),
         how = "logged" =>
           started /\ \A i \in 1 .. Len(chains) : Settled(Top(t).line, i)
  PROVE  LogStrong'
  <1>0. PICK n : n = Top(t).line
    OBVIOUS
  <1>1. /\ Len(stack[t]) \in Nat \ {0} /\ Len(stack'[t]) = Len(stack[t]) - 1
        /\ \A u \in Threads : u # t => stack'[u] = stack[u]
        /\ \A k \in 1 .. Len(stack[t]) - 1 : stack'[t][k] = stack[t][k + 1]
    BY ReturnFrames, Zenon DEF LogStrong
  <1>2. /\ Top(t) \in LogFrame /\ FrameFits(t, 1, Top(t)) /\ n \in 1 .. Len(logged)
        /\ logged[n] \in LogLine
    BY <1>0, TopFits
  <1>3. /\ Len(logged') = Len(logged) /\ Len(logged) \in Nat
        /\ \A m \in 1 .. Len(logged) : m # n => logged'[m] = logged[m]
        /\ logged'[n] = [logged[n] EXCEPT !.how = how]
    <2>1. [logged[n] EXCEPT !.how = how] \in LogLine
      BY <1>2 DEF LogLine
    <2>2. logged' = [logged EXCEPT ![n] = [logged[n] EXCEPT !.how = how]]
      BY <1>0 DEF Ends
    <2>3. QED BY <1>2, <2>1, <2>2, LineChanges, LenProperties DEF LogStrong, LogTypes
  <1>4. \A u \in Threads : Len(stack[u]) \in Nat /\ Len(stack'[u]) \in Nat
    BY LenProperties DEF LogStrong, LogTypes
  \* Where a call was before.
  <1> DEFINE Old(u, k) == IF u = t THEN k + 1 ELSE k
  <1>5. ASSUME NEW u \in Threads, NEW k \in 1 .. Len(stack'[u])
        PROVE  /\ Old(u, k) \in 1 .. Len(stack[u]) /\ stack'[u][k] = stack[u][Old(u, k)]
               /\ u # t \/ Old(u, k) # 1
               /\ Len(stack'[u]) - k = Len(stack[u]) - Old(u, k)
    <2>1. CASE u # t
      BY <1>1, <1>4, <2>1
    <2>2. CASE u = t
      <3>1. PICK l \in Nat : /\ l = Len(stack[t]) /\ Len(stack'[t]) = l - 1 /\ k \in 1 .. l - 1
        BY <1>1, <2>2
      <3>2. k + 1 \in 1 .. l /\ k + 1 # 1 /\ l - 1 - k = l - (k + 1)
        BY ONLY <3>1
      <3>3. QED BY <1>1, <2>2, <3>1, <3>2
    <2>3. QED BY <2>1, <2>2
  <1>6. OneFrame'
    <2>1. SUFFICES ASSUME NEW u \in Threads, NEW v \in Threads, NEW k \in 1 .. Len(stack'[u]),
                          NEW j \in 1 .. Len(stack'[v]), stack'[u][k].line = stack'[v][j].line
                   PROVE  u = v /\ k = j
      BY DEF OneFrame
    <2>2. PICK o, p : o = Old(u, k) /\ p = Old(v, j)
      OBVIOUS
    <2>3. /\ o \in 1 .. Len(stack[u]) /\ stack'[u][k] = stack[u][o]
          /\ p \in 1 .. Len(stack[v]) /\ stack'[v][j] = stack[v][p]
      BY <1>5, <2>2
    <2>4. u = v /\ o = p
      BY <2>1, <2>3 DEF LogStrong, OneFrame
    <2>5. QED BY <1>4, <2>2, <2>4
  <1>7. FramesFit'
    <2>1. SUFFICES ASSUME NEW u \in Threads, NEW k \in 1 .. Len(stack'[u])
                   PROVE  FrameFits(u, k, stack[u][k])'
      BY DEF FramesFit
    <2>2. PICK o, g : o = Old(u, k) /\ g = stack'[u][k]
      OBVIOUS
    <2>3. /\ o \in 1 .. Len(stack[u]) /\ g = stack[u][o] /\ (u # t \/ o # 1)
          /\ Len(stack'[u]) - k = Len(stack[u]) - o
      BY <1>5, <2>2
    <2>4. g \in LogFrame /\ FrameFits(u, o, g)
      BY <2>3, ElementOfSeq DEF LogStrong, LogTypes, FramesFit
    <2>5. g.line \in 1 .. Len(logged) /\ g.line # n
      <3>1. 1 \in 1 .. Len(stack[t]) /\ stack[t][1].line = n
        BY <1>0, <1>1 DEF Top
      <3>2. g.line # n
        BY <2>3, <3>1 DEF LogStrong, OneFrame
      <3>3. QED BY <2>4, <3>2 DEF FrameFits
    <2>6. /\ g.at \in {"chain", "text"} => k = 1 /\ writer' = writer
          /\ g.at = "call" => u \in readers' /\ verbs' = verbs
      <3>1. g.at \in {"chain", "text"} => o = 1
        BY <2>4 DEF FrameFits, Position
      <3>2. o = 1 => k = 1
        BY <2>2, <2>3
      <3>3. g.at = "call" => u \in readers
        BY <2>4 DEF FrameFits, Position
      <3>4. QED BY <2>3, <3>1, <3>2, <3>3
    <2>7. \A i \in 1 .. Len(chains) : /\ \A l : Takes(chains'[i], l) <=> Takes(chains[i], l)
                                      /\ Places(g.line, i)' = Places(g.line, i)
                                      /\ Len(chains[i].out) <= Len(chains'[i].out)
      BY ChainTypes DEF LogStrong, LogTypes, Places
    <2>8. Len(logged) <= Len(logged') /\ logged'[g.line] = logged[g.line]
      BY <1>3, <2>5
    <2>9. FrameFits(u, k, g)'
      BY <2>3, <2>4, <2>6, <2>7, <2>8, FrameStays DEF LogStrong
    <2>10. QED BY <2>2, <2>9
  <1>8. Whole'
    <2>1. logged'[n].cut = logged[n].cut
      BY <1>2, <1>3 DEF LogLine
    <2>2. \A m \in 1 .. Len(logged) : logged[m].cut \subseteq logged'[m].cut
      BY <1>3, <2>1
    <2>3. QED BY <1>1, <2>2, WholeStays DEF LogStrong, Top
  <1>9. MarksKnown'
    BY <1>3, MarksStay DEF LogStrong
  <1>10. LinesKept'
    <2>1. SUFFICES ASSUME NEW m \in 1 .. Len(logged) PROVE LineKept(m)'
      BY <1>3 DEF LinesKept
    <2>2. LineKept(m)
      BY DEF LogStrong, LinesKept
    <2>3. \A i \in 1 .. Len(chains) : /\ \A l : Takes(chains'[i], l) <=> Takes(chains[i], l)
                                      /\ Places(m, i)' = Places(m, i)
                                      /\ Len(chains[i].out) <= Len(chains'[i].out)
      BY ChainTypes DEF LogStrong, LogTypes, Places
    <2>4. CASE m # n
      BY <1>3, <2>2, <2>3, <2>4, LineStays DEF LogStrong
    <2>5. CASE m = n
      <3>1. /\ logged'[n].how = how /\ logged'[n].level = logged[n].level
            /\ logged'[n].failed = logged[n].failed /\ logged'[n].due = logged[n].due
            /\ logged'[n].heard = logged[n].heard /\ logged'[n].cut = logged[n].cut
        BY <1>2, <1>3 DEF LogLine
      <3>2. \A i \in 1 .. Len(chains) : Settled(n, i) => Settled(n, i)'
        BY <2>3, <2>5, <3>1 DEF Settled, Belongs
      <3>3. QED BY <1>0, <2>2, <2>5, <3>1, <3>2 DEF LineKept
    <2>6. QED BY <2>4, <2>5
  <1>11. QED BY <1>6, <1>7, <1>8, <1>9, <1>10 DEF LogStrong

\* A thread begins a line, in the middle of what it did if it is a signal.
LEMMA Begins ==
  ASSUME LogStrong, LogTypes', NEW t \in Threads, NEW level \in Levels \cup Logged,
         NEW fn \in {"log", "verbose"},
         stack' = [stack EXCEPT ![t] = <<Frame(fn, Len(logged) + 1)>> \o stack[t]],
         logged' = Append(logged, Line(level)), UNCHANGED <<chains, verbs, writer, readers, started>>,
         fn = "verbose" => stack[t] = <<>>, stack[t] # <<>> => writer # {t}
  PROVE  LogStrong'
  <1>0. PICK n, f : n = Len(logged) + 1 /\ f = Frame(fn, n)
    OBVIOUS
  <1>1. /\ n \in Nat /\ Len(logged) \in Nat /\ Len(logged') = n
        /\ \A m \in 1 .. Len(logged) : logged'[m] = logged[m]
        /\ logged'[n] = Line(level)
    BY <1>0, LineAdded DEF LogStrong
  <1>2. f \in LogFrame /\ f = [fn |-> fn, line |-> n, at |-> "begin", i |-> 1]
    BY <1>0, <1>1 DEF Frame, LogFrame
  <1>3. /\ Len(stack[t]) \in Nat /\ Len(stack'[t]) = Len(stack[t]) + 1
        /\ \A u \in Threads : u # t => stack'[u] = stack[u]
        /\ stack'[t][1] = f
        /\ \A k \in 1 .. Len(stack[t]) + 1 : k # 1 => stack'[t][k] = stack[t][k - 1]
    BY <1>0, <1>2, NewFrames DEF LogStrong
  <1>4. \A u \in Threads : Len(stack[u]) \in Nat /\ Len(stack'[u]) \in Nat
    BY LenProperties DEF LogStrong, LogTypes
  \* Where a call was before.
  <1>5. ASSUME NEW u \in Threads, NEW k \in 1 .. Len(stack'[u]), u # t \/ k # 1
        PROVE  \E o \in 1 .. Len(stack[u]) :
                 /\ stack'[u][k] = stack[u][o]
                 /\ Len(stack'[u]) - k = Len(stack[u]) - o /\ (u # t => o = k)
    <2>1. CASE u = t
      <3>1. k \in 1 .. Len(stack[t]) + 1 /\ k # 1 /\ Len(stack[t]) \in Nat
        BY <1>3, <1>5, <2>1
      <3>2. k - 1 \in 1 .. Len(stack[t]) /\ stack'[t][k] = stack[t][k - 1]
        BY <1>3, <3>1
      <3>3. Len(stack'[t]) - k = Len(stack[t]) - (k - 1)
        BY <1>3, <3>1
      <3>4. QED BY <2>1, <3>2, <3>3
    <2>2. CASE u # t
      BY <1>3, <2>2
    <2>3. QED BY <2>1, <2>2
  <1>6. ASSUME NEW u \in Threads, NEW k \in 1 .. Len(stack[u])
        PROVE  /\ stack[u][k] \in LogFrame /\ FrameFits(u, k, stack[u][k])
               /\ stack[u][k].line \in 1 .. Len(logged)
    <2>1. stack[u][k] \in LogFrame /\ FrameFits(u, k, stack[u][k])
      BY ElementOfSeq DEF LogStrong, LogTypes, FramesFit
    <2>2. QED BY <2>1 DEF FrameFits
  <1>7. OneFrame'
    <2>1. SUFFICES ASSUME NEW u \in Threads, NEW v \in Threads, NEW k \in 1 .. Len(stack'[u]),
                          NEW j \in 1 .. Len(stack'[v]), stack'[u][k].line = stack'[v][j].line
                   PROVE  u = v /\ k = j
      BY DEF OneFrame
    <2>2. \A w \in Threads : \A i \in 1 .. Len(stack'[w]) :
            w # t \/ i # 1 => stack'[w][i].line \in 1 .. Len(logged)
      <3>1. SUFFICES ASSUME NEW w \in Threads, NEW i \in 1 .. Len(stack'[w]), w # t \/ i # 1
                     PROVE  stack'[w][i].line \in 1 .. Len(logged)
        OBVIOUS
      <3>2. PICK o \in 1 .. Len(stack[w]) : stack'[w][i] = stack[w][o]
        BY ZenonT(60), <1>5, <3>1
      <3>3. QED BY <1>6, <3>2
    <2>3. stack'[t][1].line = n /\ n \notin 1 .. Len(logged)
      BY <1>0, <1>1, <1>2, <1>3
    <2>4. CASE (u # t \/ k # 1) /\ (v # t \/ j # 1)
      <3>1. PICK o \in 1 .. Len(stack[u]) :
              stack'[u][k] = stack[u][o] /\ Len(stack'[u]) - k = Len(stack[u]) - o
        BY ZenonT(60), <1>5, <2>4
      <3>2. PICK p \in 1 .. Len(stack[v]) :
              stack'[v][j] = stack[v][p] /\ Len(stack'[v]) - j = Len(stack[v]) - p
        BY <1>5, <2>4
      <3>3. stack[u][o].line = stack[v][p].line
        BY <2>1, <3>1, <3>2
      <3>4. u = v /\ o = p
        BY <3>3 DEF LogStrong, OneFrame
      <3>5. QED BY <1>4, <3>1, <3>2, <3>4
    <2>5. QED BY <2>1, <2>2, <2>3, <2>4
  <1>8. ASSUME NEW m \in 1 .. Len(logged), NEW i \in 1 .. Len(chains)
        PROVE  /\ \A l : Takes(chains'[i], l) <=> Takes(chains[i], l)
               /\ Places(m, i)' = Places(m, i)
               /\ Len(chains[i].out) <= Len(chains'[i].out)
    BY ChainTypes DEF LogStrong, LogTypes, Places
  <1>9. FrameFits(t, 1, f)'
    <2>1. n \in 1 .. Len(logged') /\ logged'[n].how = "begun" /\ logged'[n].failed = {}
          /\ logged'[n].cut = {} /\ logged'[n].heard = <<>> /\ logged'[n].due = <<>>
      BY <1>1 DEF Line
    <2>2. \A i \in 1 .. Len(chains) : Untouched(n, i)'
      <3>1. \A i \in 1 .. Len(chains) : Places(n, i)' = {}
        <4>1. n \notin 1 .. Len(logged)
          BY <1>0, <1>1
        <4>2. QED BY <4>1 DEF LogStrong, MarksKnown, Places
      <3>2. QED BY <2>1, <3>1 DEF Untouched
    <2>3. Position(t, 1, f)'
      <3>1. fn = "verbose" => Len(stack'[t]) = 1
        BY <1>3
      <3>2. QED BY <1>2, <3>1 DEF Position
    <2>4. OnChains(f)'
      <3>1. \A i \in 1 .. Len(chains) : ~ (i < 1)
        OBVIOUS
      <3>2. QED BY <1>2, <2>2, <3>1 DEF OnChains
    <2>5. HeardBy(f)'
      BY <1>2, <2>1 DEF HeardBy
    <2>6. QED BY <1>2, <2>1, <2>3, <2>4, <2>5 DEF FrameFits
  <1>10. FramesFit'
    <2>1. SUFFICES ASSUME NEW u \in Threads, NEW k \in 1 .. Len(stack'[u]), u # t \/ k # 1
                   PROVE  FrameFits(u, k, stack[u][k])'
      BY <1>3, <1>9 DEF FramesFit
    <2>2. PICK o \in 1 .. Len(stack[u]) :
            /\ stack'[u][k] = stack[u][o]
            /\ Len(stack'[u]) - k = Len(stack[u]) - o /\ (u # t => o = k)
      BY <1>5, <2>1
    <2>3. PICK g : g = stack[u][o]
      OBVIOUS
    <2>4. g \in LogFrame /\ FrameFits(u, o, g) /\ g.line \in 1 .. Len(logged)
      BY <1>6, <2>3
    <2>5. /\ g.at \in {"chain", "text"} => k = 1 /\ writer' = writer
          /\ g.at = "call" => u \in readers' /\ verbs' = verbs
      <3>1. g.at \in {"chain", "text"} => o = 1 /\ writer = {u}
        BY <2>4 DEF FrameFits, Position
      <3>2. u # t => o = k
        BY <2>2
      <3>3. g.at = "call" => u \in readers
        BY <2>4 DEF FrameFits, Position
      <3>4. u = t => stack[t] # <<>>
        BY <2>2, Len(<<>>) = 0
      <3>5. QED BY <3>1, <3>2, <3>3, <3>4
    <2>6. Len(logged) <= Len(logged') /\ logged'[g.line] = logged[g.line]
      BY <1>0, <1>1, <2>4
    <2>7. FrameFits(u, k, g)'
      BY <1>8, <2>2, <2>4, <2>5, <2>6, FrameStays DEF LogStrong
    <2>8. QED BY <2>2, <2>3, <2>7
  <1>11. Whole'
    <2>1. \A u \in Threads : stack[u] # <<>> /\ stack[u][1].at = "text" => u # t
      <3>1. SUFFICES ASSUME stack[t] # <<>>, stack[t][1].at = "text" PROVE FALSE
        OBVIOUS
      <3>2. FrameFits(t, 1, stack[t][1])
        BY <3>1, TopFits DEF Top
      <3>3. QED BY <3>1, <3>2 DEF FrameFits, Position
    <2>2. \A m \in 1 .. Len(logged) : logged[m].cut \subseteq logged'[m].cut
      BY <1>1
    <2>3. QED BY <1>3, <2>1, <2>2, WholeStays DEF LogStrong
  <1>12. MarksKnown'
    BY <1>0, <1>1, MarksStay DEF LogStrong
  <1>13. LinesKept'
    <2>1. SUFFICES ASSUME NEW m \in 1 .. n PROVE LineKept(m)'
      BY <1>1 DEF LinesKept
    <2>2. CASE m = n
      <3>1. /\ logged'[n].how = "begun" /\ logged'[n].failed = {} /\ logged'[n].cut = {}
            /\ logged'[n].heard = <<>> /\ logged'[n].due = <<>>
        BY <1>1 DEF Line
      <3>2. Len(<<>>) = 0 /\ SubSeq(<<>>, 1, 0) = <<>>
        BY SubSeqEmpty
      <3>3. QED BY <2>2, <3>1, <3>2 DEF LineKept
    <2>3. CASE m # n
      <3>1. m \in 1 .. Len(logged)
        BY <1>0, <1>1, <2>3
      <3>2. LineKept(m) /\ logged'[m] = logged[m]
        BY <1>1, <3>1 DEF LogStrong, LinesKept
      <3>3. QED BY <1>8, <3>1, <3>2, LineStays DEF LogStrong
    <2>4. QED BY <2>2, <2>3
  <1>14. QED BY <1>7, <1>10, <1>11, <1>12, <1>13 DEF LogStrong

----------------------------------------------------------------------------
(* The steps.                                                              *)

LEMMA LogKeeps ==
  ASSUME LogStrong, NEW t \in Threads, NEW level \in Logged, Log(t, level), ~nested
  PROVE  LogStrong'
  <1>1. PICK f : f = Frame("log", Len(logged) + 1)
    OBVIOUS
  <1>2. stack' = [stack EXCEPT ![t] = <<f>> \o stack[t]]
    <2>1. stack[t] = <<>> /\ stack' = [stack EXCEPT ![t] = <<f>>]
      BY <1>1 DEF Log
    <2>2. <<f>> \o <<>> = <<f>>
      OBVIOUS
    <2>3. QED BY <2>1, <2>2
  <1>3. UNCHANGED <<chains, verbs, writer, readers, started>>
    BY DEF Log
  <1>4. logged' = Append(logged, Line(level))
    BY DEF Log
  <1>5. f \in LogFrame
    BY <1>1, LenProperties DEF LogStrong, LogTypes, Frame, LogFrame
  <1>6. LogTypes'
    BY <1>2, <1>3, <1>4, <1>5, LineAdded, NewFrames DEF LogStrong, LogTypes
  <1>7. stack[t] = <<>>
    BY DEF Log
  <1>8. QED BY <1>1, <1>2, <1>3, <1>4, <1>6, <1>7, Begins

LEMMA VerboseLineKeeps ==
  ASSUME LogStrong, NEW t \in Threads, VerboseLine(t)
  PROVE  LogStrong'
  <1>1. PICK f : f = Frame("verbose", Len(logged) + 1)
    OBVIOUS
  <1>2. stack' = [stack EXCEPT ![t] = <<f>> \o stack[t]]
    <2>1. stack[t] = <<>> /\ stack' = [stack EXCEPT ![t] = <<f>>]
      BY <1>1 DEF VerboseLine
    <2>2. <<f>> \o <<>> = <<f>>
      OBVIOUS
    <2>3. QED BY <2>1, <2>2
  <1>3. UNCHANGED <<chains, verbs, writer, readers, started>>
    BY DEF VerboseLine
  <1>4. logged' = Append(logged, Line(Verbose)) /\ Verbose \in Levels
    BY DEF VerboseLine, Verbose, Levels, Debug
  <1>5. f \in LogFrame
    BY <1>1, LenProperties DEF LogStrong, LogTypes, Frame, LogFrame
  <1>6. LogTypes'
    BY <1>2, <1>3, <1>4, <1>5, LineAdded, NewFrames DEF LogStrong, LogTypes
  <1>7. stack[t] = <<>>
    BY DEF VerboseLine
  <1>8. QED BY <1>1, <1>2, <1>3, <1>4, <1>6, <1>7, Begins

\* A signal that interrupts a thread which has the lock is the exception.
LEMMA SignalKeeps ==
  ASSUME LogStrong, NEW t \in Threads, Signal(t), nested' = FALSE
  PROVE  LogStrong'
  <1>1. PICK f : f = Frame("log", Len(logged) + 1)
    OBVIOUS
  <1>2. stack' = [stack EXCEPT ![t] = <<f>> \o stack[t]]
    BY <1>1 DEF Signal
  <1>3. UNCHANGED <<chains, verbs, writer, readers, started>>
    BY DEF Signal
  <1>4. logged' = Append(logged, Line(Notice)) /\ Notice \in Levels
    BY DEF Signal, Notice, Levels, Debug, Verbose
  <1>5. f \in LogFrame
    BY <1>1, LenProperties DEF LogStrong, LogTypes, Frame, LogFrame
  <1>6. LogTypes'
    BY <1>2, <1>3, <1>4, <1>5, LineAdded, NewFrames DEF LogStrong, LogTypes
  <1>7. writer # {t}
    BY Zenon DEF Signal
  <1>8. QED BY <1>1, <1>2, <1>3, <1>4, <1>6, <1>7, Begins

LEMMA SameChains ==
  ASSUME LogStrong, LogTypes', NEW n \in 1 .. Len(logged),
         UNCHANGED <<chains, started>>, logged'[n] = logged[n]
  PROVE  /\ LineKept(n)'
         /\ \A i \in 1 .. Len(chains) : /\ Settled(n, i) => Settled(n, i)'
                                        /\ Untouched(n, i) => Untouched(n, i)'
  <1>1. \A i \in 1 .. Len(chains) : /\ \A l : Takes(chains'[i], l) <=> Takes(chains[i], l)
                                    /\ Places(n, i)' = Places(n, i)
                                    /\ Len(chains[i].out) <= Len(chains'[i].out)
    BY ChainTypes DEF LogStrong, LogTypes, Places
  <1>2. LineKept(n)
    BY DEF LogStrong, LinesKept
  <1>3. LineKept(n)'
    BY <1>1, <1>2, LineStays DEF LogStrong
  <1>4. \A i \in 1 .. Len(chains) : /\ Settled(n, i) => Settled(n, i)'
                                    /\ Untouched(n, i) => Untouched(n, i)'
    BY <1>1 DEF Settled, Belongs, Untouched
  <1>5. QED BY <1>3, <1>4

\* Without a chain the line goes to the terminal, if anywhere.
LEMMA LogTestKeeps ==
  ASSUME LogStrong, NEW t \in Threads, LogTest(t)
  PROVE  LogStrong'
  <1>0. PICK n, f : n = Top(t).line /\ f = [fn |-> "log", line |-> n, at |-> "lock", i |-> 1]
    OBVIOUS
  <1>1. /\ stack[t] # <<>> /\ Top(t).fn = "log" /\ Top(t).at = "begin"
        /\ UNCHANGED <<chains, verbs, writer, readers, started>>
    BY DEF LogTest, At
  <1>2. /\ Top(t) \in LogFrame /\ FrameFits(t, 1, Top(t)) /\ n \in 1 .. Len(logged)
        /\ logged[n] \in LogLine
    BY <1>0, <1>1, TopFits
  <1>3. ASSUME NEW how \in {"stdout", "dropped", "lost"}, Return(t), Ends(n, how)
        PROVE  LogStrong'
    <2>1. LogTypes /\ writer' \in SUBSET Threads
      BY <1>1 DEF LogStrong, LogTypes
    <2>2. LogTypes'
      BY <1>0, <1>1, <1>2, <1>3, <2>1, EndTypes
    <2>3. QED BY <1>0, <1>1, <1>3, <2>2, Returns
  <1>4. CASE chains # <<>> /\ Goto(t, "lock", 1) /\ UNCHANGED logged
    <2>1. stack' = [stack EXCEPT ![t][1] = f] /\ f \in LogFrame
      BY <1>0, <1>1, <1>2, <1>4 DEF Goto, LogFrame
    <2>2. LogTypes'
      BY <1>1, <1>4, <2>1, GotoFrames DEF LogStrong, LogTypes
    <2>3. LineKept(n)' /\ \A i \in 1 .. Len(chains) : Untouched(n, i) => Untouched(n, i)'
      BY <1>1, <1>2, <1>4, <2>2, SameChains
    <2>4. FrameFits(t, 1, f)'
      <3>1. Position(t, 1, f)'
        BY <1>0, <1>1, <1>4 DEF LogStrong, Position
      <3>2. OnChains(f)'
        <4>1. Top(t).i = 1 /\ OnChains(Top(t))
          BY <1>1, <1>2 DEF FrameFits, Position
        <4>2. \A i \in 1 .. Len(chains) : Untouched(n, i)
          BY <1>0, <1>1, <4>1 DEF OnChains
        <4>3. \A i \in 1 .. Len(chains) : ~ (i < 1)
          OBVIOUS
        <4>4. QED BY <1>0, <1>1, <2>3, <4>2, <4>3 DEF OnChains
      <3>3. HeardBy(f)'
        BY <1>0, <1>1, <1>2, <1>4 DEF FrameFits, HeardBy
      <3>4. QED BY <1>0, <1>2, <1>4, <3>1, <3>2, <3>3 DEF FrameFits
    <2>5. /\ f.line = Top(t).line /\ Top(t).at # "text" /\ Len(logged') = Len(logged)
          /\ logged[f.line].cut \subseteq logged'[f.line].cut
          /\ \A m \in 1 .. Len(logged) : m # f.line => logged'[m] = logged[m]
          /\ FrameFits(t, 1, f)' /\ LineKept(f.line)'
      BY <1>0, <1>1, <1>4, <2>3, <2>4
    <2>6. QED BY <1>1, <2>1, <2>2, <2>5, GoesOn
  <1>5. QED
    <2>1. CASE Return(t) /\ Ends(n, IF logged[n].level = Verbose THEN "dropped" ELSE "stdout")
      BY <1>3, <2>1
    <2>2. CASE Return(t) /\ Ends(n, "lost")
      BY <1>3, <2>2
    <2>3. QED BY <1>0, <1>4, <2>1, <2>2 DEF LogTest

\* Who takes the lock of the chains is the only one that writes.
LEMMA LogLockKeeps ==
  ASSUME LogStrong, NEW t \in Threads, LogLock(t)
  PROVE  LogStrong'
  <1>0. PICK n, f : n = Top(t).line /\ f = [fn |-> "log", line |-> n, at |-> "chain", i |-> 1]
    OBVIOUS
  <1>1. /\ stack[t] # <<>> /\ Top(t).fn = "log" /\ Top(t).at = "lock"
        /\ writer \subseteq {t} /\ writer' = {t}
        /\ UNCHANGED <<chains, verbs, readers, started, logged>> /\ Goto(t, "chain", 1)
    BY DEF LogLock, At
  <1>2. /\ Top(t) \in LogFrame /\ FrameFits(t, 1, Top(t)) /\ n \in 1 .. Len(logged)
    BY <1>0, <1>1, TopFits
  <1>3. stack' = [stack EXCEPT ![t][1] = f] /\ f \in LogFrame
    BY <1>0, <1>1, <1>2 DEF Goto, LogFrame
  <1>4. LogTypes'
    BY <1>1, <1>3, GotoFrames DEF LogStrong, LogTypes
  <1>5. LineKept(n)' /\ \A i \in 1 .. Len(chains) : Untouched(n, i) => Untouched(n, i)'
    BY <1>1, <1>2, <1>4, SameChains
  <1>6. FrameFits(t, 1, f)'
    <2>1. Position(t, 1, f)'
      BY <1>0, <1>1, <1>2 DEF FrameFits, Position
    <2>2. OnChains(f)'
      <3>1. Top(t).i = 1 /\ OnChains(Top(t))
        BY <1>1, <1>2 DEF FrameFits, Position
      <3>2. \A i \in 1 .. Len(chains) : Untouched(n, i)
        BY <1>0, <1>1, <3>1 DEF OnChains
      <3>3. \A i \in 1 .. Len(chains) : ~ (i < 1)
        OBVIOUS
      <3>4. QED BY <1>0, <1>1, <1>5, <3>2, <3>3 DEF OnChains
    <2>3. HeardBy(f)'
      BY <1>0, <1>1, <1>2 DEF FrameFits, HeardBy
    <2>4. QED BY <1>0, <1>1, <1>2, <2>1, <2>2, <2>3 DEF FrameFits
  <1>7. \A u \in Threads : \A k \in 1 .. Len(stack[u]) : u # t \/ k # 1 =>
           stack[u][k].at \notin {"chain", "text"}
    <2>1. SUFFICES ASSUME NEW u \in Threads, NEW k \in 1 .. Len(stack[u]), u # t \/ k # 1,
                          stack[u][k].at \in {"chain", "text"}
                   PROVE  FALSE
      OBVIOUS
    <2>2. k = 1 /\ writer = {u}
      BY <2>1 DEF LogStrong, FramesFit, FrameFits, Position
    <2>3. QED BY <1>1, <2>1, <2>2
  <1>8. /\ f.line = Top(t).line /\ Top(t).at # "text" /\ Len(logged') = Len(logged)
        /\ logged[f.line].cut \subseteq logged'[f.line].cut
        /\ \A m \in 1 .. Len(logged) : m # f.line => logged'[m] = logged[m]
        /\ FrameFits(t, 1, f)' /\ LineKept(f.line)'
    BY <1>0, <1>1, <1>5, <1>6
  <1>9. QED BY <1>1, <1>3, <1>4, <1>7, <1>8, GoesOn

\* After the last chain the lock is given back.
LEMMA LogUnlockKeeps ==
  ASSUME LogStrong, NEW t \in Threads, LogUnlock(t)
  PROVE  LogStrong'
  <1>1. /\ stack[t] # <<>> /\ Top(t).fn = "log" /\ Top(t).at = "chain" /\ Top(t).i > Len(chains)
        /\ writer' = writer \ {t} /\ Return(t) /\ Ends(Top(t).line, "logged")
        /\ UNCHANGED <<chains, verbs, readers, started>>
    BY DEF LogUnlock, At
  <1>2. /\ Top(t) \in LogFrame /\ FrameFits(t, 1, Top(t)) /\ Top(t).line \in 1 .. Len(logged)
        /\ 1 \in 1 .. Len(stack[t])
    BY <1>1, TopFits
  <1>3. LogTypes /\ writer' \in SUBSET Threads
    BY <1>1 DEF LogStrong, LogTypes
  <1>4. LogTypes'
    BY <1>1, <1>2, <1>3, EndTypes
  <1>5. started /\ \A i \in 1 .. Len(chains) : Settled(Top(t).line, i)
    <2>1. \A i \in 1 .. Len(chains) : i < Top(t).i
      BY <1>1, <1>2, LenProperties DEF LogStrong, LogTypes, LogFrame
    <2>2. QED BY <1>1, <1>2, <2>1 DEF FrameFits, OnChains, Position
  <1>6. \A u \in Threads : \A k \in 1 .. Len(stack[u]) : u # t \/ k # 1 =>
           stack[u][k].at \notin {"chain", "text"}
    <2>1. stack[t][1].at = "chain"
      BY <1>1 DEF Top
    <2>2. QED BY <1>2, <2>1, OnlyWriter DEF LogStrong
  <1>7. QED BY <1>1, <1>4, <1>5, <1>6, Returns

----------------------------------------------------------------------------
(* The verbosers.                                                          *)

\* While a thread reads the verbosers none comes or goes.
LEMMA VerboseLockKeeps ==
  ASSUME LogStrong, NEW t \in Threads, VerboseLock(t)
  PROVE  LogStrong'
  <1>0. PICK n, f, e : /\ n = Top(t).line
                       /\ f = [fn |-> "verbose", line |-> n, at |-> "call", i |-> 1]
                       /\ e = [logged[n] EXCEPT !.due = verbs]
    OBVIOUS
  <1>1. /\ stack[t] # <<>> /\ Top(t).fn = "verbose" /\ Top(t).at = "begin"
        /\ readers' = readers \cup {t} /\ logged' = [logged EXCEPT ![n] = e]
        /\ UNCHANGED <<chains, verbs, writer, started>> /\ Goto(t, "call", 1)
    BY <1>0 DEF VerboseLock, At
  <1>2. /\ Top(t) \in LogFrame /\ FrameFits(t, 1, Top(t)) /\ n \in 1 .. Len(logged)
        /\ logged[n] \in LogLine
    BY <1>0, <1>1, TopFits
  <1>3. stack' = [stack EXCEPT ![t][1] = f] /\ f \in LogFrame
    BY <1>0, <1>1, <1>2 DEF Goto, LogFrame
  <1>4. verbs \in Seq(Verbosers)
    BY DEF LogStrong, LogTypes
  <1>5. /\ e \in LogLine /\ e.how = logged[n].how /\ e.failed = logged[n].failed
        /\ e.cut = logged[n].cut
        /\ e.level = logged[n].level /\ e.heard = logged[n].heard /\ e.due = verbs
    BY <1>0, <1>2, <1>4 DEF LogLine
  <1>6. /\ logged' \in Seq(LogLine) /\ Len(logged') = Len(logged) /\ logged'[n] = e
        /\ \A m \in 1 .. Len(logged) : m # n => logged'[m] = logged[m]
    BY <1>1, <1>2, <1>5, LineChanges DEF LogStrong
  <1>7. LogTypes'
    BY <1>1, <1>3, <1>6, GotoFrames DEF LogStrong, LogTypes
  <1>8. logged[n].heard = <<>> /\ SubSeq(verbs, 1, 0) = <<>> /\ Len(<<>>) = 0 /\ Len(verbs) \in Nat
    BY <1>0, <1>1, <1>2, <1>4, SubSeqEmpty, LenProperties DEF FrameFits, HeardBy
  <1>9. FrameFits(t, 1, f)'
    <2>1. Position(t, 1, f)'
      <3>1. Len(stack'[t]) = Len(stack[t])
        BY <1>1, <1>3, GotoFrames DEF LogStrong
      <3>2. QED BY <1>0, <1>1, <1>2, <3>1 DEF FrameFits, Position
    <2>2. OnChains(f)'
      <3>1. Top(t).i = 1 /\ OnChains(Top(t))
        BY <1>1, <1>2 DEF FrameFits, Position
      <3>2. \A i \in 1 .. Len(chains) : Untouched(n, i)
        BY <1>0, <1>1, <3>1 DEF OnChains
      <3>3. \A i \in 1 .. Len(chains) : Untouched(n, i)'
        BY <1>1, <1>5, <1>6, <3>2 DEF Untouched, Places
      <3>4. QED BY <1>0, <1>1, <3>3 DEF OnChains
    <2>3. HeardBy(f)'
      <3>1. f.i - 1 = 0 /\ f.i <= Len(verbs) + 1
        BY <1>0, <1>8
      <3>2. QED BY ZenonT(60), <1>0, <1>1, <1>5, <1>6, <1>8, <3>1 DEF HeardBy
    <2>4. QED BY <1>0, <1>1, <1>2, <1>5, <1>6, <2>1, <2>2, <2>3 DEF FrameFits
  <1>10. LineKept(n)'
    BY SMTT(60), <1>1, <1>2, <1>5, <1>6, <1>8, <1>0 DEF LogStrong, LinesKept, LineKept, FrameFits
  <1>11. /\ f.line = Top(t).line /\ Top(t).at # "text"
         /\ logged[f.line].cut \subseteq logged'[f.line].cut
         /\ \A m \in 1 .. Len(logged) : m # f.line => logged'[m] = logged[m]
         /\ FrameFits(t, 1, f)' /\ LineKept(f.line)'
    BY <1>0, <1>1, <1>5, <1>6, <1>9, <1>10
  <1>12. QED BY <1>1, <1>3, <1>6, <1>7, <1>11, GoesOn

\* Without a buffer nobody hears the line, and it is not logged.
LEMMA VerboseFailsKeeps ==
  ASSUME LogStrong, NEW t \in Threads, VerboseFails(t)
  PROVE  LogStrong'
  <1>1. /\ stack[t] # <<>> /\ Top(t).at = "begin"
        /\ Return(t) /\ Ends(Top(t).line, "lost")
        /\ UNCHANGED <<chains, verbs, writer, readers, started>>
    BY DEF VerboseFails, At
  <1>2. Top(t).line \in 1 .. Len(logged)
    BY <1>1, TopFits
  <1>3. LogTypes /\ writer' \in SUBSET Threads
    BY <1>1 DEF LogStrong, LogTypes
  <1>4. LogTypes'
    BY <1>1, <1>2, <1>3, EndTypes
  <1>5. QED BY <1>1, <1>4, Returns

LEMMA CallKeeps ==
  ASSUME LogStrong, NEW t \in Threads, Call(t)
  PROVE  LogStrong'
  <1>0. PICK n, i, f, h, e : /\ n = Top(t).line /\ i = Top(t).i
                       /\ f = [fn |-> "verbose", line |-> n, at |-> "call", i |-> i + 1]
                       /\ h = Append(logged[n].heard, verbs[i])
                       /\ e = [logged[n] EXCEPT !.heard = h]
    OBVIOUS
  <1>1. /\ stack[t] # <<>> /\ Top(t).fn = "verbose" /\ Top(t).at = "call" /\ i <= Len(verbs)
        /\ logged' = [logged EXCEPT ![n] = e]
        /\ UNCHANGED <<chains, verbs, writer, readers, started>> /\ Goto(t, "call", i + 1)
    BY <1>0 DEF Call, At
  <1>2. /\ Top(t) \in LogFrame /\ FrameFits(t, 1, Top(t)) /\ n \in 1 .. Len(logged)
        /\ logged[n] \in LogLine
    BY <1>0, <1>1, TopFits
  <1>3. verbs \in Seq(Verbosers) /\ i \in Nat \ {0} /\ Len(verbs) \in Nat
    BY <1>0, <1>2, LenProperties DEF LogStrong, LogTypes, LogFrame
  <1>4. stack' = [stack EXCEPT ![t][1] = f] /\ f \in LogFrame
    BY <1>0, <1>1, <1>2, <1>3 DEF Goto, LogFrame
  <1>5. h = SubSeq(verbs, 1, i) /\ h \in Seq(Verbosers) /\ Len(h) = i
    <2>1. logged[n].heard = SubSeq(verbs, 1, i - 1)
      BY <1>0, <1>1, <1>2 DEF FrameFits, HeardBy
    <2>2. i \in 1 .. Len(verbs) /\ 1 \in 1 .. Len(verbs) /\ verbs[i] \in Verbosers
      BY <1>1, <1>3, ElementOfSeq
    <2>3. SubSeq(verbs, 1, i) = SubSeq(verbs, 1, i - 1) \o <<verbs[i]>>
      BY <1>3, <2>2, SubSeqRecursiveSecond
    <2>4. \A k \in 1 .. i : verbs[k] \in Verbosers
      BY <1>3, <2>2, ElementOfSeq
    <2>5. SubSeq(verbs, 1, i - 1) \in Seq(Verbosers)
      BY <1>3, <2>4, SubSeqProperties
    <2>6. h = SubSeq(verbs, 1, i - 1) \o <<verbs[i]>>
      BY <1>0, <2>1, <2>2, <2>5, AppendIsConcat
    <2>7. SubSeq(verbs, 1, i) \in Seq(Verbosers) /\ Len(SubSeq(verbs, 1, i)) = i
      BY <1>3, <2>4, SubSeqProperties
    <2>8. QED BY <2>3, <2>6, <2>7
  <1>6. /\ e \in LogLine /\ e.how = logged[n].how /\ e.failed = logged[n].failed
        /\ e.cut = logged[n].cut
        /\ e.level = logged[n].level /\ e.heard = h /\ e.due = logged[n].due
    BY <1>0, <1>2, <1>5 DEF LogLine
  <1>7. /\ logged' \in Seq(LogLine) /\ Len(logged') = Len(logged) /\ logged'[n] = e
        /\ \A m \in 1 .. Len(logged) : m # n => logged'[m] = logged[m]
    BY <1>1, <1>2, <1>6, LineChanges DEF LogStrong
  <1>8. LogTypes'
    BY <1>1, <1>4, <1>7, GotoFrames DEF LogStrong, LogTypes
  <1>9. logged[n].due = verbs
    BY SMTT(60), <1>0, <1>1, <1>2 DEF FrameFits, HeardBy
  <1>10. FrameFits(t, 1, f)'
    <2>1. Position(t, 1, f)'
      <3>1. Len(stack'[t]) = Len(stack[t])
        BY <1>1, <1>4, GotoFrames DEF LogStrong
      <3>2. QED BY <1>0, <1>1, <1>2, <3>1 DEF FrameFits, Position
    <2>2. OnChains(f)'
      <3>1. \A j \in 1 .. Len(chains) : Untouched(n, j)
        BY <1>0, <1>1, <1>2 DEF FrameFits, OnChains
      <3>2. \A j \in 1 .. Len(chains) : Untouched(n, j)'
        BY <1>1, <1>6, <1>7, <3>1 DEF Untouched, Places
      <3>3. QED BY <1>0, <1>1, <3>2 DEF OnChains
    <2>3. HeardBy(f)'
      <3>1. i + 1 <= Len(verbs) + 1 /\ (i + 1) - 1 = i
        BY <1>1, <1>3
      <3>2. QED BY <1>0, <1>1, <1>5, <1>6, <1>7, <1>9, <3>1 DEF HeardBy
    <2>4. QED BY <1>0, <1>1, <1>2, <1>6, <1>7, <2>1, <2>2, <2>3 DEF FrameFits
  <1>11. LineKept(n)'
    <2>1. LineKept(n) /\ logged[n].how # "logged"
      BY <1>0, <1>2 DEF LogStrong, LinesKept, FrameFits
    <2>2. Len(h) <= Len(verbs) /\ h = SubSeq(verbs, 1, Len(h))
      BY SMTT(60), <1>1, <1>5
    <2>3. QED BY <1>1, <1>6, <1>7, <1>9, <2>1, <2>2 DEF LineKept
  <1>12. /\ f.line = Top(t).line /\ Top(t).at # "text"
         /\ logged[f.line].cut \subseteq logged'[f.line].cut
         /\ \A m \in 1 .. Len(logged) : m # f.line => logged'[m] = logged[m]
         /\ FrameFits(t, 1, f)' /\ LineKept(f.line)'
    BY <1>0, <1>1, <1>6, <1>7, <1>10, <1>11
  <1>13. QED BY <1>1, <1>4, <1>7, <1>8, <1>12, GoesOn

\* Then the line is logged, and every verboser has heard it.
LEMMA VerboseUnlockKeeps ==
  ASSUME LogStrong, NEW t \in Threads, VerboseUnlock(t)
  PROVE  LogStrong'
  <1>0. PICK n, f : n = Top(t).line /\ f = [fn |-> "log", line |-> n, at |-> "begin", i |-> 1]
    OBVIOUS
  <1>1. /\ stack[t] # <<>> /\ Top(t).fn = "verbose" /\ Top(t).at = "call"
        /\ Top(t).i > Len(verbs) /\ readers' = readers \ {t}
        /\ UNCHANGED <<chains, verbs, writer, started, logged>>
    BY DEF VerboseUnlock, At
  <1>2. /\ Top(t) \in LogFrame /\ FrameFits(t, 1, Top(t)) /\ n \in 1 .. Len(logged)
    BY <1>0, <1>1, TopFits
  <1>3. stack' = [stack EXCEPT ![t][1] = f] /\ f \in LogFrame
    BY <1>0, <1>1, <1>2 DEF VerboseUnlock, Frame, LogFrame
  <1>4. LogTypes'
    BY <1>1, <1>3, GotoFrames DEF LogStrong, LogTypes
  <1>5. LineKept(n)' /\ \A i \in 1 .. Len(chains) : Untouched(n, i) => Untouched(n, i)'
    BY <1>1, <1>2, <1>4, SameChains
  <1>6. logged[n].heard = logged[n].due
    <2>1. /\ Top(t).i <= Len(verbs) + 1 /\ logged[n].due = verbs
          /\ logged[n].heard = SubSeq(verbs, 1, Top(t).i - 1)
      BY <1>0, <1>1, <1>2 DEF FrameFits, HeardBy
    <2>2. verbs \in Seq(Verbosers) /\ Len(verbs) \in Nat /\ Top(t).i \in Nat
      BY <1>2, LenProperties DEF LogStrong, LogTypes, LogFrame
    <2>3. Top(t).i - 1 = Len(verbs)
      BY <1>1, <2>1, <2>2
    <2>4. SubSeq(verbs, 1, Len(verbs)) = verbs
      BY <2>2, SubSeqFull
    <2>5. QED BY <2>1, <2>3, <2>4
  <1>7. FrameFits(t, 1, f)'
    <2>1. Position(t, 1, f)'
      BY <1>0 DEF Position
    <2>2. OnChains(f)'
      <3>1. \A i \in 1 .. Len(chains) : Untouched(n, i)
        BY <1>0, <1>1, <1>2 DEF FrameFits, OnChains
      <3>2. \A i \in 1 .. Len(chains) : ~ (i < 1)
        OBVIOUS
      <3>3. QED BY <1>0, <1>1, <1>5, <3>1, <3>2 DEF OnChains
    <2>3. HeardBy(f)'
      BY <1>0, <1>1, <1>6 DEF HeardBy
    <2>4. QED BY <1>0, <1>1, <1>2, <2>1, <2>2, <2>3 DEF FrameFits
  \* Another call of this thread is that of a handler, not one that reads the verbosers.
  <1>8. \A u \in Threads : \A k \in 1 .. Len(stack[u]) : u # t \/ k # 1 =>
           (stack[u][k].at = "call" /\ u \in readers => u \in readers')
    <2>1. SUFFICES ASSUME NEW k \in 1 .. Len(stack[t]), k # 1, stack[t][k].at = "call"
                   PROVE  FALSE
      BY <1>1
    <2>2. FrameFits(t, k, stack[t][k]) /\ stack[t][k] \in LogFrame
      BY ElementOfSeq DEF LogStrong, LogTypes, FramesFit
    <2>3. stack[t][k].fn = "verbose"
      BY <2>1, <2>2 DEF FrameFits, Position, LogFrame
    <2>4. k = Len(stack[t]) /\ 1 = Len(stack[t])
      BY <1>1, <1>2, <2>2, <2>3 DEF FrameFits, Position
    <2>5. QED BY <2>1, <2>4
  <1>9. /\ f.line = Top(t).line /\ Top(t).at # "text" /\ Len(logged') = Len(logged)
        /\ logged[f.line].cut \subseteq logged'[f.line].cut
        /\ \A m \in 1 .. Len(logged) : m # f.line => logged'[m] = logged[m]
        /\ FrameFits(t, 1, f)' /\ LineKept(f.line)'
    BY <1>0, <1>1, <1>5, <1>7
  <1>10. QED BY <1>1, <1>3, <1>4, <1>8, <1>9, GoesOn

\* A verboser comes or goes, when nobody reads them.
LEMMA VerbosersKeep ==
  ASSUME LogStrong, NEW t \in Threads, Register(t) \/ Unregister(t)
  PROVE  LogStrong'
  <1>1. readers = {} /\ UNCHANGED <<chains, writer, readers, stack, started, logged>>
    BY DEF Register, Unregister
  <1>2. verbs \in Seq(Verbosers)
    BY DEF LogStrong, LogTypes
  <1>3. verbs' \in Seq(Verbosers)
    <2>1. CASE Register(t)
      <3>1. PICK v \in Verbosers : verbs' = <<v>> \o verbs
        BY <2>1 DEF Register
      <3>2. QED BY <1>2, <3>1
    <2>2. CASE Unregister(t)
      <3>1. PICK i \in 1 .. Len(verbs) : verbs' = RemoveAt(verbs, i)
        BY <1>2, <2>2, LenProperties DEF Unregister
      <3>2. QED BY <1>2, <3>1, RemovedAt
    <2>3. QED BY <2>1, <2>2
  <1>4. LogTypes'
    BY <1>1, <1>3 DEF LogStrong, LogTypes
  <1>5. ASSUME NEW u \in Threads, NEW k \in 1 .. Len(stack[u])
        PROVE  FrameFits(u, k, stack[u][k])'
    <2>1. PICK g : g = stack[u][k]
      OBVIOUS
    <2>2. FrameFits(u, k, g)
      BY <2>1 DEF LogStrong, FramesFit
    <2>3. g.at # "call"
      BY <1>1, <2>2 DEF FrameFits, Position
    <2>4. Position(u, k, g)' /\ HeardBy(g)'
      BY <1>1, <2>2, <2>3 DEF FrameFits, Position, HeardBy
    <2>5. OnChains(g)'
      <3>1. \A n, i : Belongs(n, i)' <=> Belongs(n, i)
        BY <1>1 DEF Belongs, Takes
      <3>2. \A n, i : Places(n, i)' = Places(n, i)
        BY <1>1 DEF Places
      <3>3. \A n, i : /\ Settled(n, i)' <=> Settled(n, i)
                      /\ Untouched(n, i)' <=> Untouched(n, i)
                      /\ Half(n, i)' <=> Half(n, i)
        BY <1>1, <3>1, <3>2 DEF Settled, Untouched, Half
      <3>4. QED BY <1>1, <2>2, <3>3 DEF FrameFits, OnChains
    <2>6. QED BY <1>1, <2>1, <2>2, <2>4, <2>5 DEF FrameFits
  <1>6. FramesFit' /\ OneFrame'
    BY <1>1, <1>5 DEF LogStrong, FramesFit, OneFrame
  <1>7. Whole' /\ MarksKnown'
    <2>1. Whole'
      BY <1>1, WholeStays DEF LogStrong
    <2>2. MarksKnown'
      BY <1>1, MarksStay, LenProperties DEF LogStrong, LogTypes
    <2>3. QED BY <2>1, <2>2
  <1>8. LinesKept'
    <2>1. SUFFICES ASSUME NEW n \in 1 .. Len(logged) PROVE LineKept(n)'
      BY <1>1 DEF LinesKept
    <2>2. QED BY <1>1, <1>4, SameChains
  <1>9. QED BY <1>1, <1>4, <1>6, <1>7, <1>8 DEF LogStrong

----------------------------------------------------------------------------
(* What is written.                                                        *)

\* While a line has come to a chain and its header is not written, no chain has half a line.
LEMMA NoHalfLine ==
  ASSUME LogStrong, NEW t \in Threads, stack[t] # <<>>, Top(t).at = "chain"
  PROVE  \A n, i : ~TextDue(n, i)
  <1>1. SUFFICES ASSUME NEW u \in Threads, stack[u] # <<>>, stack[u][1].at = "text"
                 PROVE  FALSE
    BY DEF TextDue
  <1>2. FrameFits(t, 1, Top(t)) /\ FrameFits(u, 1, stack[u][1])
    BY <1>1, TopFits DEF Top
  <1>3. writer = {t} /\ writer = {u}
    BY <1>1, <1>2 DEF FrameFits, Position
  <1>4. QED BY <1>1, <1>3 DEF Top

\* Numbers of marks.
LEMMA LastMark ==
  ASSUME NEW len \in Nat, NEW k \in 1 .. (len + 1), k \notin 1 .. len
  PROVE  k = len + 1
  OBVIOUS
LEMMA OneMore ==
  ASSUME NEW len \in Nat
  PROVE  /\ 1 .. (len + 1) = 1 .. len \cup {len + 1} /\ len + 1 \notin 1 .. len
         /\ len <= len + 1
  OBVIOUS

\* What stands beside a mark does not change by what is written after it.
LEMMA PairStays ==
  ASSUME NEW out, NEW out2, NEW len \in Nat, Len(out) = len, Len(out2) = len + 1,
         \A j \in 1 .. len : out2[j] = out[j], NEW k \in 1 .. len, Pair(out, k)
  PROVE  Pair(out2, k)
  <1>1. \A j \in 1 .. len : j \in 1 .. len + 1
    OBVIOUS
  <1>2. QED BY <1>1 DEF Pair

\* What LogHeader and LogText do to the chain.
Writes(n, i, word) == chains' = [chains EXCEPT ![i].out = Append(@, <<n, word>>)]

\* After a mark of a line is written, where its marks are; the others have theirs.
Marked(n, i, word, z) ==
  /\ chains' \in Seq(Chain) /\ Len(chains') = Len(chains)
  /\ \A j \in 1 .. Len(chains) :
       /\ \A l : Takes(chains'[j], l) <=> Takes(chains[j], l)
       /\ Len(chains[j].out) <= Len(chains'[j].out)
       /\ \A m \in 1 .. Len(logged) : m # n => Places(m, j)' = Places(m, j)
       /\ j # i => chains'[j] = chains[j]
  /\ Len(chains[i].out) \in Nat /\ z \in Nat /\ z = Len(chains[i].out) + 1
  /\ Len(chains'[i].out) = z /\ chains'[i].out[z] = <<n, word>>
  /\ \A k \in 1 .. Len(chains[i].out) : chains'[i].out[k] = chains[i].out[k]
  /\ Places(n, i)' = Places(n, i) \cup {z}

LEMMA MarkedPlaces ==
  ASSUME LogStrong, NEW i \in 1 .. Len(chains), NEW n \in 1 .. Len(logged),
         NEW word \in {"header", "text"}, Writes(n, i, word)
  PROVE  \E z : Marked(n, i, word, z)
  <1>1. LogTypes /\ chains \in Seq(Chain)
    BY DEF LogStrong, LogTypes
  <1>2. PICK m \in Marks : m = <<n, word>>
    <2>1. n \in Nat
      OBVIOUS
    <2>2. QED BY <2>1 DEF Marks
  <1>3. m[1] = n
    BY <1>2
  <1>4. chains' = [chains EXCEPT ![i].out = Append(@, m)]
    BY <1>2 DEF Writes
  <1>5. /\ chains' \in Seq(Chain) /\ Len(chains') = Len(chains) /\ Len(chains) \in Nat
        /\ \A j \in 1 .. Len(chains) : j # i => chains'[j] = chains[j]
        /\ \A j \in 1 .. Len(chains) : \A l : Takes(chains'[j], l) <=> Takes(chains[j], l)
        /\ Len(chains[i].out) \in Nat
        /\ Len(chains'[i].out) = Len(chains[i].out) + 1
        /\ \A k \in 1 .. Len(chains[i].out) : chains'[i].out[k] = chains[i].out[k]
        /\ chains'[i].out[Len(chains[i].out) + 1] = m
    BY <1>1, <1>4, MarkWritten, Zenon
  <1>6. PICK z \in Nat : z = Len(chains[i].out) + 1
    BY <1>5
  <1>7. Len(chains'[i].out) = z /\ chains'[i].out[z] = m
    BY <1>5, <1>6
  <1>8. ASSUME NEW l \in 1 .. Len(logged)
        PROVE  Places(l, i)' = IF l = n THEN Places(l, i) \cup {z} ELSE Places(l, i)
    <2>1. Len(chains[i].out) \in Nat
      BY <1>5
    <2>2. /\ 1 .. z = 1 .. Len(chains[i].out) \cup {z} /\ z \notin 1 .. Len(chains[i].out)
      BY <1>6, <2>1, OneMore
    <2>3. \A k \in 1 .. Len(chains[i].out) : chains'[i].out[k] = chains[i].out[k]
      BY <1>5
    <2>4. QED BY <1>3, <1>7, <2>2, <2>3 DEF Places
  <1>9. ASSUME NEW j \in 1 .. Len(chains)
        PROVE  /\ Len(chains[j].out) <= Len(chains'[j].out)
               /\ \A l \in 1 .. Len(logged) : l # n => Places(l, j)' = Places(l, j)
    <2>1. CASE j = i
      <3>1. Len(chains[i].out) \in Nat
        BY <1>5
      <3>2. Len(chains[i].out) <= z
        BY <1>6, <3>1, OneMore
      <3>3. QED BY <1>7, <1>8, <2>1, <3>2
    <2>2. CASE j # i
      <3>1. chains'[j] = chains[j]
        BY <1>5, <2>2
      <3>2. Len(chains[j].out) \in Nat
        BY <1>1, ChainTypes
      <3>3. QED BY <3>1, <3>2 DEF Places
    <2>3. QED BY <2>1, <2>2
  <1>10. Places(n, i)' = Places(n, i) \cup {z}
    BY <1>8
  <1>11. Marked(n, i, word, z)
    BY <1>2, <1>5, <1>6, <1>7, <1>9, <1>10, Zenon DEF Marked
  <1>12. QED BY <1>11

\* The marks on all chains are still of lines that there are.
LEMMA MarksStillKnown ==
  ASSUME LogStrong, NEW i \in 1 .. Len(chains), NEW n \in 1 .. Len(logged),
         NEW word \in {"header", "text"},
         Writes(n, i, word), Len(logged') = Len(logged)
  PROVE  MarksKnown'
  <1>0. PICK z : Marked(n, i, word, z)
    BY MarkedPlaces
  <1>1. SUFFICES ASSUME NEW j \in 1 .. Len(chains), NEW k \in 1 .. Len(chains'[j].out)
                 PROVE  chains'[j].out[k][1] \in 1 .. Len(logged)
    BY <1>0 DEF MarksKnown, Marked
  <1>2. CASE j # i
    BY <1>0, <1>2 DEF LogStrong, MarksKnown, Marked
  <1>3. CASE j = i /\ k \in 1 .. Len(chains[i].out)
    BY <1>0, <1>3 DEF LogStrong, MarksKnown, Marked
  <1>4. CASE j = i /\ k \notin 1 .. Len(chains[i].out)
    <2>1. k = z /\ chains'[i].out[z] = <<n, word>>
      <3>1. /\ Len(chains[i].out) \in Nat /\ z = Len(chains[i].out) + 1
            /\ Len(chains'[i].out) = z /\ chains'[i].out[z] = <<n, word>>
        BY <1>0 DEF Marked
      <3>2. QED BY <1>1, <1>4, <3>1, LastMark, SMTT(30)
    <2>2. QED BY <1>4, <2>1
  <1>5. QED BY <1>2, <1>3, <1>4

\* What is written to a chain that takes the line: its header first.
LEMMA HeaderKeeps ==
  ASSUME LogStrong, NEW t \in Threads, stack[t] # <<>>, Top(t).fn = "log", Top(t).at = "chain",
         NEW i \in 1 .. Len(chains), i = Top(t).i, NEW n, n = Top(t).line,
         Takes(chains[i], logged[n].level),
         Writes(n, i, "header"),
         Goto(t, "text", i), UNCHANGED <<verbs, writer, readers, started, logged>>
  PROVE  LogStrong'
  <1>0. PICK f : f = [fn |-> "log", line |-> n, at |-> "text", i |-> i]
    OBVIOUS
  <1>1. /\ Top(t) \in LogFrame /\ FrameFits(t, 1, Top(t)) /\ n \in 1 .. Len(logged)
    BY TopFits
  <1>2. /\ i \in Nat \ {0} /\ stack' = [stack EXCEPT ![t][1] = f] /\ f \in LogFrame
    BY <1>0, <1>1 DEF Goto, LogFrame
  <1>3. PICK z : Marked(n, i, "header", z)
    BY <1>1, MarkedPlaces
  <1>4. /\ chains' \in Seq(Chain) /\ Len(chains') = Len(chains)
        /\ \A j \in 1 .. Len(chains) :
             /\ \A l : Takes(chains'[j], l) <=> Takes(chains[j], l)
             /\ Len(chains[j].out) <= Len(chains'[j].out)
             /\ \A m \in 1 .. Len(logged) : m # n => Places(m, j)' = Places(m, j)
             /\ j # i => chains'[j] = chains[j]
        /\ Len(chains[i].out) \in Nat /\ z \in Nat /\ z = Len(chains[i].out) + 1
        /\ Len(chains'[i].out) = z /\ chains'[i].out[z] = <<n, "header">>
        /\ \A k \in 1 .. Len(chains[i].out) : chains'[i].out[k] = chains[i].out[k]
        /\ Places(n, i)' = Places(n, i) \cup {z}
    BY <1>3, Zenon DEF Marked
  <1>5. LogTypes'
    BY <1>2, <1>4, GotoFrames, Zenon DEF LogStrong, LogTypes
  <1>6. /\ \A j \in 1 .. Len(chains) : j < i => Settled(n, j)
        /\ \A j \in 1 .. Len(chains) : i < j => Untouched(n, j)
        /\ Untouched(n, i)
    BY <1>1 DEF FrameFits, OnChains
  <1>7. \A m, j : ~TextDue(m, j)
    BY SMTT(60), NoHalfLine
  <1>10. \A j \in 1 .. Len(chains) : j # i => Places(n, j)' = Places(n, j)
    BY SMTT(60), <1>4 DEF Places
  <1>11. FrameFits(t, 1, f)'
    <2>1. Position(t, 1, f)'
      BY <1>0, <1>1 DEF FrameFits, Position
    <2>2. OnChains(f)'
      <3>1. \A j \in 1 .. Len(chains) : j # i =>
              /\ Settled(n, j) => Settled(n, j)'
              /\ Untouched(n, j) => Untouched(n, j)'
        BY <1>4, <1>10, Zenon DEF Settled, Untouched, Belongs
      <3>2. Half(n, i)'
        BY SMTT(60), <1>4, <1>6 DEF Half, Untouched, Belongs
      <3>3. \A j \in 1 .. Len(chains) : j < i \/ i < j => j # i
        BY <1>2
      <3>4. QED BY <1>0, <1>4, <1>6, <3>1, <3>2, <3>3 DEF OnChains
    <2>3. HeardBy(f)'
      BY <1>0, <1>1 DEF FrameFits, HeardBy
    <2>4. QED BY <1>0, <1>1, <2>1, <2>2, <2>3 DEF FrameFits
  <1>12. LineKept(n)'
    <2>1. LineKept(n) /\ logged[n].how # "logged"
      BY <1>1 DEF LogStrong, LinesKept, FrameFits
    <2>2. QED BY <1>4, <2>1 DEF LineKept
  <1>13. TextDue(n, i)'
    <2>1. stack'[t] # <<>> /\ stack'[t][1] = f
      <3>1. /\ Len(stack[t]) \in Nat \ {0} /\ Len(stack'[t]) = Len(stack[t])
            /\ stack'[t][1] = f
        BY <1>2, GotoFrames DEF LogStrong
      <3>2. QED BY <3>1, Len(<<>>) = 0
    <2>2. QED BY <1>0, <2>1 DEF TextDue
  <1>14. Whole'
    <2>1. SUFFICES ASSUME NEW j \in 1 .. Len(chains), NEW k \in 1 .. Len(chains'[j].out)
                   PROVE  WholeMark(j, k)'
      BY SMTT(60), <1>4 DEF Whole
    <2>2. CASE j # i
      <3>1. WholeMark(j, k) /\ chains'[j] = chains[j]
        BY <1>4, <2>1, <2>2 DEF LogStrong, Whole
      <3>2. QED BY SMTT(60), <1>7, <3>1 DEF WholeMark
    <2>3. CASE j = i /\ k \in 1 .. Len(chains[i].out)
      <3>1. WholeMark(i, k)
        BY SMTT(60), <2>3 DEF LogStrong, Whole
      <3>2. PICK len \in Nat : len = Len(chains[i].out) /\ Len(chains'[i].out) = len + 1
        BY <1>4
      <3>3. Pair(chains[i].out, k) => Pair(chains'[i].out, k)
        BY <1>4, <2>3, <3>2, PairStays, Zenon
      <3>4. chains'[i].out[k] = chains[i].out[k]
        BY <1>4, <2>3
      <3>5. QED BY <1>7, <2>3, <3>1, <3>3, <3>4 DEF WholeMark
    <2>4. CASE j = i /\ k \notin 1 .. Len(chains[i].out)
      <3>1. k = z
        <4>1. Len(chains[i].out) \in Nat /\ Len(chains'[i].out) = z /\ z = Len(chains[i].out) + 1
          BY SMTT(60), <1>4
        <4>2. QED BY SMTT(60), <2>1, <2>4, <4>1, LastMark
      <3>2. chains'[j].out[k][1] = n /\ chains'[j].out[k][2] = "header" /\ k = Len(chains'[j].out)
        BY <1>4, <2>4, <3>1
      <3>3. QED BY <1>13, <2>4, <3>2 DEF WholeMark
    <2>5. QED BY <2>2, <2>3, <2>4
  <1>15. MarksKnown'
    BY <1>1, MarksStillKnown
  <1>16. /\ f.line = n /\ Len(logged') = Len(logged) /\ started' = started
         /\ FrameFits(t, 1, f)' /\ LineKept(f.line)'
         /\ \A m \in 1 .. Len(logged) : m # f.line => logged'[m] = logged[m]
    BY <1>0, <1>11, <1>12
  <1>17. QED BY ZenonT(60), <1>2, <1>4, <1>5, <1>14, <1>15, <1>16, Moves

\* What LogHeader and LogText do to a line if a part of it is lost, and what comes of it.
Loses(n, i, how) ==
  \E e : /\ e = [logged[n] EXCEPT !.cut = logged[n].cut \cup {i}, !.how = how]
        /\ logged' = [logged EXCEPT ![n] = e]
LostPart(n, i, how) ==
  /\ logged' \in Seq(LogLine) /\ Len(logged') = Len(logged)
  /\ \A m \in 1 .. Len(logged) : m # n => logged'[m] = logged[m]
  /\ logged'[n].level = logged[n].level /\ logged'[n].failed = logged[n].failed
  /\ logged'[n].due = logged[n].due /\ logged'[n].heard = logged[n].heard
  /\ logged'[n].how = how /\ logged'[n].cut = logged[n].cut \cup {i}

LEMMA PartIsLost ==
  ASSUME LogStrong, NEW n \in 1 .. Len(logged), NEW i \in 1 .. Len(chains),
         NEW how \in {"begun", "gone"},
         Loses(n, i, how)
  PROVE  LostPart(n, i, how)
  <1>0. PICK e : /\ e = [logged[n] EXCEPT !.cut = logged[n].cut \cup {i}, !.how = how]
                 /\ logged' = [logged EXCEPT ![n] = e]
    BY DEF Loses
  <1>1. logged[n] \in LogLine
    BY ElementOfSeq DEF LogStrong, LogTypes
  <1>2. PICK cut \in SUBSET Nat : cut = logged[n].cut \cup {i}
    <2>1. logged[n].cut \in SUBSET Nat
      BY <1>1 DEF LogLine
    <2>2. i \in Nat
      OBVIOUS
    <2>3. QED BY <2>1, <2>2
  <1>3. e = [logged[n] EXCEPT !.cut = cut, !.how = how]
    BY <1>0, <1>2
  <1>4. /\ e \in LogLine /\ e.level = logged[n].level /\ e.failed = logged[n].failed
        /\ e.due = logged[n].due /\ e.heard = logged[n].heard /\ e.how = how /\ e.cut = cut
    BY <1>1, <1>3 DEF LogLine
  <1>5. /\ logged' \in Seq(LogLine) /\ Len(logged') = Len(logged) /\ logged'[n] = e
        /\ \A m \in 1 .. Len(logged) : m # n => logged'[m] = logged[m]
    BY <1>0, <1>4, LineChanges DEF LogStrong
  <1>6. QED BY <1>2, <1>4, <1>5 DEF LostPart

\* A line of which a part is lost on one chain is what it was on the others.
LEMMA OthersKeepIt ==
  ASSUME LogStrong, NEW n \in 1 .. Len(logged), NEW i, NEW how \in {"begun", "gone"},
         LostPart(n, i, how), i \in 1 .. Len(chains),
         UNCHANGED <<chains, started>>, LineKept(n)
  PROVE  /\ \A j \in 1 .. Len(chains) : j # i => /\ Settled(n, j) => Settled(n, j)'
                                                 /\ Untouched(n, j) => Untouched(n, j)'
         /\ Belongs(n, i)' <=> Belongs(n, i)
         /\ Places(n, i)' = Places(n, i)
         /\ LineKept(n)'
  <1>1. /\ logged'[n].level = logged[n].level /\ logged'[n].failed = logged[n].failed
        /\ logged'[n].due = logged[n].due /\ logged'[n].heard = logged[n].heard
        /\ logged'[n].how = how /\ logged'[n].cut = logged[n].cut \cup {i}
    BY DEF LostPart
  <1>2. \A j : Places(n, j)' = Places(n, j) /\ (Belongs(n, j)' <=> Belongs(n, j))
    BY <1>1 DEF Places, Belongs
  <1>3. \A j \in 1 .. Len(chains) : j # i => /\ Settled(n, j) => Settled(n, j)'
                                             /\ Untouched(n, j) => Untouched(n, j)'
    BY <1>1, <1>2 DEF Settled, Untouched
  <1>4. LineKept(n)'
    BY <1>1 DEF LineKept
  <1>5. QED BY <1>2, <1>3, <1>4

\* The header is lost, and the text is to come.
LEMMA HeaderLostKeeps ==
  ASSUME LogStrong, NEW t \in Threads, stack[t] # <<>>, Top(t).fn = "log", Top(t).at = "chain",
         NEW i \in 1 .. Len(chains), i = Top(t).i, NEW n, n = Top(t).line,
         Takes(chains[i], logged[n].level),
         logged' = [logged EXCEPT ![n].cut = @ \cup {i}],
         Goto(t, "text", i), UNCHANGED <<chains, verbs, writer, readers, started>>
  PROVE  LogStrong'
  <1>0. PICK f, how : f = [fn |-> "log", line |-> n, at |-> "text", i |-> i] /\ how = logged[n].how
    OBVIOUS
  <1>1. /\ Top(t) \in LogFrame /\ FrameFits(t, 1, Top(t)) /\ n \in 1 .. Len(logged)
        /\ logged[n] \in LogLine /\ how \in {"begun", "gone"}
    BY <1>0, TopFits
  <1>2. /\ i \in Nat \ {0} /\ stack' = [stack EXCEPT ![t][1] = f] /\ f \in LogFrame
    BY <1>0, <1>1 DEF Goto, LogFrame
  <1>3. LostPart(n, i, how)
    <2>1. PICK e : e = [logged[n] EXCEPT !.cut = logged[n].cut \cup {i}]
      OBVIOUS
    <2>2. e = [logged[n] EXCEPT !.cut = logged[n].cut \cup {i}, !.how = how]
      BY <1>0, <1>1, <2>1 DEF LogLine
    <2>3. logged' = [logged EXCEPT ![n] = e]
      BY <2>1
    <2>4. Loses(n, i, how)
      BY <2>2, <2>3 DEF Loses
    <2>5. QED BY <1>1, <2>4, PartIsLost
  <1>4. LineKept(n)
    BY <1>1 DEF LogStrong, LinesKept
  <1>5. /\ \A j \in 1 .. Len(chains) : j # i => /\ Settled(n, j) => Settled(n, j)'
                                                /\ Untouched(n, j) => Untouched(n, j)'
        /\ Belongs(n, i)' <=> Belongs(n, i)
        /\ Places(n, i)' = Places(n, i)
        /\ LineKept(n)'
    BY <1>1, <1>3, <1>4, OthersKeepIt, Zenon
  <1>6. /\ \A j \in 1 .. Len(chains) : j < i => Settled(n, j)
        /\ \A j \in 1 .. Len(chains) : i < j => Untouched(n, j)
        /\ Untouched(n, i)
    BY <1>1 DEF FrameFits, OnChains
  <1>7. /\ logged' \in Seq(LogLine) /\ Len(logged') = Len(logged)
        /\ \A m \in 1 .. Len(logged) : m # n => logged'[m] = logged[m]
        /\ logged'[n].how = how /\ logged'[n].cut = logged[n].cut \cup {i}
        /\ logged'[n].due = logged[n].due /\ logged'[n].heard = logged[n].heard
    BY <1>3 DEF LostPart
  <1>8. LogTypes'
    BY <1>2, <1>7, GotoFrames DEF LogStrong, LogTypes
  <1>9. FrameFits(t, 1, f)'
    <2>1. Position(t, 1, f)'
      BY <1>0, <1>1 DEF FrameFits, Position
    <2>2. OnChains(f)'
      <3>1. Half(n, i)'
        BY <1>5, <1>6, <1>7 DEF Half, Untouched, Belongs
      <3>2. \A j \in 1 .. Len(chains) : j < i \/ i < j => j # i
        BY <1>2
      <3>3. QED BY <1>0, <1>5, <1>6, <3>1, <3>2 DEF OnChains
    <2>3. HeardBy(f)'
      BY <1>0, <1>1, <1>7 DEF FrameFits, HeardBy
    <2>4. QED BY <1>0, <1>1, <1>7, <2>1, <2>2, <2>3 DEF FrameFits
  <1>10. /\ f.line = n /\ FrameFits(t, 1, f)' /\ LineKept(f.line)'
         /\ logged[f.line].cut \subseteq logged'[f.line].cut
         /\ \A m \in 1 .. Len(logged) : m # f.line => logged'[m] = logged[m]
    BY <1>0, <1>5, <1>7, <1>9
  <1>11. QED BY <1>2, <1>7, <1>8, <1>10, GoesOn

LEMMA ChainPast ==
  ASSUME NEW i \in Nat, NEW j \in Nat
  PROVE  /\ j < i + 1 => j = i \/ (j < i /\ j # i)
         /\ i + 1 < j => i < j /\ j # i
         /\ j = i + 1 => i < j /\ j # i
  OBVIOUS

\* A chain that does not take the line, or whose header fails, gets nothing of it.
LEMMA SkipKeeps ==
  ASSUME LogStrong, NEW t \in Threads, stack[t] # <<>>, Top(t).fn = "log", Top(t).at = "chain",
         NEW i \in 1 .. Len(chains), i = Top(t).i, NEW n, n = Top(t).line,
         logged' = IF Takes(chains[i], logged[n].level)
                   THEN [logged EXCEPT ![n].failed = @ \cup {i}] ELSE logged,
         Goto(t, "chain", i + 1), UNCHANGED <<chains, verbs, writer, readers, started>>
  PROVE  LogStrong'
  <1>0. PICK f : f = [fn |-> "log", line |-> n, at |-> "chain", i |-> i + 1]
    OBVIOUS
  <1>1. /\ Top(t) \in LogFrame /\ FrameFits(t, 1, Top(t)) /\ n \in 1 .. Len(logged)
        /\ logged[n] \in LogLine
    BY TopFits
  <1>2. /\ i \in Nat \ {0} /\ stack' = [stack EXCEPT ![t][1] = f] /\ f \in LogFrame
    BY <1>0, <1>1 DEF Goto, LogFrame
  <1>3. /\ \A j \in 1 .. Len(chains) : j < i => Settled(n, j)
        /\ \A j \in 1 .. Len(chains) : i < j => Untouched(n, j)
        /\ Untouched(n, i)
    BY <1>1 DEF FrameFits, OnChains
  <1>4. /\ logged' \in Seq(LogLine) /\ Len(logged') = Len(logged)
        /\ \A m \in 1 .. Len(logged) : m # n => logged'[m] = logged[m]
        /\ logged'[n].level = logged[n].level /\ logged'[n].how = logged[n].how
        /\ logged'[n].cut = logged[n].cut
        /\ logged'[n].due = logged[n].due /\ logged'[n].heard = logged[n].heard
        /\ logged'[n].failed = IF Takes(chains[i], logged[n].level)
                               THEN logged[n].failed \cup {i} ELSE logged[n].failed
    <2>1. CASE Takes(chains[i], logged[n].level)
      <3>1. PICK e : e = [logged[n] EXCEPT !.failed = logged[n].failed \cup {i}]
        OBVIOUS
      <3>2. logged' = [logged EXCEPT ![n] = e]
        BY <2>1, <3>1
      <3>3. /\ e \in LogLine /\ e.level = logged[n].level /\ e.how = logged[n].how
            /\ e.due = logged[n].due /\ e.heard = logged[n].heard /\ e.cut = logged[n].cut
            /\ e.failed = logged[n].failed \cup {i}
        BY Zenon, <1>1, <1>2, <3>1 DEF LogLine
      <3>4. /\ logged' \in Seq(LogLine) /\ Len(logged') = Len(logged) /\ logged'[n] = e
            /\ \A m \in 1 .. Len(logged) : m # n => logged'[m] = logged[m]
        BY ZenonT(60), <1>1, <3>2, <3>3, LineChanges DEF LogStrong
      <3>5. QED BY <2>1, <3>3, <3>4
    <2>2. CASE ~Takes(chains[i], logged[n].level)
      BY <2>2 DEF LogStrong, LogTypes
    <2>3. QED BY <2>1, <2>2
  <1>5. LogTypes'
    BY <1>2, <1>4, GotoFrames DEF LogStrong, LogTypes
  <1>6. \A j \in 1 .. Len(chains) : Places(n, j)' = Places(n, j)
    BY DEF Places
  <1>7. \A j \in 1 .. Len(chains) : j # i => /\ Settled(n, j) => Settled(n, j)'
                                             /\ Untouched(n, j) => Untouched(n, j)'
    BY <1>4, <1>6 DEF Settled, Untouched, Belongs
  <1>8. Settled(n, i)'
    <2>1. Places(n, i)' = {}
      BY <1>3, <1>6 DEF Untouched
    <2>2. ~Belongs(n, i)'
      BY <1>4 DEF Belongs
    <2>3. QED BY <2>1, <2>2 DEF Settled
  <1>9. FrameFits(t, 1, f)'
    <2>1. Position(t, 1, f)'
      BY <1>0, <1>1 DEF FrameFits, Position
    <2>2. OnChains(f)'
      BY <1>0, <1>2, <1>3, <1>7, <1>8, ChainPast DEF OnChains
    <2>3. HeardBy(f)'
      BY <1>0, <1>1, <1>4 DEF FrameFits, HeardBy
    <2>4. QED BY <1>0, <1>1, <1>4, <2>1, <2>2, <2>3 DEF FrameFits
  <1>10. LineKept(n)'
    <2>1. LineKept(n) /\ logged[n].how # "logged"
      BY <1>1 DEF LogStrong, LinesKept, FrameFits
    <2>2. QED BY <1>4, <2>1 DEF LineKept
  <1>11. /\ f.line = n /\ FrameFits(t, 1, f)' /\ LineKept(f.line)'
         /\ logged[f.line].cut \subseteq logged'[f.line].cut
         /\ \A m \in 1 .. Len(logged) : m # f.line => logged'[m] = logged[m]
    BY <1>0, <1>4, <1>9, <1>10
  <1>12. QED BY <1>1, <1>2, <1>4, <1>5, <1>11, GoesOn

LEMMA LogHeaderKeeps ==
  ASSUME LogStrong, NEW t \in Threads, LogHeader(t)
  PROVE  LogStrong'
  <1>0. PICK n, i : n = Top(t).line /\ i = Top(t).i
    OBVIOUS
  <1>1. /\ stack[t] # <<>> /\ Top(t).fn = "log" /\ Top(t).at = "chain"
        /\ UNCHANGED <<verbs, writer, readers, started>>
    BY DEF LogHeader, At
  <1>2. i \in 1 .. Len(chains)
    BY <1>0, <1>1, TopFits, LenProperties DEF LogHeader, LogFrame, LogStrong, LogTypes
  <1>3. CASE /\ Takes(chains[i], logged[n].level) /\ Writes(n, i, "header")
             /\ Goto(t, "text", i) /\ UNCHANGED logged
    BY <1>0, <1>1, <1>2, <1>3, HeaderKeeps
  <1>4. CASE /\ logged' = IF Takes(chains[i], logged[n].level)
                          THEN [logged EXCEPT ![n].failed = @ \cup {i}] ELSE logged
             /\ Goto(t, "chain", i + 1) /\ UNCHANGED chains
    BY <1>0, <1>1, <1>2, <1>4, SkipKeeps
  <1>5. CASE /\ Takes(chains[i], logged[n].level)
             /\ logged' = [logged EXCEPT ![n].cut = @ \cup {i}]
             /\ Goto(t, "text", i) /\ UNCHANGED chains
    BY Zenon, <1>0, <1>1, <1>2, <1>5, HeaderLostKeeps
  <1>6. QED BY <1>0, <1>3, <1>4, <1>5, SMTT(30) DEF LogHeader, Writes

\* The text follows the header, if that was not lost.
LEMMA TextKeeps ==
  ASSUME LogStrong, NEW t \in Threads, At(t, "log", "text"),
         Writes(Top(t).line, Top(t).i, "text"), Goto(t, "chain", Top(t).i + 1),
         UNCHANGED <<verbs, writer, readers, started, logged>>
  PROVE  LogStrong'
  <1>0. PICK n, i, f : /\ n = Top(t).line /\ i = Top(t).i
                       /\ f = [fn |-> "log", line |-> n, at |-> "chain", i |-> i + 1]
    OBVIOUS
  <1>1. /\ stack[t] # <<>> /\ Top(t).fn = "log" /\ Top(t).at = "text"
        /\ Writes(n, i, "text")
        /\ Goto(t, "chain", i + 1) /\ UNCHANGED <<verbs, writer, readers, started, logged>>
    BY <1>0 DEF At
  <1>2. /\ Top(t) \in LogFrame /\ FrameFits(t, 1, Top(t)) /\ n \in 1 .. Len(logged)
    BY <1>0, <1>1, TopFits
  <1>3. /\ i \in 1 .. Len(chains) /\ Half(n, i) /\ i \in Nat \ {0}
        /\ \A j \in 1 .. Len(chains) : j < i => Settled(n, j)
        /\ \A j \in 1 .. Len(chains) : i < j => Untouched(n, j)
    BY <1>0, <1>1, <1>2 DEF FrameFits, OnChains, LogFrame
  <1>4. stack' = [stack EXCEPT ![t][1] = f] /\ f \in LogFrame
    BY <1>0, <1>1, <1>2, <1>3 DEF Goto, LogFrame
  <1>5. PICK z : Marked(n, i, "text", z)
    BY <1>1, <1>2, <1>3, MarkedPlaces
  <1>6. /\ chains' \in Seq(Chain) /\ Len(chains') = Len(chains)
        /\ \A j \in 1 .. Len(chains) :
             /\ \A l : Takes(chains'[j], l) <=> Takes(chains[j], l)
             /\ Len(chains[j].out) <= Len(chains'[j].out)
             /\ \A m \in 1 .. Len(logged) : m # n => Places(m, j)' = Places(m, j)
             /\ j # i => chains'[j] = chains[j]
        /\ Len(chains[i].out) \in Nat /\ z \in Nat /\ z = Len(chains[i].out) + 1
        /\ Len(chains'[i].out) = z /\ chains'[i].out[z] = <<n, "text">>
        /\ \A k \in 1 .. Len(chains[i].out) : chains'[i].out[k] = chains[i].out[k]
        /\ Places(n, i)' = Places(n, i) \cup {z}
    BY <1>5 DEF Marked
  <1>7. LogTypes'
    BY <1>1, <1>4, <1>6, GotoFrames DEF LogStrong, LogTypes
  <1>8. PICK len \in Nat : len = Len(chains[i].out) /\ z = len + 1 /\ Len(chains'[i].out) = z
    BY <1>6
  \* The header is the mark before.
  <1>9. i \notin logged[n].cut =>
          /\ Places(n, i) = {len} /\ len \in 1 .. len
          /\ chains[i].out[len] = <<n, "header">>
    <2>1. SUFFICES ASSUME i \notin logged[n].cut
                   PROVE  /\ Places(n, i) = {len} /\ len \in 1 .. len
                          /\ chains[i].out[len] = <<n, "header">>
      OBVIOUS
    <2>2. Places(n, i) = {len} /\ len \in Places(n, i)
      BY <1>3, <1>8, <2>1 DEF Half
    <2>3. len \in 1 .. len /\ chains[i].out[len][1] = n
      BY <1>8, <2>2 DEF Places
    <2>4. chains[i].out[len] \in Marks
      BY <1>3, <1>8, <2>3, ChainTypes DEF LogStrong, LogTypes
    <2>5. chains[i].out[len][2] = "header"
      <3>1. WholeMark(i, len)
        BY <1>3, <1>8, <2>3 DEF LogStrong, Whole
      <3>2. SUFFICES ASSUME Pair(chains[i].out, len), chains[i].out[len][2] = "text" PROVE FALSE
        BY <2>1, <2>3, <2>4, <3>1 DEF WholeMark, Marks
      <3>3. len - 1 \in 1 .. len /\ chains[i].out[len - 1][1] = n
        BY <1>8, <2>3, <3>2 DEF Pair
      <3>4. len - 1 \in Places(n, i)
        BY <1>8, <3>3 DEF Places
      <3>5. QED BY <2>2, <3>4
    <2>6. QED BY <2>2, <2>3, <2>4, <2>5 DEF Marks
  <1>10. Settled(n, i)'
    <2>1. Belongs(n, i)'
      BY <1>1, <1>3, <1>6 DEF Half, Belongs
    <2>2. CASE i \in logged[n].cut
      <3>1. Places(n, i)' = {z}
        BY <1>3, <1>6, <2>2 DEF Half
      <3>2. QED BY <1>1, <2>1, <2>2, <3>1 DEF Settled
    <2>3. CASE i \notin logged[n].cut
      <3>1. Places(n, i)' = {len, len + 1}
        BY <1>6, <1>9, <1>8, <2>3
      <3>2. len \in 1 .. Len(chains'[i].out)
        BY <1>9, <1>8, <2>3
      <3>3. QED BY <1>1, <2>1, <2>3, <3>1, <3>2 DEF Settled
    <2>4. QED BY <2>2, <2>3
  <1>11. \A j \in 1 .. Len(chains) : j # i =>
           /\ Settled(n, j) => Settled(n, j)'
           /\ Untouched(n, j) => Untouched(n, j)'
    <2>1. \A j \in 1 .. Len(chains) : j # i => Places(n, j)' = Places(n, j)
      BY <1>6 DEF Places
    <2>2. QED BY SMTT(60), <1>1, <1>6, <2>1 DEF Settled, Untouched, Belongs
  <1>12. FrameFits(t, 1, f)'
    <2>1. Position(t, 1, f)'
      BY SMTT(60), <1>0, <1>1, <1>2 DEF FrameFits, Position
    <2>2. OnChains(f)'
      <3>1. \A j \in 1 .. Len(chains) : j < i + 1 => j = i \/ (j < i /\ j # i)
        BY <1>3
      <3>2. \A j \in 1 .. Len(chains) : i + 1 < j \/ j = i + 1 => i < j /\ j # i
        BY <1>3
      <3>3. /\ \A j \in 1 .. Len(chains) : j < f.i => Settled(n, j)'
            /\ \A j \in 1 .. Len(chains) : f.i < j \/ j = f.i => Untouched(n, j)'
        BY <1>0, <1>3, <1>10, <1>11, <3>1, <3>2
      <3>4. QED BY <1>0, <1>6, <3>3 DEF OnChains
    <2>3. HeardBy(f)'
      BY <1>0, <1>1, <1>2 DEF FrameFits, HeardBy
    <2>4. QED BY <1>0, <1>1, <1>2, <2>1, <2>2, <2>3 DEF FrameFits
  <1>13. LineKept(n)'
    <2>1. LineKept(n) /\ logged[n].how # "logged"
      BY <1>0, <1>2 DEF LogStrong, LinesKept, FrameFits
    <2>2. QED BY <1>1, <1>6, <2>1 DEF LineKept
  <1>14. \A m, j : TextDue(m, j) => j = i /\ m = n
    <2>1. SUFFICES ASSUME NEW u \in Threads, stack[u] # <<>>, stack[u][1].at = "text"
                   PROVE  stack[u][1].i = i /\ stack[u][1].line = n
      BY DEF TextDue
    <2>2. FrameFits(u, 1, stack[u][1])
      BY <2>1, TopFits DEF Top
    <2>3. writer = {t} /\ writer = {u}
      BY <1>1, <1>2, <2>1, <2>2 DEF FrameFits, Position
    <2>4. QED BY <1>0, <2>3 DEF Top
  <1>15. Whole'
    <2>1. SUFFICES ASSUME NEW j \in 1 .. Len(chains), NEW k \in 1 .. Len(chains'[j].out)
                   PROVE  WholeMark(j, k)'
      BY <1>6 DEF Whole
    <2>2. CASE j # i
      <3>1. WholeMark(j, k) /\ chains'[j] = chains[j]
        BY <1>6, <2>1, <2>2 DEF LogStrong, Whole
      <3>2. QED BY <1>1, <1>14, <2>2, <3>1 DEF WholeMark
    <2>3. CASE j = i /\ k \in 1 .. len
      <3>1. WholeMark(i, k)
        BY <1>8, <2>3 DEF LogStrong, Whole
      <3>2. Pair(chains[i].out, k) => Pair(chains'[i].out, k)
        BY <1>6, <1>8, <2>3, PairStays, Zenon
      <3>3. chains'[i].out[k] = chains[i].out[k]
        BY <1>6, <1>8, <2>3
      <3>4. ASSUME chains[i].out[k][2] = "header", k = len, TextDue(chains[i].out[k][1], i)
            PROVE  Pair(chains'[i].out, k)
        <4>1. chains[i].out[k][1] = n
          BY <1>14, <3>4
        <4>2. k + 1 = z /\ z \in 1 .. z
          BY <1>8, <2>3, <3>4
        <4>3. QED BY <1>6, <3>3, <3>4, <4>1, <4>2 DEF Pair
      <3>5. QED BY <1>1, <1>8, <2>3, <3>1, <3>2, <3>3, <3>4 DEF WholeMark
    <2>4. CASE j = i /\ k \notin 1 .. len
      <3>1. k = z
        BY <1>8, <2>1, <2>4, LastMark
      <3>2. CASE i \in logged[n].cut
        <4>1. chains'[j].out[k][1] = n
          BY <1>6, <2>4, <3>1
        <4>2. QED BY <1>1, <2>4, <3>2, <4>1 DEF WholeMark
      <3>3. CASE i \notin logged[n].cut
        <4>1. chains'[i].out[len] = <<n, "header">> /\ chains'[i].out[z] = <<n, "text">>
          BY <1>6, <1>9, <1>8, <3>3
        <4>2. z - 1 = len /\ len \in 1 .. z
          BY <1>9, <1>8, <3>3
        <4>3. Pair(chains'[i].out, z)
          BY <1>8, <4>1, <4>2 DEF Pair
        <4>4. QED BY <2>4, <3>1, <4>3 DEF WholeMark
      <3>4. QED BY <3>2, <3>3
    <2>5. QED BY <1>8, <2>2, <2>3, <2>4
  <1>16. MarksKnown'
    BY <1>1, <1>2, <1>3, MarksStillKnown
  <1>17. /\ f.line = n /\ Len(logged') = Len(logged) /\ started' = started
         /\ FrameFits(t, 1, f)' /\ LineKept(f.line)'
         /\ \A m \in 1 .. Len(logged) : m # f.line => logged'[m] = logged[m]
    BY <1>0, <1>1, <1>12, <1>13
  <1>18. QED BY <1>0, <1>1, <1>4, <1>6, <1>7, <1>15, <1>16, <1>17, Moves

\* The text is lost, with the header or alone.
LEMMA TextLostKeeps ==
  ASSUME LogStrong, NEW t \in Threads, At(t, "log", "text"),
         NEW how \in {logged[Top(t).line].how, "gone"},
         logged' = [logged EXCEPT ![Top(t).line].cut = @ \cup {Top(t).i},
                                  ![Top(t).line].how = how],
         Goto(t, "chain", Top(t).i + 1), UNCHANGED <<chains, verbs, writer, readers, started>>
  PROVE  LogStrong'
  <1>0. PICK n, i, f : /\ n = Top(t).line /\ i = Top(t).i
                       /\ f = [fn |-> "log", line |-> n, at |-> "chain", i |-> i + 1]
    OBVIOUS
  <1>1. /\ stack[t] # <<>> /\ Top(t).fn = "log" /\ Top(t).at = "text"
        /\ Goto(t, "chain", i + 1)
    BY <1>0 DEF At
  <1>2. /\ Top(t) \in LogFrame /\ FrameFits(t, 1, Top(t)) /\ n \in 1 .. Len(logged)
        /\ logged[n] \in LogLine /\ how \in {"begun", "gone"}
    BY <1>0, <1>1, TopFits
  <1>3. /\ i \in 1 .. Len(chains) /\ Half(n, i) /\ i \in Nat \ {0}
        /\ \A j \in 1 .. Len(chains) : j < i => Settled(n, j)
        /\ \A j \in 1 .. Len(chains) : i < j => Untouched(n, j)
    BY <1>0, <1>1, <1>2 DEF FrameFits, OnChains, LogFrame
  <1>4. stack' = [stack EXCEPT ![t][1] = f] /\ f \in LogFrame
    BY <1>0, <1>1, <1>2, <1>3 DEF Goto, LogFrame
  <1>5. LostPart(n, i, how)
    <2>1. PICK e : e = [logged[n] EXCEPT !.cut = logged[n].cut \cup {i}, !.how = how]
      OBVIOUS
    <2>2. logged' = [logged EXCEPT ![n] = e]
      BY <1>0, <1>2, <2>1 DEF LogStrong, LogTypes, LogLine
    <2>3. Loses(n, i, how)
      BY <2>1, <2>2 DEF Loses
    <2>4. QED BY <1>2, <1>3, <2>3, PartIsLost
  <1>6. LineKept(n)
    BY <1>2 DEF LogStrong, LinesKept
  <1>7. /\ \A j \in 1 .. Len(chains) : j # i => /\ Settled(n, j) => Settled(n, j)'
                                                /\ Untouched(n, j) => Untouched(n, j)'
        /\ Belongs(n, i)' <=> Belongs(n, i)
        /\ Places(n, i)' = Places(n, i)
        /\ LineKept(n)'
    BY <1>2, <1>3, <1>5, <1>6, OthersKeepIt, Zenon
  <1>8. /\ logged' \in Seq(LogLine) /\ Len(logged') = Len(logged)
        /\ \A m \in 1 .. Len(logged) : m # n => logged'[m] = logged[m]
        /\ logged'[n].how = how /\ logged'[n].cut = logged[n].cut \cup {i}
        /\ logged'[n].due = logged[n].due /\ logged'[n].heard = logged[n].heard
    BY Zenon, <1>5 DEF LostPart
  <1>9. LogTypes'
    BY SMTT(60), <1>1, <1>4, <1>8, GotoFrames DEF LogStrong, LogTypes
  <1>10. Settled(n, i)'
    <2>1. \A k, j \in Places(n, i) : k = j
      BY <1>3 DEF Half
    <2>2. QED BY <1>3, <1>7, <1>8, <2>1 DEF Settled, Half
  <1>11. FrameFits(t, 1, f)'
    <2>1. Position(t, 1, f)'
      BY <1>0, <1>1, <1>2 DEF FrameFits, Position
    <2>2. OnChains(f)'
      BY <1>0, <1>3, <1>7, <1>10, ChainPast DEF OnChains
    <2>3. HeardBy(f)'
      BY SMTT(60), <1>0, <1>1, <1>2, <1>8 DEF FrameFits, HeardBy
    <2>4. QED BY <1>0, <1>2, <1>8, <2>1, <2>2, <2>3 DEF FrameFits
  <1>12. /\ f.line = Top(t).line /\ FrameFits(t, 1, f)' /\ LineKept(f.line)'
         /\ logged[f.line].cut \subseteq logged'[f.line].cut
         /\ Top(t).i \in logged'[f.line].cut
         /\ \A m \in 1 .. Len(logged) : m # f.line => logged'[m] = logged[m]
    BY <1>0, <1>7, <1>8, <1>11
  <1>13. QED BY Zenon, <1>1, <1>4, <1>8, <1>9, <1>12, GoesOn

LEMMA LogTextKeeps ==
  ASSUME LogStrong, NEW t \in Threads, LogText(t)
  PROVE  LogStrong'
  <1>1. At(t, "log", "text") /\ UNCHANGED <<verbs, writer, readers, started>>
        /\ Goto(t, "chain", Top(t).i + 1)
    BY DEF LogText
  <1>2. CASE Writes(Top(t).line, Top(t).i, "text") /\ UNCHANGED logged
    BY <1>1, <1>2, TextKeeps
  <1>3. ASSUME NEW how \in {logged[Top(t).line].how, "gone"}, UNCHANGED chains,
               logged' = [logged EXCEPT ![Top(t).line].cut = @ \cup {Top(t).i},
                                        ![Top(t).line].how = how]
        PROVE  LogStrong'
    BY <1>1, <1>3, TextLostKeeps
  <1>4. QED BY <1>2, <1>3 DEF LogText, Writes

----------------------------------------------------------------------------
(* The start.                                                              *)

\* The chains of logger.conf, or the one of the terminal, have nothing written to them.
LEMMA NewChains ==
  ASSUME ConfsNumbered, InitLogger
  PROVE  chains' \in Seq(Chain) /\ \A i \in 1 .. Len(chains') : chains'[i].out = <<>>
  <1>1. PICK conf \in Confs, opened \in BOOLEAN :
          chains' = IF conf = {} THEN <<MakeLogchain("console", DefaultMark, FALSE)>>
                    ELSE Reverse([i \in 1 .. Cardinality(conf) |->
                           LET c == CHOOSE x \in conf : x.line = i
                           IN  MakeLogchain(c.channel, c.levels, opened)])
    BY DEF InitLogger
  <1>2. <<>> \in Seq(Marks)
    OBVIOUS
  <1>3. \A channel, levels, file : levels \in SUBSET Levels /\ file \in BOOLEAN =>
          /\ MakeLogchain(channel, levels, file) \in Chain
          /\ MakeLogchain(channel, levels, file).out = <<>>
    BY <1>2 DEF MakeLogchain, Chain
  <1>4. CASE conf = {}
    <2>1. PICK c : c = MakeLogchain("console", DefaultMark, FALSE)
      OBVIOUS
    <2>2. DefaultMark \in SUBSET Levels
      BY DEF DefaultMark
    <2>3. c \in Chain /\ c.out = <<>>
      BY <1>3, <2>1, <2>2
    <2>4. chains' = <<c>>
      BY <1>1, <1>4, <2>1
    <2>5. QED BY <2>3, <2>4
  <1>5. CASE conf # {}
    <2>1. PICK s : s = [i \in 1 .. Cardinality(conf) |->
                           LET c == CHOOSE x \in conf : x.line = i
                           IN  MakeLogchain(c.channel, c.levels, opened)]
      OBVIOUS
    <2>2. PICK n \in Nat : n = Cardinality(conf)
      BY DEF ConfsNumbered
    <2>3. \A i \in 1 .. n : s[i] \in Chain /\ s[i].out = <<>>
      <3>1. SUFFICES ASSUME NEW i \in 1 .. n PROVE s[i] \in Chain /\ s[i].out = <<>>
        OBVIOUS
      <3>2. PICK c : c = CHOOSE x \in conf : x.line = i
        OBVIOUS
      <3>3. c.levels \in SUBSET Levels
        BY <2>2, <3>2 DEF ConfsNumbered
      <3>4. s[i] = MakeLogchain(c.channel, c.levels, opened)
        BY <2>1, <2>2, <3>2
      <3>5. QED BY <1>3, <3>3, <3>4
    <2>4. s \in Seq(Chain) /\ Len(s) = n
      <3>1. s = [i \in 1 .. n |-> s[i]]
        BY <2>1, <2>2
      <3>2. s \in [1 .. n -> Chain]
        BY <2>3, <3>1
      <3>3. QED BY <3>2
    <2>5. chains' = Reverse(s)
      BY <1>1, <1>5, <2>1
    <2>6. chains' = [i \in 1 .. n |-> s[(n - i) + 1]]
      BY <2>4, <2>5 DEF Reverse
    <2>7. \A i \in 1 .. n : (n - i) + 1 \in 1 .. n
      OBVIOUS
    <2>8. \A i \in 1 .. n : chains'[i] \in Chain /\ chains'[i].out = <<>>
      BY <2>3, <2>6, <2>7
    <2>9. chains' \in Seq(Chain) /\ Len(chains') = n
      <3>1. chains' \in [1 .. n -> Chain]
        BY <2>6, <2>8
      <3>2. QED BY <3>1, <2>6
    <2>10. QED BY <2>8, <2>9
  <1>6. QED BY <1>4, <1>5

\* No call has come to the chains, no line was logged.
LEMMA InitLoggerKeeps ==
  ASSUME ConfsNumbered, LogStrong, InitLogger
  PROVE  LogStrong'
  <1>1. /\ ~started /\ started' /\ UNCHANGED <<verbs, writer, readers, stack, logged>>
        /\ chains = <<>> /\ Len(<<>>) = 0
    BY DEF InitLogger, LogStrong
  <1>2. chains' \in Seq(Chain) /\ \A i \in 1 .. Len(chains') : chains'[i].out = <<>>
    BY NewChains
  <1>3. LogTypes'
    BY <1>1, <1>2 DEF LogStrong, LogTypes
  <1>4. Len(chains') \in Nat /\ \A i : i \notin 1 .. Len(chains)
    BY <1>1, <1>2, LenProperties
  <1>5. \A i \in 1 .. Len(chains') : 1 .. Len(chains'[i].out) = {}
    BY <1>1, <1>2
  <1>6. \A n : \A i \in 1 .. Len(chains') : Places(n, i)' = {}
    BY <1>5 DEF Places
  <1>7. \A n \in 1 .. Len(logged) : /\ logged[n].failed = {} /\ logged[n].cut = {}
                                    /\ logged[n].how # "logged"
    <2>1. SUFFICES ASSUME NEW n \in 1 .. Len(logged)
                   PROVE  logged[n].failed = {} /\ logged[n].cut = {} /\ logged[n].how # "logged"
      OBVIOUS
    <2>2. LineKept(n)
      BY DEF LogStrong, LinesKept
    <2>3. QED BY <1>1, <1>4, <2>2 DEF LineKept
  <1>8. \A n \in 1 .. Len(logged) : \A i \in 1 .. Len(chains') : Untouched(n, i)'
    BY <1>1, <1>6, <1>7 DEF Untouched
  <1>9. ASSUME NEW t \in Threads, NEW k \in 1 .. Len(stack[t])
        PROVE  FrameFits(t, k, stack[t][k])'
    <2>1. PICK f \in LogFrame : f = stack[t][k]
      BY ElementOfSeq DEF LogStrong, LogTypes
    <2>2. FrameFits(t, k, f)
      BY <2>1 DEF LogStrong, FramesFit
    <2>3. f.line \in 1 .. Len(logged) /\ f.at \in {"begin", "call"} /\ (f.at = "begin" => f.i = 1)
      BY <1>1, <2>1, <2>2 DEF FrameFits, Position, LogFrame
    <2>4. Position(t, k, f)'
      BY <1>1, <2>2, <2>3 DEF FrameFits, Position
    <2>5. OnChains(f)'
      <3>1. \A i \in 1 .. Len(chains') : ~ (i < 1)
        BY <1>4
      <3>2. QED BY <1>8, <2>3, <3>1 DEF OnChains
    <2>6. HeardBy(f)'
      BY <1>1, <2>2 DEF FrameFits, HeardBy
    <2>7. FrameFits(t, k, f)'
      BY <1>1, <2>2, <2>4, <2>5, <2>6 DEF FrameFits
    <2>8. QED BY <1>1, <2>1, <2>7
  <1>10. FramesFit' /\ OneFrame'
    BY <1>1, <1>9 DEF LogStrong, FramesFit, OneFrame
  <1>11. Whole' /\ MarksKnown'
    BY <1>5 DEF Whole, MarksKnown
  <1>12. LinesKept'
    BY <1>1, <1>7 DEF LogStrong, LinesKept, LineKept
  <1>13. QED BY <1>1, <1>3, <1>10, <1>11, <1>12 DEF LogStrong

LEMMA InitLogStrong == Init => LogStrong
  <1>1. SUFFICES ASSUME Init PROVE LogStrong
    OBVIOUS
  <1>2. Len(<<>>) = 0 /\ 1 .. 0 = {}
    OBVIOUS
  <1>3. LogTypes
    <2>1. /\ <<>> \in Seq(Chain) /\ <<>> \in Seq(Verbosers) /\ <<>> \in Seq(LogLine)
          /\ <<>> \in Seq(LogFrame)
      OBVIOUS
    <2>2. stack \in [Threads -> Seq(LogFrame)]
      BY <1>1, <2>1 DEF Init
    <2>3. /\ chains \in Seq(Chain) /\ verbs \in Seq(Verbosers) /\ logged \in Seq(LogLine)
          /\ writer \in SUBSET Threads /\ readers \in SUBSET Threads /\ started \in BOOLEAN
      BY <1>1, <2>1, Zenon DEF Init
    <2>4. QED BY <2>2, <2>3 DEF LogTypes
  <1>4. \A t \in Threads : 1 .. Len(stack[t]) = {}
    BY <1>1, <1>2 DEF Init
  <1>5. FramesFit /\ OneFrame
    BY <1>4 DEF FramesFit, OneFrame
  <1>6. Whole /\ MarksKnown /\ LinesKept
    BY <1>1, <1>2 DEF Init, Whole, MarksKnown, LinesKept
  <1>7. QED BY <1>1, <1>3, <1>5, <1>6 DEF Init, LogStrong

LEMMA StaysStrong ==
  ASSUME LogStrong, UNCHANGED <<chains, verbs, writer, readers, stack, started, logged>>
  PROVE  LogStrong'
  <1>1. LogTypes'
    BY DEF LogStrong, LogTypes
  <1>2. \A n, i : Places(n, i)' = Places(n, i) /\ (Belongs(n, i)' <=> Belongs(n, i))
    BY DEF Places, Belongs, Takes
  <1>3. \A n, i : /\ Settled(n, i)' <=> Settled(n, i)
                  /\ Untouched(n, i)' <=> Untouched(n, i)
                  /\ Half(n, i)' <=> Half(n, i)
    BY <1>2 DEF Settled, Untouched, Half
  <1>4. \A t, k, f : FrameFits(t, k, f) => FrameFits(t, k, f)'
    <2>1. \A f : OnChains(f) => OnChains(f)'
      BY <1>3 DEF OnChains
    <2>2. \A f : HeardBy(f) => HeardBy(f)'
      BY DEF HeardBy
    <2>3. \A t, k, f : Position(t, k, f) => Position(t, k, f)'
      BY DEF Position
    <2>4. QED BY <2>1, <2>2, <2>3 DEF FrameFits
  <1>5. FramesFit' /\ OneFrame'
    BY <1>4 DEF LogStrong, FramesFit, OneFrame
  <1>6. Whole'
    BY WholeStays DEF LogStrong
  <1>7. MarksKnown'
    BY DEF LogStrong, MarksKnown
  <1>8. LinesKept'
    BY <1>3 DEF LogStrong, LinesKept, LineKept
  <1>9. QED BY <1>1, <1>5, <1>6, <1>7, <1>8 DEF LogStrong


LEMMA StepLogInv ==
  ASSUME ConfsNumbered, LogInv, [Next]_vars
  PROVE  LogInv'
  <1>1. SUFFICES ASSUME ~nested' PROVE LogStrong'
    BY DEF LogInv
  <1>2. CASE InitLogger
    BY <1>1, <1>2, InitLoggerKeeps DEF LogInv, InitLogger
  <1>3. ASSUME NEW t \in Threads, NEW level \in Logged, Log(t, level) PROVE LogStrong'
    BY <1>1, <1>3, LogKeeps DEF LogInv, Log
  <1>4. ASSUME NEW t \in Threads, LogTest(t) PROVE LogStrong'
    BY <1>1, <1>4, LogTestKeeps DEF LogInv, LogTest
  <1>5. ASSUME NEW t \in Threads, LogLock(t) PROVE LogStrong'
    BY SMTT(60), <1>1, <1>5, LogLockKeeps DEF LogInv, LogLock
  <1>6. ASSUME NEW t \in Threads, LogHeader(t) PROVE LogStrong'
    BY SMTT(60), <1>1, <1>6, LogHeaderKeeps DEF LogInv, LogHeader
  <1>7. ASSUME NEW t \in Threads, LogText(t) PROVE LogStrong'
    BY <1>1, <1>7, LogTextKeeps DEF LogInv, LogText
  <1>8. ASSUME NEW t \in Threads, LogUnlock(t) PROVE LogStrong'
    BY <1>1, <1>8, LogUnlockKeeps DEF LogInv, LogUnlock
  <1>9. ASSUME NEW t \in Threads, Signal(t) PROVE LogStrong'
    <2>1. nested' = FALSE /\ ~nested
      BY <1>1, <1>9 DEF Signal
    <2>2. QED BY <1>9, <2>1, SignalKeeps DEF LogInv
  <1>10. ASSUME NEW t \in Threads, VerboseLine(t) PROVE LogStrong'
    BY <1>1, <1>10, VerboseLineKeeps DEF LogInv, VerboseLine
  <1>11. ASSUME NEW t \in Threads, VerboseLock(t) PROVE LogStrong'
    BY <1>1, <1>11, VerboseLockKeeps DEF LogInv, VerboseLock
  <1>12. ASSUME NEW t \in Threads, Call(t) PROVE LogStrong'
    BY <1>1, <1>12, CallKeeps DEF LogInv, Call
  <1>16. ASSUME NEW t \in Threads, VerboseFails(t) PROVE LogStrong'
    BY <1>1, <1>16, VerboseFailsKeeps DEF LogInv, VerboseFails
  <1>13. ASSUME NEW t \in Threads, VerboseUnlock(t) PROVE LogStrong'
    BY <1>1, <1>13, VerboseUnlockKeeps DEF LogInv, VerboseUnlock
  <1>14. ASSUME NEW t \in Threads, Register(t) \/ Unregister(t) PROVE LogStrong'
    BY <1>1, <1>14, VerbosersKeep, Zenon DEF LogInv, Register, Unregister
  <1>15. CASE UNCHANGED vars
    <2>1. LogStrong
      BY <1>1, <1>15 DEF LogInv, vars
    <2>2. UNCHANGED <<chains, verbs, writer, readers, stack, started, logged>>
      BY <1>15 DEF vars
    <2>3. QED BY <2>1, <2>2, StaysStrong
  <1>17. QED
    BY <1>2, <1>3, <1>4, <1>5, <1>6, <1>7, <1>8, <1>9, <1>10, <1>11, <1>12, <1>13, <1>14, <1>15,
       <1>16
       DEF Next, Step

LEMMA LogStrongDelivers ==
  ASSUME LogStrong
  PROVE  WholeLines /\ OnItsChains /\ Heard
  <1>1. /\ chains \in Seq(Chain) /\ logged \in Seq(LogLine) /\ DOMAIN logged = 1 .. Len(logged)
        /\ Range(chains) = {chains[i] : i \in 1 .. Len(chains)} /\ DOMAIN chains = 1 .. Len(chains)
    BY LenProperties DEF LogStrong, LogTypes, Range
  <1>2. \A i \in 1 .. Len(chains) : DOMAIN chains[i].out = 1 .. Len(chains[i].out)
    BY <1>1, ChainTypes
  <1>3. WholeLines
    <2>1. \A n, i : TextDue(n, i) => writer # {}
      <3>1. SUFFICES ASSUME NEW t \in Threads, stack[t] # <<>>, stack[t][1].at = "text"
                     PROVE  writer # {}
        BY DEF TextDue
      <3>2. FrameFits(t, 1, stack[t][1])
        BY <3>1, TopFits DEF Top
      <3>3. QED BY <3>1, <3>2 DEF FrameFits, Position
    <2>2. ASSUME NEW i \in 1 .. Len(chains), NEW k \in 1 .. Len(chains[i].out)
          PROVE  LET out == chains[i].out
                 IN  \/ i \in logged[out[k][1]].cut
                     \/ out[k][2] = "header" /\ k = Len(out) /\ writer # {}
                     \/ out[k][2] = "header" /\ k < Len(out) /\ out[k + 1] = <<out[k][1], "text">>
                     \/ out[k][2] = "text" /\ k > 1 /\ out[k - 1] = <<out[k][1], "header">>
      <3>1. PICK out, len : out = chains[i].out /\ len = Len(out) /\ len \in Nat
        <4>1. Len(chains[i].out) \in Nat
          BY <1>1, <2>2, ChainTypes
        <4>2. QED BY <4>1
      <3>2. WholeMark(i, k)
        BY <2>2 DEF LogStrong, Whole
      <3>3. /\ k + 1 \in 1 .. len => k < len
            /\ k - 1 \in 1 .. len => k > 1
        BY <3>1
      <3>4. QED BY <2>1, <3>1, <3>2, <3>3 DEF WholeMark, Pair
    <2>3. QED BY <1>1, <1>2, <2>2 DEF WholeLines
  <1>4. OnItsChains
    <2>1. SUFFICES ASSUME NEW n \in {m \in DOMAIN logged : logged[m].how = "logged"},
                          NEW i \in DOMAIN chains, NEW places,
                          places = {k \in DOMAIN chains[i].out : chains[i].out[k][1] = n}
                   PROVE  /\ ~Belongs(n, i) => places = {}
                          /\ Belongs(n, i) => IF i \in logged[n].cut THEN Cardinality(places) <= 1
                                              ELSE Cardinality(places) = 2
      BY DEF OnItsChains, Belongs
    <2>2. /\ n \in 1 .. Len(logged) /\ logged[n].how = "logged" /\ i \in 1 .. Len(chains)
          /\ places = Places(n, i)
      BY <1>1, <1>2, <2>1 DEF Places
    <2>3. Settled(n, i)
      BY <2>2 DEF LogStrong, LinesKept, LineKept
    <2>4. CASE ~Belongs(n, i)
      BY <2>2, <2>3, <2>4 DEF Settled
    <2>5. CASE Belongs(n, i) /\ i \notin logged[n].cut
      <3>1. PICK k \in 1 .. Len(chains[i].out) : Places(n, i) = {k, k + 1}
        BY <2>3, <2>5 DEF Settled
      <3>2. k + 1 # k
        <4>1. Len(chains[i].out) \in Nat
          BY <2>2, <1>1, ChainTypes
        <4>2. QED BY <4>1
      <3>3. Cardinality({k, k + 1}) = 2
        <4>1. IsFiniteSet({k}) /\ Cardinality({k}) = 1
          BY FS_Singleton
        <4>2. {k, k + 1} = {k} \cup {k + 1} /\ k + 1 \notin {k}
          BY <3>2
        <4>3. Cardinality({k} \cup {k + 1}) = Cardinality({k}) + 1
          BY <4>1, <4>2, FS_AddElement
        <4>4. 1 + 1 = 2
          OBVIOUS
        <4>5. QED BY <4>1, <4>2, <4>3, <4>4, Zenon
      <3>4. QED BY <2>2, <2>5, <3>1, <3>3
    <2>6. CASE Belongs(n, i) /\ i \in logged[n].cut
      <3>1. \A k, j \in places : k = j
        BY <2>2, <2>3, <2>6 DEF Settled
      <3>2. CASE places = {}
        <4>1. Cardinality(places) = 0
          BY <3>2, FS_EmptySet
        <4>2. QED BY <2>6, <4>1
      <3>3. CASE places # {}
        <4>1. PICK k : places = {k}
          BY <3>1, <3>3
        <4>2. Cardinality({k}) = 1
          BY FS_Singleton
        <4>3. QED BY <2>6, <4>1, <4>2
      <3>4. QED BY <3>2, <3>3
    <2>7. QED BY <2>4, <2>5, <2>6
  <1>5. Heard
    <2>1. ASSUME NEW n \in 1 .. Len(logged) PROVE IsPrefix(logged[n].heard, logged[n].due)
      <3>1. LineKept(n)
        BY DEF LogStrong, LinesKept
      <3>2. logged[n].heard \in Seq(Verbosers)
        <4>1. logged[n] \in LogLine
          BY <1>1, ElementOfSeq
        <4>2. QED BY <4>1 DEF LogLine
      <3>3. SubSeq(logged[n].heard, 1, Len(logged[n].heard)) = logged[n].heard
        BY <3>2, SubSeqFull
      <3>4. QED BY <3>1, <3>3 DEF LineKept, IsPrefix
    <2>2. ASSUME NEW t \in Threads, NEW f \in Range(stack[t])
          PROVE  /\ f.fn = "verbose" /\ f.at = "call" => logged[f.line].due = verbs
                 /\ f.fn = "log" => logged[f.line].heard = logged[f.line].due
      <3>1. DOMAIN stack[t] = 1 .. Len(stack[t])
        BY LenProperties DEF LogStrong, LogTypes
      <3>2. PICK k \in 1 .. Len(stack[t]) : f = stack[t][k]
        BY <3>1 DEF Range
      <3>3. FrameFits(t, k, f)
        BY <3>2 DEF LogStrong, FramesFit
      <3>4. QED BY <3>3 DEF FrameFits, HeardBy
    <2>3. QED BY <1>1, <2>1, <2>2 DEF Heard
  <1>6. QED BY <1>3, <1>4, <1>5

\* Whatever the threads do and whatever writing fails, each line arrives once and wherever it
\* should, whole but for the parts that were lost, and is heard by the verbosers there were,
\* unless the signal handler has interrupted a thread that was writing (spd_log, spd_verbose):
\* with any logger.conf whose sections are numbered.
THEOREM LinesAlwaysArrive ==
  ASSUME ConfsNumbered
  PROVE  Spec => []LinesDelivered
  <1>1. Init => LogInv
    BY InitLogStrong DEF LogInv
  <1>2. LogInv /\ [Next]_vars => LogInv'
    BY StepLogInv
  <1>3. LogInv => LinesDelivered
    BY LogStrongDelivers DEF LogInv, LinesDelivered
  <1>4. QED BY <1>1, <1>2, <1>3, PTL DEF Spec

----------------------------------------------------------------------------
(* Lemmas about the sequences that pointers run along.                     *)

\* The i-th element of a sequence, or nil where it has none.
Nth(s, i, nil) == IF i \in 1 .. Len(s) THEN s[i] ELSE nil

Has(s, e) == \E i \in 1 .. Len(s) : s[i] = e
Once(s) == \A i, j \in 1 .. Len(s) : s[i] = s[j] => i = j

\* The pointers nx lead along a sequence.
Along(nx, s, nil) == \A i \in 1 .. Len(s) : nx[s[i]] = Nth(s, i + 1, nil)

\* A sequence q put into s before its i-th element.
PutIn(t, s, q, i) ==
  /\ Len(t) = Len(s) + Len(q)
  /\ \A j \in 1 .. i - 1 : t[j] = s[j]
  /\ \A j \in 1 .. Len(q) : t[i - 1 + j] = q[j]
  /\ \A j \in i .. Len(s) : t[Len(q) + j] = s[j]

\* Where its elements come from.
LEMMA PutInFrom ==
  ASSUME NEW E, NEW s \in Seq(E), NEW q \in Seq(E), NEW t \in Seq(E),
         NEW i \in 1 .. Len(s) + 1, PutIn(t, s, q, i)
  PROVE  \A j \in 1 .. Len(t) :
           \/ j \in 1 .. i - 1 /\ j \in 1 .. Len(s) /\ t[j] = s[j]
           \/ \E b \in 1 .. Len(q) : t[j] = q[b] /\ j = i - 1 + b
           \/ \E a \in i .. Len(s) : t[j] = s[a] /\ j = Len(q) + a /\ a \in 1 .. Len(s)
  <1> SUFFICES ASSUME NEW j \in 1 .. Len(t)
               PROVE  \/ j \in 1 .. i - 1 /\ j \in 1 .. Len(s) /\ t[j] = s[j]
                      \/ \E b \in 1 .. Len(q) : t[j] = q[b] /\ j = i - 1 + b
                      \/ \E a \in i .. Len(s) : t[j] = s[a] /\ j = Len(q) + a /\ a \in 1 .. Len(s)
    OBVIOUS
  <1>1. Len(s) \in Nat /\ Len(q) \in Nat /\ Len(t) = Len(s) + Len(q)
    BY DEF PutIn
  <1>2. CASE j < i
    <2>1. j \in 1 .. i - 1 /\ j \in 1 .. Len(s)
      BY <1>1, <1>2
    <2>2. QED BY <2>1 DEF PutIn
  <1>3. CASE i <= j /\ j < i + Len(q)
    <2>1. j - i + 1 \in 1 .. Len(q) /\ i - 1 + (j - i + 1) = j
      BY <1>1, <1>3
    <2>2. t[i - 1 + (j - i + 1)] = q[j - i + 1]
      BY <2>1 DEF PutIn
    <2>3. QED BY <2>1, <2>2
  <1>4. CASE i + Len(q) <= j
    <2>1. /\ j - Len(q) \in i .. Len(s) /\ Len(q) + (j - Len(q)) = j
          /\ j - Len(q) \in 1 .. Len(s)
      BY <1>1, <1>4
    <2>2. t[Len(q) + (j - Len(q))] = s[j - Len(q)]
      BY <2>1 DEF PutIn
    <2>3. QED BY <2>1, <2>2
  <1>5. QED
    <2>1. j < i \/ (i <= j /\ j < i + Len(q)) \/ i + Len(q) <= j
      BY <1>1
    <2>2. QED BY <1>2, <1>3, <1>4, <2>1

\* It has the elements of both, each once.
LEMMA PutInHas ==
  ASSUME NEW E, NEW s \in Seq(E), NEW q \in Seq(E), NEW t \in Seq(E),
         NEW i \in 1 .. Len(s) + 1, PutIn(t, s, q, i)
  PROVE  /\ \A e : Has(t, e) <=> Has(s, e) \/ Has(q, e)
         /\ Once(s) /\ Once(q) /\ (\A e : ~(Has(s, e) /\ Has(q, e))) => Once(t)
  <1>0. \A j \in 1 .. Len(t) :
           \/ j \in 1 .. i - 1 /\ j \in 1 .. Len(s) /\ t[j] = s[j]
           \/ \E b \in 1 .. Len(q) : t[j] = q[b] /\ j = i - 1 + b
           \/ \E a \in i .. Len(s) : t[j] = s[a] /\ j = Len(q) + a /\ a \in 1 .. Len(s)
    BY SMTT(60), PutInFrom
  <1>1. Len(s) \in Nat /\ Len(q) \in Nat /\ Len(t) = Len(s) + Len(q) /\ i \in Nat
    BY DEF PutIn
  <1>2. ASSUME NEW e PROVE Has(t, e) <=> Has(s, e) \/ Has(q, e)
    <2>1. ASSUME NEW j \in 1 .. Len(t), t[j] = e PROVE Has(s, e) \/ Has(q, e)
      <3>1. CASE j \in 1 .. i - 1 /\ j \in 1 .. Len(s) /\ t[j] = s[j]
        BY <2>1, <3>1 DEF Has
      <3>2. CASE \E b \in 1 .. Len(q) : t[j] = q[b] /\ j = i - 1 + b
        BY <2>1, <3>2 DEF Has
      <3>3. CASE \E a \in i .. Len(s) : t[j] = s[a] /\ j = Len(q) + a /\ a \in 1 .. Len(s)
        BY <2>1, <3>3 DEF Has
      <3>4. QED BY <3>1, <3>2, <3>3, <1>0
    <2>2. ASSUME NEW a \in 1 .. Len(s), s[a] = e PROVE Has(t, e)
      <3>1. CASE a < i
        <4>1. a \in 1 .. i - 1 /\ a \in 1 .. Len(t)
          BY <1>1, <3>1
        <4>2. QED BY <2>2, <4>1 DEF Has, PutIn
      <3>2. CASE ~(a < i)
        <4>1. a \in i .. Len(s) /\ Len(q) + a \in 1 .. Len(t)
          BY <1>1, <3>2
        <4>2. QED BY <2>2, <4>1 DEF Has, PutIn
      <3>3. QED BY <3>1, <3>2
    <2>3. ASSUME NEW b \in 1 .. Len(q), q[b] = e PROVE Has(t, e)
      <3>1. i - 1 + b \in 1 .. Len(t)
        BY <1>1
      <3>2. QED BY <2>3, <3>1 DEF Has, PutIn
    <2>4. QED BY <2>1, <2>2, <2>3 DEF Has
  <1>3. ASSUME Once(s), Once(q), \A e : ~(Has(s, e) /\ Has(q, e))
        PROVE  Once(t)
    <2>1. SUFFICES ASSUME NEW j \in 1 .. Len(t), NEW k \in 1 .. Len(t), t[j] = t[k]
                   PROVE  j = k
      BY DEF Once
    <2>2. CASE \E b \in 1 .. Len(q) : t[j] = q[b] /\ j = i - 1 + b
      <3>1. PICK b \in 1 .. Len(q) : t[j] = q[b] /\ j = i - 1 + b
        BY <2>2
      <3>2. Has(q, t[k]) /\ ~Has(s, t[k])
        BY <1>3, <2>1, <3>1 DEF Has
      <3>3. PICK c \in 1 .. Len(q) : t[k] = q[c] /\ k = i - 1 + c
        BY <3>2, <1>0 DEF Has
      <3>4. b = c
        BY <1>3, <2>1, <3>1, <3>3 DEF Once
      <3>5. QED BY <3>1, <3>3, <3>4
    <2>3. CASE ~ \E b \in 1 .. Len(q) : t[j] = q[b] /\ j = i - 1 + b
      <3>1. PICK d \in 1 .. Len(s) : t[j] = s[d] /\ ((d < i /\ j = d) \/ (i <= d /\ j = Len(q) + d))
        <4>1. CASE j \in 1 .. i - 1 /\ j \in 1 .. Len(s) /\ t[j] = s[j]
          BY <4>1
        <4>2. CASE \E a \in i .. Len(s) : t[j] = s[a] /\ j = Len(q) + a /\ a \in 1 .. Len(s)
          BY <4>2
        <4>3. QED BY <2>3, <4>1, <4>2, <1>0
      <3>2. ~Has(q, t[k])
        BY <1>3, <2>1, <3>1 DEF Has
      <3>3. PICK c \in 1 .. Len(s) : t[k] = s[c] /\ ((c < i /\ k = c) \/ (i <= c /\ k = Len(q) + c))
        <4>1. CASE k \in 1 .. i - 1 /\ k \in 1 .. Len(s) /\ t[k] = s[k]
          BY <4>1
        <4>2. CASE \E a \in i .. Len(s) : t[k] = s[a] /\ k = Len(q) + a /\ a \in 1 .. Len(s)
          BY <4>2
        <4>3. CASE \E b \in 1 .. Len(q) : t[k] = q[b] /\ k = i - 1 + b
          BY <3>2, <4>3 DEF Has
        <4>4. QED BY <4>1, <4>2, <4>3, <1>0
      <3>4. d = c
        BY <1>3, <2>1, <3>1, <3>3 DEF Once
      <3>5. QED BY <3>1, <3>3, <3>4
    <2>4. QED BY <2>2, <2>3
  <1>4. QED BY <1>2, <1>3

\* Pointers that lead along both, but for the ends where they meet, lead along it.
LEMMA PutInAlong ==
  ASSUME NEW E, NEW nil, NEW nx, NEW s \in Seq(E), NEW q \in Seq(E), NEW t \in Seq(E),
         NEW i \in 1 .. Len(s) + 1, PutIn(t, s, q, i), Len(q) >= 1,
         \A a \in 1 .. Len(s) : a # i - 1 => nx[s[a]] = Nth(s, a + 1, nil),
         \A b \in 1 .. Len(q) : b # Len(q) => nx[q[b]] = q[b + 1],
         nx[q[Len(q)]] = Nth(s, i, nil), i > 1 => nx[s[i - 1]] = q[1]
  PROVE  Along(nx, t, nil)
  <1>0. \A j \in 1 .. Len(t) :
           \/ j \in 1 .. i - 1 /\ j \in 1 .. Len(s) /\ t[j] = s[j]
           \/ \E b \in 1 .. Len(q) : t[j] = q[b] /\ j = i - 1 + b
           \/ \E a \in i .. Len(s) : t[j] = s[a] /\ j = Len(q) + a /\ a \in 1 .. Len(s)
    BY PutInFrom
  <1>1. PICK n \in Nat, m \in Nat : /\ n = Len(s) /\ m = Len(q) /\ n + m = Len(t) /\ m >= 1
                                    /\ i \in 1 .. n + 1 /\ i \in Nat
    BY DEF PutIn
  <1>2. /\ \A j \in 1 .. i - 1 : t[j] = s[j]
        /\ \A j \in 1 .. m : t[i - 1 + j] = q[j]
        /\ \A j \in i .. n : t[m + j] = s[j]
    BY <1>1 DEF PutIn
  <1>8. \A j \in 1 .. n + m :
           \/ j \in 1 .. i - 1 /\ j \in 1 .. n /\ t[j] = s[j]
           \/ \E b \in 1 .. m : t[j] = q[b] /\ j = i - 1 + b
           \/ \E a \in i .. n : t[j] = s[a] /\ j = m + a /\ a \in 1 .. n
    BY <1>0, <1>1
  <1>3. SUFFICES ASSUME NEW j \in 1 .. n + m PROVE nx[t[j]] = Nth(t, j + 1, nil)
    BY <1>1 DEF Along
  <1>4. CASE j \in 1 .. i - 1 /\ j \in 1 .. n /\ t[j] = s[j]
    <2>1. CASE j = i - 1
      <3>1. i - 1 + 1 = j + 1 /\ j + 1 \in 1 .. n + m /\ i > 1 /\ 1 \in 1 .. m
        BY ONLY <1>1, <1>4, <2>1
      <3>2. t[j + 1] = q[1] /\ nx[t[j]] = q[1]
        BY <1>2, <1>4, <2>1, <3>1
      <3>3. QED BY <1>1, <3>1, <3>2 DEF Nth
    <2>2. CASE j # i - 1
      <3>1. j + 1 \in 1 .. i - 1 /\ j + 1 \in 1 .. n /\ j + 1 \in 1 .. n + m
        BY ONLY <1>1, <1>4, <2>2
      <3>2. nx[t[j]] = s[j + 1]
        BY <1>1, <1>4, <2>2, <3>1 DEF Nth
      <3>3. QED BY <1>1, <1>2, <3>1, <3>2 DEF Nth
    <2>3. QED BY <2>1, <2>2
  <1>5. CASE \E b \in 1 .. m : t[j] = q[b] /\ j = i - 1 + b
    <2>1. PICK b \in 1 .. m : t[j] = q[b] /\ j = i - 1 + b
      BY <1>5
    <2>2. CASE b = m
      <3>1. j + 1 = m + i
        BY ONLY <1>1, <2>1, <2>2
      <3>2. nx[t[j]] = Nth(s, i, nil)
        BY <1>1, <2>1, <2>2
      <3>3. CASE i <= n
        <4>1. i \in i .. n /\ i \in 1 .. n /\ m + i \in 1 .. n + m
          BY ONLY <1>1, <3>3
        <4>2. t[m + i] = s[i]
          BY <1>2, <4>1
        <4>3. QED BY <1>1, <3>1, <3>2, <4>1, <4>2 DEF Nth
      <3>4. CASE ~(i <= n)
        <4>1. i \notin 1 .. n /\ m + i \notin 1 .. n + m
          BY ONLY <1>1, <3>4
        <4>2. QED BY <1>1, <3>1, <3>2, <4>1 DEF Nth
      <3>5. QED BY <3>3, <3>4
    <2>3. CASE b # m
      <3>1. b + 1 \in 1 .. m /\ j + 1 \in 1 .. n + m /\ j + 1 = i - 1 + (b + 1)
        BY ONLY <1>1, <2>1, <2>3
      <3>2. t[j + 1] = q[b + 1]
        <4>1. t[i - 1 + (b + 1)] = q[b + 1]
          BY ONLY <1>2, <3>1
        <4>2. QED BY ONLY <3>1, <4>1
      <3>3. nx[t[j]] = q[b + 1]
        BY <1>1, <2>1, <2>3
      <3>4. QED BY <1>1, <3>1, <3>2, <3>3 DEF Nth
    <2>4. QED BY <2>2, <2>3
  <1>6. CASE \E a \in i .. n : t[j] = s[a] /\ j = m + a /\ a \in 1 .. n
    <2>1. PICK a \in i .. n : t[j] = s[a] /\ j = m + a /\ a \in 1 .. n
      BY <1>6
    <2>2. a # i - 1
      BY ONLY <1>1, <2>1
    <2>3. nx[t[j]] = Nth(s, a + 1, nil)
      BY <1>1, <2>1, <2>2
    <2>4. CASE a = n
      <3>1. a + 1 \notin 1 .. n /\ j + 1 \notin 1 .. n + m
        BY ONLY <1>1, <2>1, <2>4
      <3>2. QED BY <1>1, <2>3, <3>1 DEF Nth
    <2>5. CASE a # n
      <3>1. /\ a + 1 \in i .. n /\ a + 1 \in 1 .. n /\ j + 1 \in 1 .. n + m
            /\ j + 1 = m + (a + 1)
        BY ONLY <1>1, <2>1, <2>5
      <3>2. t[j + 1] = s[a + 1]
        BY SMTT(60), <1>2, <3>1
      <3>3. QED BY <1>1, <2>3, <3>1, <3>2 DEF Nth
    <2>6. QED BY <2>4, <2>5
  <1>7. QED BY <1>1, <1>4, <1>5, <1>6, <1>8

\* Its ends.
LEMMA PutInEnds ==
  ASSUME NEW E, NEW s \in Seq(E), NEW q \in Seq(E), NEW t \in Seq(E),
         NEW i \in 1 .. Len(s) + 1, PutIn(t, s, q, i), Len(q) >= 1
  PROVE  \A nil : /\ Nth(t, 1, nil) = IF i = 1 THEN q[1] ELSE Nth(s, 1, nil)
                  /\ Nth(t, Len(t), nil) = IF i = Len(s) + 1 THEN q[Len(q)] ELSE Nth(s, Len(s), nil)
  <1> SUFFICES ASSUME NEW nil
               PROVE  /\ Nth(t, 1, nil) = IF i = 1 THEN q[1] ELSE Nth(s, 1, nil)
                      /\ Nth(t, Len(t), nil) = IF i = Len(s) + 1 THEN q[Len(q)] ELSE Nth(s, Len(s), nil)
    OBVIOUS
  <1>1. PICK n \in Nat, m \in Nat : /\ n = Len(s) /\ m = Len(q) /\ n + m = Len(t) /\ m >= 1
                                    /\ i \in 1 .. n + 1 /\ i \in Nat
    BY DEF PutIn
  <1>2. /\ \A j \in 1 .. i - 1 : t[j] = s[j]
        /\ \A j \in 1 .. m : t[i - 1 + j] = q[j]
        /\ \A j \in i .. n : t[m + j] = s[j]
    BY <1>1 DEF PutIn
  <1>3. 1 \in 1 .. n + m /\ n + m \in 1 .. n + m
    BY ONLY <1>1
  <1>4. CASE i = 1
    <2>1. 1 \in 1 .. m /\ i - 1 + 1 = 1
      BY ONLY <1>1, <1>4
    <2>2. t[1] = q[1]
      BY <1>2, <2>1
    <2>3. QED
      <3>1. Nth(t, 1, nil) = q[1]
        BY <1>1, <1>3, <2>2 DEF Nth
      <3>2. CASE n = 0
        <4>1. m \in 1 .. m /\ i - 1 + m = n + m /\ i = n + 1
          BY ONLY <1>1, <1>4, <3>2
        <4>2. t[n + m] = q[m]
          BY <1>2, <4>1
        <4>3. QED BY <1>1, <1>3, <1>4, <3>1, <4>1, <4>2 DEF Nth
      <3>3. CASE n # 0
        <4>1. n \in i .. n /\ n \in 1 .. n /\ m + n = n + m /\ i # n + 1
          BY ONLY <1>1, <1>4, <3>3
        <4>2. t[n + m] = s[n]
          BY <1>2, <4>1
        <4>3. QED BY <1>1, <1>3, <1>4, <3>1, <4>1, <4>2 DEF Nth
      <3>4. QED BY <3>2, <3>3
  <1>5. CASE i # 1
    <2>1. 1 \in 1 .. i - 1 /\ 1 \in 1 .. n
      BY ONLY <1>1, <1>5
    <2>2. t[1] = s[1]
      BY <1>2, <2>1
    <2>3. Nth(t, 1, nil) = Nth(s, 1, nil)
      BY <1>1, <1>3, <2>1, <2>2 DEF Nth
    <2>4. CASE i = n + 1
      <3>1. m \in 1 .. m /\ i - 1 + m = n + m
        BY ONLY <1>1, <2>4
      <3>2. t[n + m] = q[m]
        BY <1>2, <3>1
      <3>3. QED BY <1>1, <1>3, <1>5, <2>3, <2>4, <3>2 DEF Nth
    <2>5. CASE i # n + 1
      <3>1. n \in i .. n /\ n \in 1 .. n /\ m + n = n + m
        BY ONLY <1>1, <2>5
      <3>2. t[n + m] = s[n]
        BY <1>2, <3>1
      <3>3. QED BY <1>1, <1>3, <1>5, <2>3, <2>5, <3>1, <3>2 DEF Nth
    <2>6. QED BY <2>4, <2>5
  <1>6. QED BY <1>4, <1>5

\* A sequence without its i-th element.
LeftOut(t, s, i) ==
  /\ Len(t) = Len(s) - 1
  /\ \A j \in 1 .. i - 1 : t[j] = s[j]
  /\ \A j \in i .. Len(s) - 1 : t[j] = s[j + 1]

\* It has the elements that are left.
LEMMA LeftOutHas ==
  ASSUME NEW E, NEW s \in Seq(E), NEW t \in Seq(E), NEW i \in 1 .. Len(s), LeftOut(t, s, i),
         Once(s)
  PROVE  /\ \A e : Has(t, e) <=> Has(s, e) /\ e # s[i]
         /\ Once(t)
  <1>1. PICK n \in Nat : n = Len(s) /\ n - 1 = Len(t) /\ i \in 1 .. n /\ i \in Nat
    <2>1. Len(s) \in Nat /\ Len(t) = Len(s) - 1
      BY DEF LeftOut
    <2>2. PICK n \in Nat : n = Len(s) /\ n - 1 = Len(t)
      BY ONLY <2>1
    <2>3. i \in 1 .. n /\ i \in Nat
      BY <2>2
    <2>4. QED BY <2>2, <2>3
  <1>2. \A j \in 1 .. n - 1 : \E a \in 1 .. n : /\ t[j] = s[a] /\ a # i
                                                /\ a = IF j < i THEN j ELSE j + 1
    <2>1. SUFFICES ASSUME NEW j \in 1 .. n - 1
                   PROVE  \E a \in 1 .. n : /\ t[j] = s[a] /\ a # i
                                            /\ a = IF j < i THEN j ELSE j + 1
      OBVIOUS
    <2>2. CASE j < i
      <3>1. j \in 1 .. i - 1 /\ j \in 1 .. n /\ j # i
        BY ONLY <1>1, <2>1, <2>2
      <3>2. QED BY <2>2, <3>1 DEF LeftOut
    <2>3. CASE ~(j < i)
      <3>1. j \in i .. n - 1 /\ j + 1 \in 1 .. n /\ j + 1 # i
        BY ONLY <1>1, <2>1, <2>3
      <3>2. QED BY <1>1, <2>3, <3>1 DEF LeftOut
    <2>4. QED BY <2>2, <2>3
  <1>3. ASSUME NEW e PROVE Has(t, e) <=> Has(s, e) /\ e # s[i]
    <2>1. Has(t, e) => Has(s, e) /\ e # s[i]
      BY <1>1, <1>2 DEF Has, Once
    <2>2. ASSUME NEW a \in 1 .. n, s[a] = e, e # s[i] PROVE Has(t, e)
      <3>1. CASE a < i
        <4>1. a \in 1 .. i - 1 /\ a \in 1 .. n - 1
          BY ONLY <1>1, <2>2, <3>1
        <4>2. QED BY <1>1, <2>2, <4>1 DEF Has, LeftOut
      <3>2. CASE ~(a < i)
        <4>1. a # i
          BY <2>2
        <4>2. a - 1 \in i .. n - 1 /\ a - 1 \in 1 .. n - 1 /\ (a - 1) + 1 = a
          BY ONLY <1>1, <2>2, <3>2, <4>1
        <4>3. QED BY <1>1, <2>2, <4>2 DEF Has, LeftOut
      <3>3. QED BY <3>1, <3>2
    <2>3. QED BY <1>1, <2>1, <2>2 DEF Has
  <1>4. Once(t)
    <2>1. SUFFICES ASSUME NEW j \in 1 .. n - 1, NEW k \in 1 .. n - 1, t[j] = t[k] PROVE j = k
      BY <1>1 DEF Once
    <2>2. PICK a \in 1 .. n : t[j] = s[a] /\ a = IF j < i THEN j ELSE j + 1
      BY <1>2
    <2>3. PICK c \in 1 .. n : t[k] = s[c] /\ c = IF k < i THEN k ELSE k + 1
      BY <1>2
    <2>4. a = c
      BY <1>1, <2>1, <2>2, <2>3 DEF Once
    <2>5. QED BY ONLY <1>1, <2>1, <2>2, <2>3, <2>4
  <1>5. QED BY <1>3, <1>4

LEMMA LeftOutAlong ==
  ASSUME NEW E, NEW nil, NEW nx, NEW s \in Seq(E), NEW t \in Seq(E),
         NEW i \in 1 .. Len(s), LeftOut(t, s, i),
         \A a \in 1 .. Len(s) : a # i /\ a # i - 1 => nx[s[a]] = Nth(s, a + 1, nil),
         i > 1 => nx[s[i - 1]] = Nth(s, i + 1, nil)
  PROVE  Along(nx, t, nil)
  <1>1. PICK n \in Nat : n = Len(s) /\ n - 1 = Len(t) /\ i \in 1 .. n /\ i \in Nat
    <2>1. Len(s) \in Nat /\ Len(t) = Len(s) - 1
      BY DEF LeftOut
    <2>2. PICK n \in Nat : n = Len(s) /\ n - 1 = Len(t)
      BY ONLY <2>1
    <2>3. i \in 1 .. n /\ i \in Nat
      BY <2>2
    <2>4. QED BY <2>2, <2>3
  <1>2. /\ \A j \in 1 .. i - 1 : t[j] = s[j]
        /\ \A j \in i .. n - 1 : t[j] = s[j + 1]
    BY <1>1 DEF LeftOut
  <1>3. SUFFICES ASSUME NEW j \in 1 .. n - 1 PROVE nx[t[j]] = Nth(t, j + 1, nil)
    BY <1>1 DEF Along
  <1>4. CASE j < i - 1
    <2>1. /\ j \in 1 .. i - 1 /\ j + 1 \in 1 .. i - 1 /\ j \in 1 .. n /\ j + 1 \in 1 .. n
          /\ j + 1 \in 1 .. n - 1 /\ j # i /\ j # i - 1
      BY ONLY <1>1, <1>3, <1>4
    <2>2. QED BY <1>1, <1>2, <2>1 DEF Nth
  <1>5. CASE j = i - 1
    <2>1. i > 1 /\ j \in 1 .. i - 1 /\ j + 1 = i
      BY ONLY <1>1, <1>3, <1>5
    <2>2. nx[t[j]] = Nth(s, i + 1, nil)
      BY <1>2, <1>5, <2>1
    <2>3. CASE i = n
      <3>1. i + 1 \notin 1 .. n /\ i \notin 1 .. n - 1
        BY ONLY <1>1, <2>3
      <3>2. QED BY <1>1, <2>1, <2>2, <3>1 DEF Nth
    <2>4. CASE i # n
      <3>1. i + 1 \in 1 .. n /\ i \in 1 .. n - 1 /\ i \in i .. n - 1
        BY ONLY <1>1, <2>4
      <3>2. t[i] = s[i + 1]
        BY <1>2, <3>1
      <3>3. QED BY <1>1, <2>1, <2>2, <3>1, <3>2 DEF Nth
    <2>5. QED BY <2>3, <2>4
  <1>6. CASE i <= j
    <2>1. j \in i .. n - 1 /\ j + 1 \in 1 .. n /\ j + 1 # i /\ j + 1 # i - 1
      BY ONLY <1>1, <1>3, <1>6
    <2>2. t[j] = s[j + 1]
      BY <1>2, <2>1
    <2>3. nx[t[j]] = Nth(s, (j + 1) + 1, nil)
      BY <1>1, <2>1, <2>2
    <2>4. CASE j = n - 1
      <3>1. (j + 1) + 1 \notin 1 .. n /\ j + 1 \notin 1 .. n - 1
        BY ONLY <1>1, <1>3, <2>4
      <3>2. QED BY <1>1, <2>3, <3>1 DEF Nth
    <2>5. CASE j # n - 1
      <3>1. (j + 1) + 1 \in 1 .. n /\ j + 1 \in 1 .. n - 1 /\ j + 1 \in i .. n - 1
        BY ONLY <1>1, <1>3, <2>1, <2>5
      <3>2. t[j + 1] = s[(j + 1) + 1]
        BY <1>2, <3>1
      <3>3. QED BY <1>1, <2>3, <3>1, <3>2 DEF Nth
    <2>6. QED BY <2>4, <2>5
  <1>7. QED
    <2>1. j < i - 1 \/ j = i - 1 \/ i <= j
      BY ONLY <1>1, <1>3
    <2>2. QED BY <1>4, <1>5, <1>6, <2>1

LEMMA LeftOutEnds ==
  ASSUME NEW E, NEW s \in Seq(E), NEW t \in Seq(E),
         NEW i \in 1 .. Len(s), LeftOut(t, s, i)
  PROVE  \A nil : /\ Nth(t, 1, nil) = IF i = 1 THEN Nth(s, 2, nil) ELSE Nth(s, 1, nil)
                  /\ Nth(t, Len(t), nil) = IF i = Len(s) THEN Nth(s, i - 1, nil) ELSE Nth(s, Len(s), nil)
  <1> SUFFICES ASSUME NEW nil
               PROVE  /\ Nth(t, 1, nil) = IF i = 1 THEN Nth(s, 2, nil) ELSE Nth(s, 1, nil)
                      /\ Nth(t, Len(t), nil) = IF i = Len(s) THEN Nth(s, i - 1, nil) ELSE Nth(s, Len(s), nil)
    OBVIOUS
  <1>7. Len(s) \in Nat /\ Len(t) = Len(s) - 1
    BY DEF LeftOut
  <1>1. PICK n \in Nat : n = Len(s) /\ n - 1 = Len(t) /\ i \in 1 .. n /\ i \in Nat
    BY <1>7
  <1>2. /\ \A j \in 1 .. i - 1 : t[j] = s[j]
        /\ \A j \in i .. n - 1 : t[j] = s[j + 1]
    BY <1>1 DEF LeftOut
  <1>3. CASE n = 1
    <2>1. /\ i = 1 /\ i = n /\ 2 \notin 1 .. n /\ i - 1 \notin 1 .. n /\ 1 \notin 1 .. n - 1
          /\ n - 1 \notin 1 .. n - 1
      BY ONLY <1>1, <1>3
    <2>2. QED BY <1>1, <2>1 DEF Nth
  <1>4. CASE n # 1
    <2>1. /\ 1 \in 1 .. n - 1 /\ 2 \in 1 .. n /\ 1 \in 1 .. n /\ n - 1 \in 1 .. n - 1
          /\ n - 1 \in 1 .. n /\ n \in 1 .. n /\ (n - 1) + 1 = n /\ 1 + 1 = 2
      BY ONLY <1>1, <1>4
    <2>2. t[1] = IF i = 1 THEN s[2] ELSE s[1]
      <3>1. CASE i = 1
        BY <1>2, <2>1, <3>1
      <3>2. CASE i # 1
        <4>1. 1 \in 1 .. i - 1
          BY ONLY <1>1, <3>2
        <4>2. QED BY <1>2, <3>2, <4>1
      <3>3. QED BY <3>1, <3>2
    <2>3. t[n - 1] = IF i = n THEN s[n - 1] ELSE s[n]
      <3>1. CASE i = n
        BY <1>2, <2>1, <3>1
      <3>2. CASE i # n
        <4>1. n - 1 \in i .. n - 1
          BY ONLY <1>1, <3>2
        <4>2. QED BY <1>2, <2>1, <3>2, <4>1
      <3>3. QED BY <3>1, <3>2
    <2>4. QED BY <1>1, <2>1, <2>2, <2>3 DEF Nth
  <1>5. QED BY <1>3, <1>4

\* The pointers of the heads, hd, and of the entries, nx, lead through the sequences S, no
\* entry is in two places, and only those of Q, which are in no list, lead on to others.
Leads(hd, nx, S, Q, H, E, nil) ==
  /\ S \in [H -> Seq(E)] /\ nx \in [E -> E \cup {nil}]
  /\ \A h \in H : Once(S[h])
  /\ \A h, k \in H : h # k => \A e : ~(Has(S[h], e) /\ Has(S[k], e))
  /\ \A h \in H : Along(nx, S[h], nil)
  /\ \A h \in H : /\ hd[h].first = Nth(S[h], 1, nil)
                  /\ hd[h].last = Nth(S[h], Len(S[h]), nil)
  /\ \A e \in E \ Q : (\A h \in H : ~Has(S[h], e)) => nx[e] = nil

\* A list q put into that of h before its i-th entry.
Puts(hd, nx, S, Q, hd2, nx2, S2, h, i, q, H, E, nil) ==
  /\ Leads(hd, nx, S, Q, H, E, nil)
  /\ h \in H /\ i \in 1 .. Len(S[h]) + 1
  /\ q \in Seq(E) /\ Len(q) >= 1 /\ Once(q) /\ \A e \in Q : Has(q, e)
  /\ \A k \in H : \A e : ~(Has(S[k], e) /\ Has(q, e))
  /\ \A b \in 1 .. Len(q) : b # Len(q) => nx[q[b]] = q[b + 1]
  /\ nx2 \in [E -> E \cup {nil}] /\ S2 \in [H -> Seq(E)]
  /\ PutIn(S2[h], S[h], q, i)
  /\ \A k \in H \ {h} : /\ S2[k] = S[k]
                        /\ hd2[k].first = hd[k].first /\ hd2[k].last = hd[k].last
  /\ hd2[h].first = IF i = 1 THEN q[1] ELSE hd[h].first
  /\ hd2[h].last = IF i = Len(S[h]) + 1 THEN q[Len(q)] ELSE hd[h].last
  /\ nx2[q[Len(q)]] = Nth(S[h], i, nil)
  /\ i > 1 => nx2[S[h][i - 1]] = q[1]
  /\ \A x \in E : x # q[Len(q)] /\ (i > 1 => x # S[h][i - 1]) => nx2[x] = nx[x]

LEMMA SplicedIn ==
  ASSUME NEW H, NEW E, NEW nil, NEW hd, NEW nx, NEW S, NEW q, NEW Q, NEW h, NEW i,
         NEW hd2, NEW nx2, NEW S2, Puts(hd, nx, S, Q, hd2, nx2, S2, h, i, q, H, E, nil)
  PROVE  Leads(hd2, nx2, S2, {}, H, E, nil)
  <1> USE DEF Puts
  <1>1. /\ S \in [H -> Seq(E)] /\ \A k \in H : Once(S[k])
        /\ \A k, l \in H : k # l => \A e : ~(Has(S[k], e) /\ Has(S[l], e))
        /\ \A k \in H : Along(nx, S[k], nil)
        /\ \A k \in H : /\ hd[k].first = Nth(S[k], 1, nil)
                        /\ hd[k].last = Nth(S[k], Len(S[k]), nil)
        /\ \A e \in E \ Q : (\A k \in H : ~Has(S[k], e)) => nx[e] = nil
    BY DEF Leads
  <1>2. PICK s \in Seq(E), t \in Seq(E) : s = S[h] /\ t = S2[h]
    BY <1>1
  <1>3. /\ \A e : Has(t, e) <=> Has(s, e) \/ Has(q, e)
        /\ Once(t)
    BY <1>1, <1>2, PutInHas
  <1>4. /\ Has(q, q[Len(q)]) /\ (i > 1 => Has(s, s[i - 1]))
        /\ \A k \in H : \A a \in 1 .. Len(S[k]) : S[k][a] \in E
        /\ \A b \in 1 .. Len(q) : q[b] \in E
    <2>1. Len(q) \in 1 .. Len(q) /\ (i > 1 => i - 1 \in 1 .. Len(s))
      BY <1>2
    <2>2. \A k \in H : S[k] \in Seq(E)
      BY <1>1
    <2>3. QED BY <2>1, <2>2, ElementOfSeq DEF Has
  <1>5. Along(nx2, t, nil)
    <2>1. ASSUME NEW a \in 1 .. Len(s), a # i - 1 PROVE nx2[s[a]] = Nth(s, a + 1, nil)
      <3>1. s[a] # q[Len(q)] /\ s[a] \in E
        <4>1. Has(s, s[a])
          BY DEF Has
        <4>2. ~Has(q, s[a])
          BY <1>2, <4>1
        <4>3. s[a] \in E
          BY ElementOfSeq
        <4>4. QED BY <1>4, <4>2, <4>3
      <3>2. i > 1 => s[a] # s[i - 1]
        <4>1. i > 1 => i - 1 \in 1 .. Len(s)
          BY <1>2
        <4>2. QED BY <1>1, <1>2, <2>1, <4>1 DEF Once
      <3>3. nx2[s[a]] = nx[s[a]]
        BY <1>2, <3>1, <3>2
      <3>4. QED BY <1>1, <1>2, <3>3 DEF Along
    <2>2. ASSUME NEW b \in 1 .. Len(q), b # Len(q) PROVE nx2[q[b]] = q[b + 1]
      <3>1. Len(q) \in 1 .. Len(q)
        OBVIOUS
      <3>2. q[b] # q[Len(q)] /\ q[b] \in E /\ Has(q, q[b])
        BY <1>4, <2>2, <3>1 DEF Once, Has
      <3>3. i > 1 => q[b] # s[i - 1]
        BY <1>2, <1>4, <3>2
      <3>4. nx2[q[b]] = nx[q[b]]
        BY <1>2, <3>2, <3>3
      <3>5. QED BY <2>2, <3>4
    <2>3. PutIn(t, s, q, i) /\ i \in 1 .. Len(s) + 1
      BY <1>2
    <2>4. nx2[q[Len(q)]] = Nth(s, i, nil) /\ (i > 1 => nx2[s[i - 1]] = q[1])
      BY <1>2
    <2>5. QED BY <2>1, <2>2, <2>3, <2>4, PutInAlong
  <1>6. ASSUME NEW k \in H, k # h PROVE Along(nx2, S2[k], nil)
    <2>1. ASSUME NEW a \in 1 .. Len(S[k]) PROVE nx2[S[k][a]] = nx[S[k][a]]
      <3>1. Has(S[k], S[k][a]) /\ S[k][a] \in E
        BY <1>4 DEF Has
      <3>2. S[k][a] # q[Len(q)] /\ (i > 1 => S[k][a] # s[i - 1])
        BY <1>1, <1>2, <1>4, <1>6, <3>1
      <3>3. QED BY <1>2, <3>1, <3>2
    <2>2. S2[k] = S[k] /\ Along(nx, S[k], nil)
      BY <1>1, <1>6
    <2>3. QED BY <2>1, <2>2 DEF Along
  <1>7. /\ hd2[h].first = Nth(t, 1, nil) /\ hd2[h].last = Nth(t, Len(t), nil)
    <2>3. PutIn(t, s, q, i) /\ i \in 1 .. Len(s) + 1
      BY <1>2
    <2>4. \A x : /\ Nth(t, 1, x) = IF i = 1 THEN q[1] ELSE Nth(s, 1, x)
                 /\ Nth(t, Len(t), x) = IF i = Len(s) + 1 THEN q[Len(q)] ELSE Nth(s, Len(s), x)
      BY ONLY <2>3, PutInEnds, s \in Seq(E), t \in Seq(E), q \in Seq(E), Len(q) >= 1
    <2>1. /\ Nth(t, 1, nil) = IF i = 1 THEN q[1] ELSE Nth(s, 1, nil)
          /\ Nth(t, Len(t), nil) = IF i = Len(s) + 1 THEN q[Len(q)] ELSE Nth(s, Len(s), nil)
      BY <2>4
    <2>2. QED BY <1>1, <1>2, <2>1
  <1>8. ASSUME NEW e \in E, \A k \in H : ~Has(S2[k], e) PROVE nx2[e] = nil
    <2>1. ~Has(s, e) /\ ~Has(q, e)
      BY <1>2, <1>3, <1>8
    <2>2. \A k \in H : ~Has(S[k], e)
      BY <1>2, <1>8, <2>1
    <2>3. nx[e] = nil
      BY <1>1, <2>1, <2>2
    <2>4. e # q[Len(q)] /\ (i > 1 => e # s[i - 1])
      BY <1>4, <2>1
    <2>5. QED BY <1>2, <2>3, <2>4
  <1>9. \A k \in H : Once(S2[k])
    BY <1>1, <1>2, <1>3
  <1>10. \A k, l \in H : k # l => \A e : ~(Has(S2[k], e) /\ Has(S2[l], e))
    <2>1. \A k \in H \ {h} : \A e : ~(Has(S2[k], e) /\ Has(t, e))
      BY <1>1, <1>2, <1>3
    <2>2. QED BY ZenonT(60), <1>1, <1>2, <2>1
  <1>11. \A k \in H : Along(nx2, S2[k], nil)
    BY <1>2, <1>5, <1>6
  <1>12. \A k \in H : /\ hd2[k].first = Nth(S2[k], 1, nil)
                      /\ hd2[k].last = Nth(S2[k], Len(S2[k]), nil)
    BY <1>1, <1>2, <1>7
  <1>13. QED BY <1>8, <1>9, <1>10, <1>11, <1>12 DEF Leads

\* The list of h without its i-th entry.
TakesOut(hd, nx, S, hd2, nx2, S2, h, i, H, E, nil) ==
  /\ Leads(hd, nx, S, {}, H, E, nil)
  /\ h \in H /\ i \in 1 .. Len(S[h])
  /\ nx2 \in [E -> E \cup {nil}] /\ S2 \in [H -> Seq(E)]
  /\ LeftOut(S2[h], S[h], i)
  /\ \A k \in H \ {h} : /\ S2[k] = S[k]
                        /\ hd2[k].first = hd[k].first /\ hd2[k].last = hd[k].last
  /\ hd2[h].first = IF i = 1 THEN Nth(S[h], 2, nil) ELSE hd[h].first
  /\ hd2[h].last = IF i = Len(S[h]) THEN Nth(S[h], i - 1, nil) ELSE hd[h].last
  /\ nx2[S[h][i]] = nil
  /\ i > 1 => nx2[S[h][i - 1]] = Nth(S[h], i + 1, nil)
  /\ \A x \in E : x # S[h][i] /\ (i > 1 => x # S[h][i - 1]) => nx2[x] = nx[x]

LEMMA TakenOut ==
  ASSUME NEW H, NEW E, NEW nil, NEW hd, NEW nx, NEW S, NEW h, NEW i,
         NEW hd2, NEW nx2, NEW S2, TakesOut(hd, nx, S, hd2, nx2, S2, h, i, H, E, nil)
  PROVE  Leads(hd2, nx2, S2, {}, H, E, nil)
  <1> USE DEF TakesOut
  <1>1. /\ S \in [H -> Seq(E)] /\ \A k \in H : Once(S[k])
        /\ \A k, l \in H : k # l => \A e : ~(Has(S[k], e) /\ Has(S[l], e))
        /\ \A k \in H : Along(nx, S[k], nil)
        /\ \A k \in H : /\ hd[k].first = Nth(S[k], 1, nil)
                        /\ hd[k].last = Nth(S[k], Len(S[k]), nil)
        /\ \A e \in E : (\A k \in H : ~Has(S[k], e)) => nx[e] = nil
    BY DEF Leads
  <1>2. PICK s \in Seq(E), t \in Seq(E) : s = S[h] /\ t = S2[h]
    BY <1>1
  <1>3. /\ \A e : Has(t, e) <=> Has(s, e) /\ e # s[i]
        /\ Once(t)
    BY <1>1, <1>2, LeftOutHas
  <1>4. /\ Has(s, s[i]) /\ (i > 1 => Has(s, s[i - 1]) /\ i - 1 \in 1 .. Len(s))
        /\ \A k \in H : \A a \in 1 .. Len(S[k]) : S[k][a] \in E
    <2>1. i \in 1 .. Len(s) /\ (i > 1 => i - 1 \in 1 .. Len(s))
      BY <1>2
    <2>2. \A k \in H : S[k] \in Seq(E)
      BY <1>1
    <2>3. QED BY <2>1, <2>2, ElementOfSeq DEF Has
  <1>5. Along(nx2, t, nil)
    <2>1. ASSUME NEW a \in 1 .. Len(s), a # i, a # i - 1 PROVE nx2[s[a]] = Nth(s, a + 1, nil)
      <3>1. s[a] # s[i] /\ (i > 1 => s[a] # s[i - 1]) /\ s[a] \in E
        BY <1>1, <1>2, <1>4, <2>1 DEF Once
      <3>2. nx2[s[a]] = nx[s[a]]
        BY <1>2, <3>1
      <3>3. QED BY <1>1, <1>2, <3>2 DEF Along
    <2>2. LeftOut(t, s, i) /\ i \in 1 .. Len(s) /\ (i > 1 => nx2[s[i - 1]] = Nth(s, i + 1, nil))
      BY <1>2
    <2>3. QED BY <2>1, <2>2, LeftOutAlong
  <1>6. ASSUME NEW k \in H, k # h PROVE Along(nx2, S2[k], nil)
    <2>1. ASSUME NEW a \in 1 .. Len(S[k]) PROVE nx2[S[k][a]] = nx[S[k][a]]
      <3>1. Has(S[k], S[k][a]) /\ S[k][a] \in E
        BY <1>4 DEF Has
      <3>2. S[k][a] # s[i] /\ (i > 1 => S[k][a] # s[i - 1])
        BY <1>1, <1>2, <1>4, <1>6, <3>1
      <3>3. QED BY <1>2, <3>1, <3>2
    <2>2. S2[k] = S[k] /\ Along(nx, S[k], nil)
      BY <1>1, <1>6
    <2>3. QED BY <2>1, <2>2 DEF Along
  <1>7. /\ hd2[h].first = Nth(t, 1, nil) /\ hd2[h].last = Nth(t, Len(t), nil)
    <2>3. LeftOut(t, s, i) /\ i \in 1 .. Len(s)
      BY <1>2
    <2>1. /\ Nth(t, 1, nil) = IF i = 1 THEN Nth(s, 2, nil) ELSE Nth(s, 1, nil)
          /\ Nth(t, Len(t), nil) = IF i = Len(s) THEN Nth(s, i - 1, nil) ELSE Nth(s, Len(s), nil)
      BY ONLY <2>3, LeftOutEnds, s \in Seq(E), t \in Seq(E)
    <2>2. QED BY <1>1, <1>2, <2>1
  <1>8. ASSUME NEW e \in E, \A k \in H : ~Has(S2[k], e) PROVE nx2[e] = nil
    <2>1. CASE e = s[i]
      BY <1>2, <2>1
    <2>2. CASE e # s[i]
      <3>1. ~Has(s, e)
        BY <1>2, <1>3, <1>8, <2>2
      <3>2. \A k \in H : ~Has(S[k], e)
        BY <1>2, <1>8, <3>1
      <3>3. nx[e] = nil
        BY <1>1, <3>2
      <3>4. e # s[i] /\ (i > 1 => e # s[i - 1])
        BY <1>4, <3>1
      <3>5. QED BY <1>2, <3>3, <3>4
    <2>3. QED BY <2>1, <2>2
  <1>9. \A k \in H : Once(S2[k])
    BY <1>1, <1>2, <1>3
  <1>10. \A k, l \in H : k # l => \A e : ~(Has(S2[k], e) /\ Has(S2[l], e))
    <2>1. \A k \in H \ {h} : \A e : ~(Has(S2[k], e) /\ Has(t, e))
      BY <1>1, <1>2, <1>3
    <2>2. QED BY SMTT(60), <1>1, <1>2, <2>1
  <1>11. \A k \in H : Along(nx2, S2[k], nil)
    BY <1>2, <1>5, <1>6
  <1>12. \A k \in H : /\ hd2[k].first = Nth(S2[k], 1, nil)
                      /\ hd2[k].last = Nth(S2[k], Len(S2[k]), nil)
    BY SMTT(60), <1>1, <1>2, <1>7
  <1>13. QED BY <1>8, <1>9, <1>10, <1>11, <1>12 DEF Leads

\* A head whose entries, Q, are taken away all at once.
TakesAll(hd, nx, S, hd2, S2, h, Q, H, E, nil) ==
  /\ Leads(hd, nx, S, {}, H, E, nil)
  /\ h \in H /\ S2 \in [H -> Seq(E)]
  /\ \A e \in E : e \in Q <=> Has(S[h], e)
  /\ S2[h] = <<>> /\ hd2[h].first = nil /\ hd2[h].last = nil
  /\ \A k \in H \ {h} : /\ S2[k] = S[k]
                        /\ hd2[k].first = hd[k].first /\ hd2[k].last = hd[k].last

LEMMA TakenAll ==
  ASSUME NEW H, NEW E, NEW nil, NEW hd, NEW nx, NEW S, NEW h, NEW hd2, NEW S2, NEW Q,
         TakesAll(hd, nx, S, hd2, S2, h, Q, H, E, nil)
  PROVE  /\ Leads(hd2, nx, S2, Q, H, E, nil)
         /\ \A k \in H : \A e : ~(Has(S2[k], e) /\ Has(S[h], e))
  <1> USE DEF TakesAll
  <1>1. /\ S \in [H -> Seq(E)] /\ nx \in [E -> E \cup {nil}] /\ \A k \in H : Once(S[k])
        /\ \A k, l \in H : k # l => \A e : ~(Has(S[k], e) /\ Has(S[l], e))
        /\ \A k \in H : Along(nx, S[k], nil)
        /\ \A k \in H : /\ hd[k].first = Nth(S[k], 1, nil)
                        /\ hd[k].last = Nth(S[k], Len(S[k]), nil)
        /\ \A e \in E : (\A k \in H : ~Has(S[k], e)) => nx[e] = nil
    BY DEF Leads
  <1>2. /\ Once(<<>>) /\ Along(nx, <<>>, nil) /\ \A e : ~Has(<<>>, e)
        /\ Nth(<<>>, 1, nil) = nil /\ Nth(<<>>, Len(<<>>), nil) = nil
    BY DEF Once, Along, Has, Nth
  <1>3. \A k \in H : Once(S2[k]) /\ Along(nx, S2[k], nil)
    BY <1>1, <1>2
  <1>9. \A k \in H : S2[k] = S[k] \/ S2[k] = <<>>
    OBVIOUS
  <1>4. \A k, l \in H : k # l => \A e : ~(Has(S2[k], e) /\ Has(S2[l], e))
    BY ONLY <1>1, <1>2, <1>9
  <1>5. \A k \in H : /\ hd2[k].first = Nth(S2[k], 1, nil)
                     /\ hd2[k].last = Nth(S2[k], Len(S2[k]), nil)
    BY <1>1, <1>2
  <1>6. ASSUME NEW e \in E \ Q, \A k \in H : ~Has(S2[k], e) PROVE nx[e] = nil
    <2>1. \A k \in H : ~Has(S[k], e)
      BY <1>6
    <2>2. QED BY <1>1, <2>1
  <1>7. \A k \in H : \A e : ~(Has(S2[k], e) /\ Has(S[h], e))
    BY <1>1, <1>2
  <1>8. QED BY <1>1, <1>3, <1>4, <1>5, <1>6, <1>7 DEF Leads

\* What a walk along the pointers passes, of n steps.
Passes(f, nx, first, n, nil) ==
  f = [i \in 0 .. n |-> IF i = 0 THEN first
                        ELSE IF f[i - 1] = nil THEN nil ELSE nx[f[i - 1]]]
Passed(f, n, nil) == [i \in {k \in 1 .. n + 1 : f[k - 1] # nil} |-> f[i - 1]]

\* There is such a walk, and it passes what the pointers lead through.
LEMMA WalkPasses ==
  ASSUME NEW E, NEW nil, nil \notin E, NEW nx, NEW n \in Nat, NEW s \in Seq(E), Len(s) <= n,
         Along(nx, s, nil)
  PROVE  /\ \E f : Passes(f, nx, Nth(s, 1, nil), n, nil)
         /\ \A f : Passes(f, nx, Nth(s, 1, nil), n, nil) => Passed(f, n, nil) = s
  <1>1. Len(s) \in Nat /\ \A i \in 1 .. Len(s) : s[i] \in E /\ s[i] # nil
    BY ElementOfSeq
  <1>2. \E f : Passes(f, nx, Nth(s, 1, nil), n, nil)
    <2>1. PICK g : g = [i \in 0 .. n |-> Nth(s, i + 1, nil)]
      OBVIOUS
    <2>2. ASSUME NEW i \in 0 .. n
          PROVE  g[i] = IF i = 0 THEN Nth(s, 1, nil)
                        ELSE IF g[i - 1] = nil THEN nil ELSE nx[g[i - 1]]
      <3>1. CASE i = 0
        BY <2>1, <3>1
      <3>2. CASE i # 0
        <4>1. i - 1 \in 0 .. n /\ (i - 1) + 1 = i /\ i \in Nat
          BY <3>2
        <4>2. g[i] = Nth(s, i + 1, nil) /\ g[i - 1] = Nth(s, i, nil)
          BY <2>1, <4>1
        <4>3. CASE i \in 1 .. Len(s)
          BY <1>1, <3>2, <4>2, <4>3 DEF Nth, Along
        <4>4. CASE i \notin 1 .. Len(s)
          <5>1. i + 1 \notin 1 .. Len(s)
            BY <1>1, <3>2, <4>1, <4>4
          <5>2. QED BY <3>2, <4>2, <4>4, <5>1 DEF Nth
        <4>5. QED BY <4>3, <4>4
      <3>3. QED BY <3>1, <3>2
    <2>3. g = [i \in 0 .. n |-> IF i = 0 THEN Nth(s, 1, nil)
                                ELSE IF g[i - 1] = nil THEN nil ELSE nx[g[i - 1]]]
      BY <2>1, <2>2
    <2>4. QED BY <2>3 DEF Passes
  <1>3. ASSUME NEW f, Passes(f, nx, Nth(s, 1, nil), n, nil)
        PROVE  Passed(f, n, nil) = s
    <2>1. \A i \in 0 .. n : f[i] = IF i = 0 THEN Nth(s, 1, nil)
                                   ELSE IF f[i - 1] = nil THEN nil ELSE nx[f[i - 1]]
      BY <1>3 DEF Passes
    <2>2. PICK Bad \in SUBSET Nat : \A i : i \in Bad <=> i \in 0 .. n /\ f[i] # Nth(s, i + 1, nil)
      <3>1. {i \in 0 .. n : f[i] # Nth(s, i + 1, nil)} \in SUBSET Nat
        OBVIOUS
      <3>2. QED BY <3>1
    <2>3. Bad = {}
      <3>1. SUFFICES ASSUME Bad # {} PROVE FALSE
        OBVIOUS
      <3>2. PICK i \in Bad : \A j \in Bad : i <= j
        BY <3>1, LeastNumber
      <3>3. i \in 0 .. n /\ i \in Nat /\ f[i] # Nth(s, i + 1, nil)
        BY <2>2, <3>2
      <3>4. i # 0
        BY <2>1, <3>3
      <3>5. i - 1 \in 0 .. n /\ ~(i <= i - 1) /\ (i - 1) + 1 = i
        BY <3>3, <3>4
      <3>6. f[i - 1] = Nth(s, i, nil)
        BY <2>2, <3>2, <3>5
      <3>7. f[i] = IF f[i - 1] = nil THEN nil ELSE nx[f[i - 1]]
        BY <2>1, <3>3, <3>4
      <3>8. CASE i \in 1 .. Len(s)
        BY <1>1, <3>3, <3>6, <3>7, <3>8 DEF Nth, Along
      <3>9. CASE i \notin 1 .. Len(s)
        <4>1. i + 1 \notin 1 .. Len(s)
          BY <1>1, <3>3, <3>4, <3>9
        <4>2. QED BY <3>3, <3>6, <3>7, <3>9, <4>1 DEF Nth
      <3>10. QED BY <3>8, <3>9
    <2>4. \A i \in 0 .. n : f[i] = Nth(s, i + 1, nil)
      BY <2>2, <2>3
    <2>5. ASSUME NEW k \in 1 .. n + 1 PROVE f[k - 1] = Nth(s, k, nil)
      <3>1. k - 1 \in 0 .. n /\ (k - 1) + 1 = k
        OBVIOUS
      <3>2. QED BY <2>4, <3>1
    <2>6. {k \in 1 .. n + 1 : f[k - 1] # nil} = 1 .. Len(s)
      <3>1. \A k \in 1 .. Len(s) : k \in 1 .. n + 1
        BY <1>1
      <3>2. QED BY <1>1, <2>5, <3>1 DEF Nth
    <2>7. \A i \in 1 .. Len(s) : f[i - 1] = s[i]
      <3>1. \A k \in 1 .. Len(s) : k \in 1 .. n + 1
        BY <1>1
      <3>2. QED BY <2>5, <3>1 DEF Nth
    <2>8. Passed(f, n, nil) = [i \in 1 .. Len(s) |-> s[i]]
      BY <2>6, <2>7 DEF Passed
    <2>9. s = [i \in 1 .. Len(s) |-> s[i]]
      BY LenProperties
    <2>10. QED BY <2>8, <2>9
  <1>4. QED BY <1>2, <1>3

\* What is left of a sequence behind its p-th element.
Ahead(s, p) == [k \in 1 .. Len(s) - p |-> s[p + k]]

LEMMA AheadIs ==
  ASSUME NEW E, NEW nil, NEW nx, NEW s \in Seq(E), NEW p \in 0 .. Len(s), Along(nx, s, nil)
  PROVE  /\ Ahead(s, p) \in Seq(E) /\ Len(Ahead(s, p)) = Len(s) - p
         /\ Nth(Ahead(s, p), 1, nil) = Nth(s, p + 1, nil)
         /\ Along(nx, Ahead(s, p), nil)
  <1>1. PICK n \in Nat : n = Len(s) /\ p \in 0 .. n /\ p \in Nat /\ n - p \in Nat
    OBVIOUS
  <1>2. \A k \in 1 .. n - p : p + k \in 1 .. n /\ s[p + k] \in E
    <2>1. \A k \in 1 .. n - p : p + k \in 1 .. n
      BY ONLY <1>1
    <2>2. QED BY <1>1, <2>1, ElementOfSeq
  <1>3. PICK t : t = [k \in 1 .. n - p |-> s[p + k]]
    OBVIOUS
  <1>4. t \in Seq(E) /\ Len(t) = n - p
    BY ONLY <1>1, <1>2, <1>3
  <1>5. Nth(t, 1, nil) = Nth(s, p + 1, nil)
    <2>1. 1 \in 1 .. n - p <=> p + 1 \in 1 .. n
      BY ONLY <1>1
    <2>2. QED BY <1>1, <1>3, <1>4, <2>1 DEF Nth
  <1>6. Along(nx, t, nil)
    <2>1. SUFFICES ASSUME NEW k \in 1 .. n - p PROVE nx[t[k]] = Nth(t, k + 1, nil)
      BY <1>4 DEF Along
    <2>2. nx[s[p + k]] = Nth(s, p + k + 1, nil)
      BY <1>1, <1>2 DEF Along
    <2>3. p + (k + 1) = p + k + 1 /\ (k + 1 \in 1 .. n - p <=> p + k + 1 \in 1 .. n)
      BY ONLY <1>1, <2>1
    <2>4. QED BY <1>1, <1>3, <1>4, <2>2, <2>3 DEF Nth
  <1>7. QED BY <1>1, <1>3, <1>4, <1>5, <1>6 DEF Ahead

\* One element further.
LEMMA AheadMoves ==
  ASSUME NEW E, NEW s \in Seq(E), NEW p \in Nat, p < Len(s)
  PROVE  /\ Ahead(s, p) # <<>> /\ Head(Ahead(s, p)) = s[p + 1]
         /\ Tail(Ahead(s, p)) = Ahead(s, p + 1)
  <1>1. PICK n \in Nat : n = Len(s) /\ n - p \in Nat /\ n - p >= 1
    OBVIOUS
  <1>2. PICK t : t = [k \in 1 .. n - p |-> s[p + k]]
    OBVIOUS
  <1>3. \A k \in 1 .. n - p : s[p + k] \in E
    <2>1. \A k \in 1 .. n - p : p + k \in 1 .. n
      BY ONLY <1>1
    <2>2. QED BY <1>1, <2>1, ElementOfSeq
  <1>4. t \in Seq(E) /\ Len(t) = n - p /\ t[1] = s[p + 1]
    BY ONLY <1>1, <1>2, <1>3
  <1>5. t # <<>> /\ Head(t) = t[1]
    BY <1>1, <1>4
  <1>6. Tail(t) = [k \in 1 .. n - (p + 1) |-> s[p + 1 + k]]
    <2>1. Tail(t) \in Seq(E) /\ Len(Tail(t)) = n - p - 1 /\ \A k \in 1 .. n - p - 1 : Tail(t)[k] = t[k + 1]
      BY <1>1, <1>4, HeadTailProperties
    <2>2. n - (p + 1) = n - p - 1
      BY <1>1
    <2>3. \A k \in 1 .. n - p - 1 : Tail(t)[k] = s[p + 1 + k]
      <3>1. \A k \in 1 .. n - p - 1 : k + 1 \in 1 .. n - p /\ p + (k + 1) = p + 1 + k
        BY ONLY <1>1
      <3>2. QED BY <1>2, <2>1, <3>1
    <2>4. Tail(t) = [k \in 1 .. Len(Tail(t)) |-> Tail(t)[k]]
      BY ONLY <2>1, LenProperties
    <2>5. QED BY ONLY <2>1, <2>2, <2>3, <2>4
  <1>7. QED BY <1>1, <1>2, <1>4, <1>5, <1>6 DEF Ahead

\* A sequence cut into two, with another one between, or with one element left out.
LEMMA CutAndJoined ==
  ASSUME NEW E, NEW s \in Seq(E), NEW q \in Seq(E), NEW i \in 1 .. Len(s) + 1
  PROVE  LET t == SubSeq(s, 1, i - 1) \o q \o SubSeq(s, i, Len(s))
         IN  t \in Seq(E) /\ PutIn(t, s, q, i)
  <1>1. PICK n \in Nat, m \in Nat : n = Len(s) /\ m = Len(q) /\ i \in 1 .. n + 1 /\ i \in Nat
    OBVIOUS
  <1>2. PICK a, b : a = SubSeq(s, 1, i - 1) /\ b = SubSeq(s, i, n)
    OBVIOUS
  <1>3. /\ a \in Seq(E) /\ Len(a) = i - 1 /\ \A j \in 1 .. i - 1 : a[j] = s[j]
    <2>1. \A j \in 1 .. i - 1 : j \in 1 .. n
      BY ONLY <1>1
    <2>2. QED BY <1>1, <1>2, <2>1, SubSeqProperties, ElementOfSeq
  <1>4. /\ b \in Seq(E) /\ Len(b) = n - i + 1 /\ \A j \in 1 .. n - i + 1 : b[j] = s[i + j - 1]
    <2>1. \A j \in i .. n : j \in 1 .. n
      BY ONLY <1>1
    <2>2. QED BY <1>1, <1>2, <2>1, SubSeqProperties, ElementOfSeq
  <1>5. PICK c : c = a \o q
    OBVIOUS
  <1>6. /\ c \in Seq(E) /\ Len(c) = i - 1 + m
        /\ \A j \in 1 .. i - 1 + m : c[j] = IF j <= i - 1 THEN a[j] ELSE q[j - (i - 1)]
    BY SMTT(60), <1>1, <1>3, <1>5, ConcatProperties
  <1>7. PICK t : t = c \o b
    OBVIOUS
  <1>8. /\ t \in Seq(E) /\ Len(t) = n + m
        /\ \A j \in 1 .. n + m : t[j] = IF j <= i - 1 + m THEN c[j] ELSE b[j - (i - 1 + m)]
    <2>1. /\ t \in Seq(E) /\ Len(t) = Len(c) + Len(b)
          /\ \A j \in 1 .. Len(c) + Len(b) : t[j] = IF j <= Len(c) THEN c[j] ELSE b[j - Len(c)]
      BY ONLY <1>4, <1>6, <1>7, ConcatProperties
    <2>2. Len(c) = i - 1 + m /\ Len(c) + Len(b) = n + m
      BY ONLY <1>1, <1>4, <1>6
    <2>3. QED BY ONLY <2>1, <2>2
  <1>9. PutIn(t, s, q, i)
    <2>1. ASSUME NEW j \in 1 .. i - 1 PROVE t[j] = s[j]
      <3>1. j \in 1 .. n + m /\ j <= i - 1 + m /\ j \in 1 .. i - 1 + m /\ j <= i - 1
        BY ONLY <1>1, <2>1
      <3>2. QED BY <1>3, <1>6, <1>8, <3>1
    <2>2. ASSUME NEW j \in 1 .. m PROVE t[i - 1 + j] = q[j]
      <3>1. PICK d : d = i - 1 + j
        OBVIOUS
      <3>2. d \in 1 .. n + m /\ d <= i - 1 + m /\ d \in 1 .. i - 1 + m /\ ~(d <= i - 1) /\ d - (i - 1) = j
        BY ONLY <1>1, <2>2, <3>1
      <3>3. t[d] = q[j]
        BY ONLY <1>6, <1>8, <3>2
      <3>4. QED BY <3>1, <3>3
    <2>3. ASSUME NEW j \in i .. n PROVE t[m + j] = s[j]
      <3>1. PICK d : d = m + j
        OBVIOUS
      <3>2. PICK k : k = j - i + 1
        OBVIOUS
      <3>3. d \in 1 .. n + m /\ ~(d <= i - 1 + m) /\ d - (i - 1 + m) = k /\ k \in 1 .. n - i + 1 /\ i + k - 1 = j
        BY ONLY <1>1, <2>3, <3>1, <3>2
      <3>4. t[d] = s[j]
        BY ONLY <1>4, <1>8, <3>3
      <3>5. QED BY <3>1, <3>4
    <2>4. QED BY <1>1, <1>8, <2>1, <2>2, <2>3 DEF PutIn
  <1>10. QED BY <1>1, <1>2, <1>5, <1>7, <1>8, <1>9

LEMMA CutAndLeftOut ==
  ASSUME NEW E, NEW s \in Seq(E), NEW i \in 1 .. Len(s)
  PROVE  LET t == SubSeq(s, 1, i - 1) \o <<>> \o SubSeq(s, i + 1, Len(s))
         IN  t \in Seq(E) /\ LeftOut(t, s, i)
  <1>1. PICK n \in Nat : n = Len(s) /\ i \in 1 .. n /\ i \in Nat
    OBVIOUS
  <1>2. PICK a, b : a = SubSeq(s, 1, i - 1) /\ b = SubSeq(s, i + 1, n)
    OBVIOUS
  <1>3. /\ a \in Seq(E) /\ Len(a) = i - 1 /\ \A j \in 1 .. i - 1 : a[j] = s[j]
    <2>1. \A j \in 1 .. i - 1 : j \in 1 .. n
      BY ONLY <1>1
    <2>2. \A j \in 1 .. i - 1 : s[j] \in E
      BY <1>1, <2>1, ElementOfSeq
    <2>3. i - 1 \in Int /\ i - 1 - 1 + 1 = i - 1 /\ (1 <= i - 1 => i - 1 - 1 + 1 = i - 1) /\ (~(1 <= i - 1) => i - 1 = 0)
      BY ONLY <1>1
    <2>4. /\ SubSeq(s, 1, i - 1) \in Seq(E)
          /\ Len(SubSeq(s, 1, i - 1)) = IF 1 <= i - 1 THEN i - 1 - 1 + 1 ELSE 0
          /\ \A j \in 1 .. i - 1 - 1 + 1 : SubSeq(s, 1, i - 1)[j] = s[1 + j - 1]
      BY ONLY <2>2, <2>3, SubSeqProperties
    <2>5. QED BY ONLY <1>1, <1>2, <2>3, <2>4
  <1>4. /\ b \in Seq(E) /\ Len(b) = n - i /\ \A j \in 1 .. n - i : b[j] = s[i + j]
    <2>1. \A j \in i + 1 .. n : j \in 1 .. n
      BY ONLY <1>1
    <2>2. QED BY <1>1, <1>2, <2>1, SubSeqProperties, ElementOfSeq
  <1>5. a \o <<>> = a
    BY <1>3
  <1>6. PICK t : t = a \o b
    OBVIOUS
  <1>7. /\ t \in Seq(E) /\ Len(t) = n - 1
        /\ \A j \in 1 .. n - 1 : t[j] = IF j <= i - 1 THEN a[j] ELSE b[j - (i - 1)]
    <2>1. /\ t \in Seq(E) /\ Len(t) = Len(a) + Len(b)
          /\ \A j \in 1 .. Len(a) + Len(b) : t[j] = IF j <= Len(a) THEN a[j] ELSE b[j - Len(a)]
      BY ONLY <1>3, <1>4, <1>6, ConcatProperties
    <2>2. Len(a) = i - 1 /\ Len(a) + Len(b) = n - 1
      BY ONLY <1>1, <1>3, <1>4
    <2>3. QED BY ONLY <2>1, <2>2
  <1>8. LeftOut(t, s, i)
    <2>1. ASSUME NEW j \in 1 .. i - 1 PROVE t[j] = s[j]
      <3>1. j \in 1 .. n - 1 /\ j <= i - 1
        BY ONLY <1>1, <2>1
      <3>2. QED BY <1>3, <1>7, <3>1
    <2>2. ASSUME NEW j \in i .. n - 1 PROVE t[j] = s[j + 1]
      <3>1. PICK k : k = j - (i - 1)
        OBVIOUS
      <3>2. j \in 1 .. n - 1 /\ ~(j <= i - 1) /\ k \in 1 .. n - i /\ i + k = j + 1
        BY ONLY <1>1, <2>2, <3>1
      <3>3. QED BY <1>4, <1>7, <3>1, <3>2
    <2>3. QED BY <1>1, <1>7, <2>1, <2>2 DEF LeftOut
  <1>9. QED BY <1>1, <1>2, <1>5, <1>6, <1>7, <1>8

\* A sequence in which nothing is twice is no longer than the set is large.
LEMMA OnceFits ==
  ASSUME NEW E, IsFiniteSet(E), NEW s \in Seq(E), Once(s)
  PROVE  Len(s) <= Cardinality(E)
  <1>1. s \in [1 .. Len(s) -> E] /\ Len(s) \in Nat
    BY LenProperties
  <1>2. s \in Injection(1 .. Len(s), E)
    BY <1>1 DEF Injection, IsInjective, Once
  <1>3. Cardinality(1 .. Len(s)) <= Cardinality(E)
    BY <1>2, FS_Injection
  <1>4. Cardinality(1 .. Len(s)) = Len(s)
    <2>1. Cardinality(1 .. Len(s)) = IF 1 > Len(s) THEN 0 ELSE Len(s) - 1 + 1
      <3>1. 1 \in Int /\ Len(s) \in Int
        BY <1>1
      <3>2. QED BY <3>1, FS_Interval
    <2>2. QED BY <1>1, <2>1
  <1>5. QED BY <1>3, <1>4

----------------------------------------------------------------------------
(* The linked lists: what their pointers and the loop stand for.           *)

Link == INSTANCE LinkedList WITH Entries <- Links, Nil <- NoLink, Rank <- LinkRank

LinkVars == <<head, next, iter>>
LinksKnown == IsFiniteSet(Links) /\ NoLink \notin Links /\ \A e \in Links : LinkRank[e] \in Int


LinkOrNone == Links \cup {NoLink}

\* A loop over the list of h whose __new_prev is its p-th entry, or nothing if p is 0: it
\* stands at that entry, or has removed the one it stood at.
IterAt(it, S, h, p) ==
  /\ it \in [over : SUBSET Heads, cur : Links, prev : LinkOrNone, new : LinkOrNone, next : LinkOrNone]
  /\ it.over = {h}
  /\ it.new = Nth(S[h], p, NoLink) /\ it.next = Nth(S[h], p + 1, NoLink)
  /\ \/ it.cur = it.new /\ p >= 1 /\ it.prev = Nth(S[h], p - 1, NoLink)
     \/ \A k \in Heads : ~Has(S[k], it.cur)

\* The heads hd, the pointers nx and the loop it stand for the sequences S.
LinkFits(hd, nx, it, S) ==
  /\ hd \in [Heads -> [first : LinkOrNone, last : LinkOrNone]]
  /\ Leads(hd, nx, S, {}, Heads, Links, NoLink)
  /\ it = Link!NoIter \/ \E h \in Heads : \E p \in 0 .. Len(S[h]) : IterAt(it, S, h, p)

LinkInv == \E S : LinkFits(head, next, iter, S)

ListsOf(hd, nx) == [h \in Heads |-> Link!Walk(nx, hd[h].first)]
LoopOf(nx, it) ==
  [over |-> it.over, cur |-> IF it.cur = NoLink THEN <<>> ELSE <<it.cur>>,
   ahead |-> Link!Walk(nx, it.next)]

LEMMA LinkCardinality == Link!Cardinality(Links) = Cardinality(Links)
  BY Zenon DEF Link!Cardinality, Cardinality

LEMMA LinkRange ==
  ASSUME NEW s \in Seq(Links)
  PROVE  \A e : e \in Link!Range(s) <=> Has(s, e)
  BY LenProperties DEF Link!Range, Has

\* Walk follows the pointers to the end.
LEMMA WalkIs ==
  ASSUME LinksKnown, NEW nx, NEW s \in Seq(Links), Once(s), Along(nx, s, NoLink)
  PROVE  Link!Walk(nx, Nth(s, 1, NoLink)) = s
  <1> DEFINE n == Cardinality(Links)
             Way(f) == f = [i \in 0 .. n |-> IF i = 0 THEN Nth(s, 1, NoLink)
                                             ELSE IF f[i - 1] = NoLink THEN NoLink ELSE nx[f[i - 1]]]
             way == CHOOSE f : Way(f)
  <1>1. n \in Nat /\ Len(s) <= n
    BY OnceFits, FS_CardinalityType DEF LinksKnown
  <1>2. Link!Walk(nx, Nth(s, 1, NoLink)) = Passed(way, n, NoLink)
    BY LinkCardinality DEF Link!Walk, Passed
  <1>3. \A f : Way(f) <=> Passes(f, nx, Nth(s, 1, NoLink), n, NoLink)
    BY DEF Passes
  <1> HIDE DEF n, Way
  <1>4. /\ \E f : Passes(f, nx, Nth(s, 1, NoLink), n, NoLink)
        /\ \A f : Passes(f, nx, Nth(s, 1, NoLink), n, NoLink) => Passed(f, n, NoLink) = s
    BY <1>1, WalkPasses DEF LinksKnown
  <1>5. Way(way)
    BY <1>3, <1>4
  <1> HIDE DEF way
  <1>6. QED BY <1>2, <1>3, <1>4, <1>5

\* What they stand for is what the lists and the loop are seen to be.
LEMMA LinkSeen ==
  ASSUME LinksKnown, NEW hd, NEW nx, NEW it, NEW S, LinkFits(hd, nx, it, S)
  PROVE  /\ S \in [Heads -> Seq(Links)]
         /\ ListsOf(hd, nx) = S
         /\ it = Link!NoIter => LoopOf(nx, it) = [over |-> {}, cur |-> <<>>, ahead |-> <<>>]
         /\ \A h \in Heads : \A p \in 0 .. Len(S[h]) : IterAt(it, S, h, p) =>
              LoopOf(nx, it) = [over |-> {h}, cur |-> <<it.cur>>, ahead |-> Ahead(S[h], p)]
  <1>1. /\ S \in [Heads -> Seq(Links)] /\ \A h \in Heads : S[h] \in Seq(Links)
        /\ \A h \in Heads : Once(S[h]) /\ Along(nx, S[h], NoLink)
        /\ \A h \in Heads : hd[h].first = Nth(S[h], 1, NoLink)
    BY DEF LinkFits, Leads
  <1>2. ListsOf(hd, nx) = S
    <2>1. \A h \in Heads : Link!Walk(nx, hd[h].first) = S[h]
      BY <1>1, WalkIs
    <2>2. QED BY <1>1, <2>1 DEF ListsOf
  <1>3. ASSUME it = Link!NoIter PROVE LoopOf(nx, it) = [over |-> {}, cur |-> <<>>, ahead |-> <<>>]
    <2>1. it.over = {} /\ it.cur = NoLink /\ it.next = NoLink
      BY <1>3 DEF Link!NoIter
    <2>2. PICK s \in Seq(Links) : s = <<>>
      BY EmptySeq
    <2>3. Once(s) /\ Along(nx, s, NoLink) /\ Nth(s, 1, NoLink) = NoLink
      BY <2>2 DEF Once, Along, Nth
    <2>4. Link!Walk(nx, NoLink) = <<>>
      BY <2>2, <2>3, WalkIs
    <2>5. QED BY <2>1, <2>4 DEF LoopOf
  <1>4. ASSUME NEW h \in Heads, NEW p \in 0 .. Len(S[h]), IterAt(it, S, h, p)
        PROVE  LoopOf(nx, it) = [over |-> {h}, cur |-> <<it.cur>>, ahead |-> Ahead(S[h], p)]
    <2>1. it.over = {h} /\ it.cur # NoLink /\ it.next = Nth(S[h], p + 1, NoLink)
      BY <1>4 DEF IterAt, LinksKnown
    <2>2. PICK s \in Seq(Links) : s = S[h] /\ Once(s) /\ Along(nx, s, NoLink) /\ p \in 0 .. Len(s)
      BY <1>1
    <2>3. /\ Ahead(s, p) \in Seq(Links) /\ Len(Ahead(s, p)) = Len(s) - p
          /\ Nth(Ahead(s, p), 1, NoLink) = Nth(s, p + 1, NoLink)
          /\ Along(nx, Ahead(s, p), NoLink)
      BY <2>2, AheadIs, Zenon
    <2>4. Once(Ahead(s, p))
      <3>1. PICK n \in Nat : n = Len(s) /\ p \in 0 .. n /\ p \in Nat
        BY <2>2
      <3>2. SUFFICES ASSUME NEW i \in 1 .. n - p, NEW j \in 1 .. n - p, s[p + i] = s[p + j]
                     PROVE  i = j
        BY <2>3, <3>1 DEF Once, Ahead
      <3>3. p + i \in 1 .. n /\ p + j \in 1 .. n /\ (p + i = p + j => i = j)
        BY ONLY <3>1, <3>2
      <3>4. QED BY <2>2, <3>1, <3>2, <3>3 DEF Once
    <2>5. Link!Walk(nx, it.next) = Ahead(s, p)
      BY <2>1, <2>2, <2>3, <2>4, WalkIs
    <2>6. QED BY <2>1, <2>2, <2>5 DEF LoopOf
  <1>5. QED BY <1>1, <1>2, <1>3, <1>4

\* Steps of Lists, as they are seen.
LEMMA SeenOutside ==
  ASSUME NEW S \in [Heads -> Seq(Links)], ListsOf(head, next) = S, NEW e \in Links,
         \A k \in Heads : ~Has(S[k], e)
  PROVE  e \in Link!Promised!Outside
  <1>1. \A k \in Heads : [x \in Heads |-> Link!In(x)][k] = S[k] /\ DOMAIN S[k] = 1 .. Len(S[k])
    BY LenProperties DEF ListsOf, Link!In
  <1>2. \A k \in Heads : e \notin {[x \in Heads |-> Link!In(x)][k][j] :
                                    j \in DOMAIN [x \in Heads |-> Link!In(x)][k]}
    <2>1. \A k \in Heads : e \notin {S[k][j] : j \in DOMAIN S[k]}
      BY <1>1 DEF Has
    <2>2. QED BY <1>1, <2>1
  <1>3. QED BY <1>2, Zenon DEF Link!Promised!Outside

LEMMA SeenInsert ==
  ASSUME NEW S \in [Heads -> Seq(Links)], NEW h \in Heads, NEW e \in Links,
         \A k \in Heads : ~Has(S[k], e), NEW i \in 1 .. Len(S[h]) + 1,
         ListsOf(head, next) = S,
         ListsOf(head', next') = [S EXCEPT ![h] = Link!Promised!Spliced(S[h], i, i, <<e>>)]
  PROVE  Link!Promised!Insert(h)
  <1>1. /\ [k \in Heads |-> Link!In(k)] = S
        /\ [k \in Heads |-> Link!In(k)]' = [S EXCEPT ![h] = Link!Promised!Spliced(S[h], i, i, <<e>>)]
    BY DEF ListsOf, Link!In
  <1>2. e \in Link!Promised!Outside
    BY SeenOutside
  <1>4. Link!Promised!Becomes(h, Link!Promised!Spliced([k \in Heads |-> Link!In(k)][h], i, i, <<e>>))
    BY <1>1, Zenon DEF Link!Promised!Becomes
  <1>5. i \in 1 .. Len([k \in Heads |-> Link!In(k)][h]) + 1
    BY <1>1, Zenon
  <1>6. QED BY <1>2, <1>4, <1>5, Zenon DEF Link!Promised!Insert

LEMMA SeenInsertSorted ==
  ASSUME NEW S \in [Heads -> Seq(Links)], NEW h \in Heads, NEW e \in Links,
         \A k \in Heads : ~Has(S[k], e), NEW n \in 0 .. Len(S[h]),
         \A j \in 1 .. n : LinkRank[S[h][j]] < LinkRank[e],
         n # Len(S[h]) => ~(LinkRank[S[h][n + 1]] < LinkRank[e]),
         ListsOf(head, next) = S,
         ListsOf(head', next') = [S EXCEPT ![h] = Link!Promised!Spliced(S[h], n + 1, n + 1, <<e>>)]
  PROVE  Link!Promised!InsertSorted(h)
  <1>1. /\ [k \in Heads |-> Link!In(k)] = S
        /\ [k \in Heads |-> Link!In(k)]' = [S EXCEPT ![h] = Link!Promised!Spliced(S[h], n + 1, n + 1, <<e>>)]
    BY DEF ListsOf, Link!In
  <1>2. e \in Link!Promised!Outside
    BY SeenOutside
  <1> DEFINE Less(T) == {i \in 0 .. Len(T[h]) : \A j \in 1 .. i : LinkRank[T[h][j]] < LinkRank[e]}
             N(T) == CHOOSE i \in Less(T) : \A j \in Less(T) : j <= i
  <1>3. n = N(S)
    <2> DEFINE less == Less(S)
    <2>1. n \in less
      OBVIOUS
    <2>2. ASSUME NEW i \in less PROVE i <= n
      <3>1. SUFFICES ASSUME n < i PROVE FALSE
        BY <2>2
      <3>2. n + 1 \in 1 .. i /\ n # Len(S[h])
        BY <2>2, <3>1
      <3>3. QED BY <2>2, <3>2
    <2>3. \A i \in less : (\A j \in less : j <= i) => i = n
      <3>1. \A i \in less : i \in Nat
        OBVIOUS
      <3> HIDE DEF less
      <3>2. QED BY <2>1, <2>2, <3>1
    <2>4. N(S) = CHOOSE i \in less : \A j \in less : j <= i
      OBVIOUS
    <2> HIDE DEF less, N
    <2>5. QED BY <2>1, <2>2, <2>3, <2>4
  <1> HIDE DEF N
  <1>4. Link!Promised!Becomes(h, Link!Promised!Spliced([k \in Heads |-> Link!In(k)][h],
          N([k \in Heads |-> Link!In(k)]) + 1, N([k \in Heads |-> Link!In(k)]) + 1, <<e>>))
    <2>1. Link!Promised!Becomes(h, Link!Promised!Spliced(S[h], N(S) + 1, N(S) + 1, <<e>>))
      BY <1>1, <1>3, Zenon DEF Link!Promised!Becomes
    <2>2. QED BY <1>1, <2>1, Zenon
  <1>5. QED BY <1>2, <1>4, Zenon DEF Link!Promised!InsertSorted, N, Less

LEMMA SeenRemove ==
  ASSUME NEW S \in [Heads -> Seq(Links)], NEW h \in Heads, NEW i \in 1 .. Len(S[h]),
         ListsOf(head, next) = S,
         ListsOf(head', next') = [S EXCEPT ![h] = Link!Promised!Spliced(S[h], i, i + 1, <<>>)]
  PROVE  Link!Promised!RemoveOne(h)
  <1>1. /\ [k \in Heads |-> Link!In(k)] = S
        /\ [k \in Heads |-> Link!In(k)]' = [S EXCEPT ![h] = Link!Promised!Spliced(S[h], i, i + 1, <<>>)]
    BY DEF ListsOf, Link!In
  <1>2. i \in DOMAIN S[h]
    BY LenProperties
  <1>3. QED BY <1>1, <1>2 DEF Link!Promised!RemoveOne, Link!Promised!Becomes

LEMMA SeenMove ==
  ASSUME NEW S \in [Heads -> Seq(Links)], NEW h \in Heads, NEW from \in Heads, h # from,
         NEW i \in 1 .. Len(S[h]) + 1,
         ListsOf(head, next) = S,
         ListsOf(head', next') = [S EXCEPT ![from] = <<>>,
                                           ![h] = Link!Promised!Spliced(S[h], i, i, S[from])]
  PROVE  Link!Promised!Move(h, from)
  <1>1. /\ [k \in Heads |-> Link!In(k)] = S
        /\ [k \in Heads |-> Link!In(k)]' = [S EXCEPT ![from] = <<>>,
                                           ![h] = Link!Promised!Spliced(S[h], i, i, S[from])]
    BY DEF ListsOf, Link!In
  <1>2. [S EXCEPT ![from] = <<>>, ![h] = Link!Promised!Spliced(@, i, i, S[from])]
          = [S EXCEPT ![from] = <<>>, ![h] = Link!Promised!Spliced(S[h], i, i, S[from])]
    OBVIOUS
  <1>3. QED BY <1>1, <1>2 DEF Link!Promised!Move

NoLoopSeen == [over |-> {}, cur |-> <<>>, ahead |-> <<>>]

LEMMA SeenBetween ==
  ASSUME LoopOf(next, iter) = NoLoopSeen, LoopOf(next', iter') = NoLoopSeen,
         \/ \E h \in Heads : \/ Link!Promised!Insert(h) \/ Link!Promised!InsertSorted(h)
                             \/ Link!Promised!RemoveOne(h)
         \/ \E h, from \in Heads : Link!Promised!Move(h, from)
  PROVE  Link!Promised!Next
  <1>1. Link!Promised!NoLoop = NoLoopSeen
    BY Zenon DEF Link!Promised!NoLoop, NoLoopSeen
  <1>2. Link!Promised!Between
    BY <1>1, Zenon DEF Link!Promised!Between, LoopOf
  <1>3. QED BY <1>2, Zenon DEF Link!Promised!Next

LEMMA SeenBegin ==
  ASSUME NEW S \in [Heads -> Seq(Links)], NEW h \in Heads, Len(S[h]) >= 1,
         ListsOf(head, next) = S, ListsOf(head', next') = S,
         LoopOf(next, iter) = NoLoopSeen,
         LoopOf(next', iter') = [over |-> {h}, cur |-> <<S[h][1]>>, ahead |-> Ahead(S[h], 1)]
  PROVE  Link!Promised!Next
  <1>1. Link!Promised!NoLoop = NoLoopSeen
    BY Zenon DEF Link!Promised!NoLoop, NoLoopSeen
  <1>2. /\ [k \in Heads |-> Link!In(k)] = S
        /\ [k \in Heads |-> Link!In(k)]' = S
    BY Zenon DEF ListsOf, Link!In
  <1>3. S[h] # <<>> /\ Head(S[h]) = S[h][1] /\ Tail(S[h]) = Ahead(S[h], 1)
    <2>1. PICK s \in Seq(Links) : s = S[h] /\ Len(s) >= 1 /\ Len(s) \in Nat
      OBVIOUS
    <2>2. s # <<>> /\ Head(s) = s[1]
      BY <2>1
    <2>3. Ahead(s, 0) = s
      <3>1. s = [k \in 1 .. Len(s) |-> s[k]]
        BY LenProperties
      <3>2. \A k \in 1 .. Len(s) : 0 + k = k
        OBVIOUS
      <3>3. Len(s) - 0 = Len(s)
        BY <2>1
      <3>4. QED BY <3>1, <3>2, <3>3 DEF Ahead
    <2>4. 0 < Len(s) /\ 0 + 1 = 1
      BY <2>1
    <2>5. Tail(Ahead(s, 0)) = Ahead(s, 0 + 1)
      BY <2>4, AheadMoves
    <2>6. QED BY <2>1, <2>2, <2>3, <2>4, <2>5
  <1>4. LoopOf(next', iter') = [over |-> {h}, cur |-> <<Head(S[h])>>, ahead |-> Tail(S[h])]
    BY <1>3
  <1>5. Link!Promised!Begin
    BY <1>1, <1>2, <1>3, <1>4, Zenon DEF Link!Promised!Begin, LoopOf
  <1>6. QED BY <1>5, Zenon DEF Link!Promised!Next

LEMMA SeenAdvance ==
  ASSUME NEW S \in [Heads -> Seq(Links)], NEW h \in Heads, NEW p \in 0 .. Len(S[h]), NEW e,
         ListsOf(head', next') = ListsOf(head, next),
         LoopOf(next, iter) = [over |-> {h}, cur |-> <<e>>, ahead |-> Ahead(S[h], p)],
         LoopOf(next', iter') =
           IF p = Len(S[h]) THEN NoLoopSeen
           ELSE [over |-> {h}, cur |-> <<S[h][p + 1]>>, ahead |-> Ahead(S[h], p + 1)]
  PROVE  Link!Promised!Next
  <1>1. Link!Promised!NoLoop = NoLoopSeen
    BY Zenon DEF Link!Promised!NoLoop, NoLoopSeen
  <1>2. PICK old : old = LoopOf(next, iter)
    OBVIOUS
  <1>3. old # NoLoopSeen
    <2>1. old.over = {h} /\ NoLoopSeen.over = {}
      BY <1>2 DEF NoLoopSeen
    <2>2. QED BY <2>1
  <1>4. LoopOf(next', iter') = IF old.ahead = <<>> THEN NoLoopSeen
                               ELSE [old EXCEPT !.cur = <<Head(old.ahead)>>, !.ahead = Tail(@)]
    <2>1. PICK s \in Seq(Links) : s = S[h] /\ p \in 0 .. Len(s) /\ p \in Nat /\ Len(s) \in Nat
      OBVIOUS
    <2>2. CASE p = Len(s)
      <3>1. 1 .. Len(s) - p = {}
        BY <2>1, <2>2
      <3>2. Ahead(s, p) = <<>>
        <4>1. PICK t : t = [k \in 1 .. 0 |-> s[p + k]]
          OBVIOUS
        <4>2. t \in Seq(Links) /\ Len(t) = 0
          BY <4>1
        <4>3. t = <<>> /\ Len(s) - p = 0
          BY <2>1, <2>2, <4>2, EmptySeq
        <4>4. QED BY <4>1, <4>3 DEF Ahead
      <3>3. QED BY <1>2, <2>1, <2>2, <3>2
    <2>3. CASE p # Len(s)
      <3>1. p < Len(s)
        BY ONLY <2>1, <2>3
      <3>2. /\ Ahead(s, p) # <<>> /\ Head(Ahead(s, p)) = s[p + 1]
            /\ Tail(Ahead(s, p)) = Ahead(s, p + 1)
        BY <2>1, <3>1, AheadMoves
      <3>3. [old EXCEPT !.cur = <<Head(old.ahead)>>, !.ahead = Tail(@)]
              = [over |-> {h}, cur |-> <<s[p + 1]>>, ahead |-> Ahead(s, p + 1)]
        <4>1. PICK a : a = Ahead(s, p)
          OBVIOUS
        <4>2. old = [over |-> {h}, cur |-> <<e>>, ahead |-> a]
          BY <1>2, <2>1, <4>1
        <4>3. [old EXCEPT !.cur = <<Head(old.ahead)>>, !.ahead = Tail(@)]
                = [over |-> {h}, cur |-> <<Head(a)>>, ahead |-> Tail(a)]
          <5>1. PICK x, y : x = <<Head(a)>> /\ y = Tail(a)
            OBVIOUS
          <5>2. old.ahead = a
            BY ONLY <4>2
          <5>3. [old EXCEPT !.cur = x, !.ahead = y] = [over |-> {h}, cur |-> x, ahead |-> y]
            <6>1. PICK o, c : o = {h} /\ c = <<e>>
              OBVIOUS
            <6>2. old = [over |-> o, cur |-> c, ahead |-> a]
              BY ONLY <4>2, <6>1
            <6>3. PICK to : to = [old EXCEPT !.cur = x, !.ahead = y]
              OBVIOUS
            <6>4. /\ to.over = o /\ to.cur = x /\ to.ahead = y
                  /\ DOMAIN to = {"over", "cur", "ahead"}
              BY ONLY <6>2, <6>3
            <6>5. to = [over |-> o, cur |-> x, ahead |-> y]
              BY ONLY <6>2, <6>3, <6>4
            <6>6. QED BY ONLY <6>1, <6>3, <6>5
          <5>4. [old EXCEPT !.cur = <<Head(old.ahead)>>, !.ahead = Tail(@)] = [old EXCEPT !.cur = x, !.ahead = y]
            BY ONLY <5>1, <5>2
          <5>5. QED BY ONLY <5>1, <5>3, <5>4
        <4>4. QED BY ONLY <3>2, <4>1, <4>3
      <3>4. QED BY <1>2, <2>1, <2>3, <3>2, <3>3
    <2>4. QED BY <2>2, <2>3
  <1>5. [k \in Heads |-> Link!In(k)]' = [k \in Heads |-> Link!In(k)]
    BY Zenon DEF ListsOf, Link!In
  <1>6. Link!Promised!Advance
    BY <1>1, <1>2, <1>3, <1>4, <1>5, Zenon DEF Link!Promised!Advance, LoopOf
  <1>7. QED BY <1>6, Zenon DEF Link!Promised!Next

LEMMA SeenRemoveCurrent ==
  ASSUME NEW S \in [Heads -> Seq(Links)], NEW h \in Heads, NEW p \in 1 .. Len(S[h]), NEW a,
         ListsOf(head, next) = S,
         ListsOf(head', next') = [S EXCEPT ![h] = Link!Promised!Spliced(S[h], p, p + 1, <<>>)],
         LoopOf(next, iter) = [over |-> {h}, cur |-> <<S[h][p]>>, ahead |-> a],
         LoopOf(next', iter') = LoopOf(next, iter)
  PROVE  Link!Promised!Next
  <1>1. Link!Promised!NoLoop = NoLoopSeen
    BY Zenon DEF Link!Promised!NoLoop, NoLoopSeen
  <1>2. LoopOf(next, iter) # NoLoopSeen /\ LoopOf(next, iter).over = {h} /\ LoopOf(next, iter).cur = <<S[h][p]>>
    <2>1. LoopOf(next, iter).over = {h} /\ NoLoopSeen.over = {} /\ LoopOf(next, iter).cur = <<S[h][p]>>
      BY DEF NoLoopSeen
    <2>2. QED BY <2>1
  <1>3. /\ [k \in Heads |-> Link!In(k)] = S
        /\ [k \in Heads |-> Link!In(k)]' = [S EXCEPT ![h] = Link!Promised!Spliced(S[h], p, p + 1, <<>>)]
    BY Zenon DEF ListsOf, Link!In
  <1>4. p \in DOMAIN S[h]
    BY LenProperties
  <1>5. /\ h \in LoopOf(next, iter).over /\ p \in DOMAIN [k \in Heads |-> Link!In(k)][h]
        /\ <<[k \in Heads |-> Link!In(k)][h][p]>> = LoopOf(next, iter).cur
    BY <1>2, <1>3, <1>4
  <1>6. Link!Promised!Becomes(h, Link!Promised!Spliced([k \in Heads |-> Link!In(k)][h], p, p + 1, <<>>))
    BY <1>3, Zenon DEF Link!Promised!Becomes
  <1>7. Link!Promised!Change
    BY <1>1, <1>2, <1>5, <1>6, Zenon DEF Link!Promised!Change, LoopOf
  <1>8. QED BY <1>7, Zenon DEF Link!Promised!Next

LEMMA SeenInsertBeforeCurrent ==
  ASSUME NEW S \in [Heads -> Seq(Links)], NEW h \in Heads, NEW p \in 1 .. Len(S[h]), NEW e \in Links,
         \A k \in Heads : ~Has(S[k], e),
         ListsOf(head, next) = S,
         ListsOf(head', next') = [S EXCEPT ![h] = Link!Promised!Spliced(S[h], p, p, <<e>>)],
         LoopOf(next, iter) = [over |-> {h}, cur |-> <<S[h][p]>>, ahead |-> Ahead(S[h], p)],
         LoopOf(next', iter') = LoopOf(next, iter)
  PROVE  Link!Promised!Next
  <1>1. Link!Promised!NoLoop = NoLoopSeen
    BY Zenon DEF Link!Promised!NoLoop, NoLoopSeen
  <1>2. /\ LoopOf(next, iter) # NoLoopSeen /\ LoopOf(next, iter).over = {h}
        /\ LoopOf(next, iter).cur = <<S[h][p]>> /\ LoopOf(next, iter).ahead = Ahead(S[h], p)
    <2>1. /\ LoopOf(next, iter).over = {h} /\ NoLoopSeen.over = {} /\ LoopOf(next, iter).cur = <<S[h][p]>>
          /\ LoopOf(next, iter).ahead = Ahead(S[h], p)
      BY DEF NoLoopSeen
    <2>2. QED BY <2>1
  <1>3. /\ [k \in Heads |-> Link!In(k)] = S
        /\ [k \in Heads |-> Link!In(k)]' = [S EXCEPT ![h] = Link!Promised!Spliced(S[h], p, p, <<e>>)]
    BY Zenon DEF ListsOf, Link!In
  <1>4. e \in Link!Promised!Outside /\ <<e>> # <<S[h][p]>>
    BY SeenOutside DEF Has
  <1>5. Len(S[h]) - Len(Ahead(S[h], p)) = p
    <2>1. PICK s \in Seq(Links) : s = S[h] /\ p \in 1 .. Len(s)
      OBVIOUS
    <2>2. PICK t : t = [k \in 1 .. Len(s) - p |-> s[p + k]]
      OBVIOUS
    <2>3. Len(t) = Len(s) - p
      BY <2>1, <2>2
    <2>4. QED BY <2>1, <2>2, <2>3 DEF Ahead
  <1>6. /\ h \in LoopOf(next, iter).over /\ <<e>> # LoopOf(next, iter).cur
        /\ Len([k \in Heads |-> Link!In(k)][h]) - Len(LoopOf(next, iter).ahead) = p
    BY <1>2, <1>3, <1>4, <1>5
  <1>7. Link!Promised!Becomes(h, Link!Promised!Spliced([k \in Heads |-> Link!In(k)][h], p, p, <<e>>))
    BY <1>3, Zenon DEF Link!Promised!Becomes
  <1>8. Link!Promised!Becomes(h, Link!Promised!Spliced([k \in Heads |-> Link!In(k)][h],
          Len([k \in Heads |-> Link!In(k)][h]) - Len(LoopOf(next, iter).ahead),
          Len([k \in Heads |-> Link!In(k)][h]) - Len(LoopOf(next, iter).ahead), <<e>>))
    BY <1>6, <1>7
  <1>9. Link!Promised!Change
    BY <1>1, <1>2, <1>4, <1>6, <1>8, Zenon DEF Link!Promised!Change, LoopOf
  <1>10. QED BY <1>9, Zenon DEF Link!Promised!Next

----------------------------------------------------------------------------
(* The macros.                                                             *)

HeadType == [Heads -> [first : LinkOrNone, last : LinkOrNone]]

\* An entry e is put into the list of h before its i-th entry.
PutsAt(S, h, e, i) ==
  /\ head' \in HeadType /\ next' \in [Links -> LinkOrNone]
  /\ \A k \in Heads \ {h} : head'[k] = head[k]
  /\ head'[h].first = IF i = 1 THEN e ELSE head[h].first
  /\ head'[h].last = IF i = Len(S[h]) + 1 THEN e ELSE head[h].last
  /\ next'[e] = Nth(S[h], i, NoLink)
  /\ i > 1 => next'[S[h][i - 1]] = e
  /\ \A x \in Links : x # e /\ (i > 1 => x # S[h][i - 1]) => next'[x] = next[x]

\* What the heads and the pointers are in a list.
LEMMA LinkKnows ==
  ASSUME LinksKnown, NEW S, LinkFits(head, next, iter, S), NEW h \in Heads
  PROVE  /\ S[h] \in Seq(Links) /\ Len(S[h]) \in Nat /\ Once(S[h])
         /\ head \in HeadType /\ next \in [Links -> LinkOrNone]
         /\ head[h].first = Nth(S[h], 1, NoLink) /\ head[h].last = Nth(S[h], Len(S[h]), NoLink)
         /\ \A i \in 1 .. Len(S[h]) : /\ S[h][i] \in Links /\ S[h][i] # NoLink
                                     /\ next[S[h][i]] = Nth(S[h], i + 1, NoLink)
         /\ Link!In(h) = S[h]
         /\ \A e : e \in Link!Range(Link!In(h)) <=> Has(S[h], e)
  <1>1. /\ S[h] \in Seq(Links) /\ Len(S[h]) \in Nat /\ Once(S[h])
        /\ head \in HeadType /\ next \in [Links -> LinkOrNone]
        /\ head[h].first = Nth(S[h], 1, NoLink) /\ head[h].last = Nth(S[h], Len(S[h]), NoLink)
        /\ \A i \in 1 .. Len(S[h]) : next[S[h][i]] = Nth(S[h], i + 1, NoLink)
    <2>1. S[h] \in Seq(Links) /\ Len(S[h]) \in Nat
      BY LinkSeen
    <2>2. /\ Once(S[h]) /\ Along(next, S[h], NoLink) /\ next \in [Links -> LinkOrNone]
          /\ head[h].first = Nth(S[h], 1, NoLink) /\ head[h].last = Nth(S[h], Len(S[h]), NoLink)
      BY DEF LinkFits, Leads, LinkOrNone
    <2>3. head \in HeadType
      BY DEF LinkFits, HeadType
    <2>4. QED BY <2>1, <2>2, <2>3 DEF Along
  <1>2. \A i \in 1 .. Len(S[h]) : S[h][i] \in Links /\ S[h][i] # NoLink
    BY <1>1, ElementOfSeq DEF LinksKnown
  <1>3. Link!In(h) = S[h]
    BY <1>1, LinkSeen DEF ListsOf, Link!In
  <1>4. QED BY <1>1, <1>2, <1>3, LinkRange

LEMMA LooseIs ==
  ASSUME LinksKnown, NEW S, LinkFits(head, next, iter, S)
  PROVE  \A e : e \in Link!Loose <=> e \in Links /\ \A h \in Heads : ~Has(S[h], e)
  BY LinkKnows, Zenon DEF Link!Loose

LEMMA HeadPuts ==
  ASSUME LinksKnown, NEW S, LinkFits(head, next, iter, S), NEW h \in Heads, NEW e \in Links,
         Link!InsertHead(h, e)
  PROVE  PutsAt(S, h, e, 1)
  <1>1. PICK s : s = S[h] /\ Len(s) \in Nat
    BY LinkKnows
  <1>2. /\ head \in HeadType /\ next \in [Links -> LinkOrNone]
        /\ head[h].first = Nth(s, 1, NoLink) /\ head[h].last = Nth(s, Len(s), NoLink)
        /\ head[h].first \in LinkOrNone
        /\ \A i \in 1 .. Len(s) : s[i] \in Links /\ s[i] # NoLink
    BY <1>1, LinkKnows DEF HeadType
  <1>3. /\ next' = [next EXCEPT ![e] = head[h].first]
        /\ head' = [head EXCEPT ![h].first = e, ![h].last = IF @ = NoLink THEN e ELSE @]
    BY DEF Link!InsertHead
  <1>4. head[h].last = NoLink <=> Len(s) = 0
    <2>1. Len(s) = 0 \/ Len(s) \in 1 .. Len(s)
      BY <1>1
    <2>2. QED BY <1>2, <2>1 DEF Nth
  <1>5. /\ head' \in HeadType
        /\ \A k \in Heads \ {h} : head'[k] = head[k]
        /\ head'[h].first = e
        /\ head'[h].last = IF head[h].last = NoLink THEN e ELSE head[h].last
    BY <1>2, <1>3 DEF HeadType, LinkOrNone
  <1>6. /\ next' \in [Links -> LinkOrNone]
        /\ next'[e] = Nth(s, 1, NoLink)
        /\ \A x \in Links : x # e => next'[x] = next[x]
    BY <1>2, <1>3
  <1>7. 1 = Len(s) + 1 <=> Len(s) = 0
    BY <1>1
  <1>8. QED BY <1>1, <1>4, <1>5, <1>6, <1>7 DEF PutsAt

LEMMA TailPuts ==
  ASSUME LinksKnown, NEW S, LinkFits(head, next, iter, S), NEW h \in Heads, NEW e \in Links,
         ~Has(S[h], e), next[e] = NoLink, Link!InsertTail(h, e)
  PROVE  PutsAt(S, h, e, Len(S[h]) + 1)
  <1>1. PICK s : s = S[h] /\ Len(s) \in Nat
    BY LinkKnows
  <1>2. /\ head \in HeadType /\ next \in [Links -> LinkOrNone]
        /\ head[h].first = Nth(s, 1, NoLink) /\ head[h].last = Nth(s, Len(s), NoLink)
        /\ \A i \in 1 .. Len(s) : s[i] \in Links /\ s[i] # NoLink
    BY <1>1, LinkKnows
  <1>3. PICK i \in Nat : i = Len(s) + 1 /\ Nth(s, i, NoLink) = NoLink /\ i - 1 = Len(s)
    <2>1. Len(s) + 1 \notin 1 .. Len(s) /\ Len(s) + 1 - 1 = Len(s)
      BY <1>1
    <2>2. QED BY <1>1, <2>1 DEF Nth
  <1>4. CASE Len(s) = 0
    <2>1. head[h].first = NoLink
      <3>1. 1 \notin 1 .. Len(s)
        BY <1>4
      <3>2. QED BY <1>2, <3>1 DEF Nth
    <2>2. head' = [head EXCEPT ![h] = [first |-> e, last |-> e]] /\ next' = next
      BY <2>1 DEF Link!InsertTail
    <2>3. /\ head' \in HeadType
          /\ \A k \in Heads \ {h} : head'[k] = head[k]
          /\ head'[h].first = e /\ head'[h].last = e
      BY <1>2, <2>2 DEF HeadType, LinkOrNone
    <2>4. i = 1 /\ ~(i > 1)
      BY <1>3, <1>4
    <2>5. QED BY <1>1, <1>2, <1>3, <2>2, <2>3, <2>4 DEF PutsAt
  <1>5. CASE Len(s) # 0
    <2>1. 1 \in 1 .. Len(s) /\ Len(s) \in 1 .. Len(s) /\ i # 1
      BY <1>1, <1>3, <1>5
    <2>2. head[h].first # NoLink /\ head[h].last = s[Len(s)] /\ s # <<>>
      BY <1>2, <2>1 DEF Nth
    <2>3. /\ next' = [next EXCEPT ![head[h].last] = e]
          /\ head' = [head EXCEPT ![h].last = e]
      BY <1>1, <2>2 DEF Link!InsertTail
    <2>4. /\ head' \in HeadType
          /\ \A k \in Heads \ {h} : head'[k] = head[k]
          /\ head'[h].first = head[h].first /\ head'[h].last = e
      BY <1>2, <2>3 DEF HeadType, LinkOrNone
    <2>5. s[Len(s)] \in Links /\ s[Len(s)] # e
      BY <1>1, <1>2, <2>1 DEF Has
    <2>6. /\ next' \in [Links -> LinkOrNone]
          /\ next'[e] = NoLink
          /\ next'[s[i - 1]] = e
          /\ \A x \in Links : x # s[i - 1] => next'[x] = next[x]
      BY <1>2, <1>3, <2>2, <2>3, <2>5 DEF LinkOrNone
    <2>7. i > 1
      BY <1>3, <2>1
    <2>8. QED BY <1>1, <1>3, <2>1, <2>4, <2>6, <2>7 DEF PutsAt
  <1>6. QED BY <1>4, <1>5

LEMMA AfterPuts ==
  ASSUME LinksKnown, NEW S, LinkFits(head, next, iter, S), NEW h \in Heads, NEW e \in Links,
         ~Has(S[h], e), NEW j \in 1 .. Len(S[h]), Link!InsertAfter(h, S[h][j], e)
  PROVE  PutsAt(S, h, e, j + 1)
  <1>1. PICK s : s = S[h] /\ Len(s) \in Nat /\ Once(s) /\ j \in 1 .. Len(s)
    BY LinkKnows
  <1>2. /\ head \in HeadType /\ next \in [Links -> LinkOrNone]
        /\ head[h].last = Nth(s, Len(s), NoLink)
        /\ \A i \in 1 .. Len(s) : s[i] \in Links /\ s[i] # NoLink /\ next[s[i]] = Nth(s, i + 1, NoLink)
    BY <1>1, LinkKnows
  <1>3. PICK cur \in Links : cur = s[j] /\ cur # e
    BY <1>1, <1>2 DEF Has
  <1>4. /\ next' = [next EXCEPT ![e] = next[cur], ![cur] = e]
        /\ head' = [head EXCEPT ![h].last = IF @ = cur THEN e ELSE @]
    BY <1>1, <1>3 DEF Link!InsertAfter
  <1>5. head[h].last = cur <=> j = Len(s)
    <2>1. Len(s) \in 1 .. Len(s)
      BY <1>1
    <2>2. QED BY <1>1, <1>2, <1>3, <2>1 DEF Nth, Once
  <1>6. /\ head' \in HeadType
        /\ \A k \in Heads \ {h} : head'[k] = head[k]
        /\ head'[h].first = head[h].first
        /\ head'[h].last = IF head[h].last = cur THEN e ELSE head[h].last
    BY <1>2, <1>4 DEF HeadType, LinkOrNone
  <1>7. /\ next' \in [Links -> LinkOrNone]
        /\ next'[e] = Nth(s, j + 1, NoLink) /\ next'[cur] = e
        /\ \A x \in Links : x # e /\ x # cur => next'[x] = next[x]
    BY <1>1, <1>2, <1>3, <1>4 DEF LinkOrNone
  <1>8. j + 1 - 1 = j /\ j + 1 # 1 /\ (j + 1 = Len(s) + 1 <=> j = Len(s))
    BY <1>1
  <1>9. QED BY <1>1, <1>3, <1>5, <1>6, <1>7, <1>8 DEF PutsAt

LEMMA LinkMin == \A T : Link!Min(T) = Min(T)
  BY Zenon DEF Link!Min, Min

\* By its rank: behind the lesser entries at the front.
LEMMA SortPuts ==
  ASSUME LinksKnown, NEW S, LinkFits(head, next, iter, S), NEW h \in Heads, NEW e \in Links,
         ~Has(S[h], e), next[e] = NoLink, Link!InsertSortAlpha(h, e)
  PROVE  \E n \in 0 .. Len(S[h]) :
           /\ PutsAt(S, h, e, n + 1)
           /\ \A j \in 1 .. n : LinkRank[S[h][j]] < LinkRank[e]
           /\ n # Len(S[h]) => ~(LinkRank[S[h][n + 1]] < LinkRank[e])
  <1>1. PICK s \in Seq(Links) : s = S[h] /\ Len(s) \in Nat
    BY LinkKnows
  <1>2. /\ \A i \in 1 .. Len(s) : s[i] \in Links
        /\ Link!In(h) = s /\ head[h].first = Nth(s, 1, NoLink)
    BY <1>1, LinkKnows
  <1> DEFINE I == {i \in 1 .. Len(s) : LinkRank[s[i]] >= LinkRank[e]}
             prev == (IF I # {} THEN Min(I) ELSE 0) - 1
  <1>3. IF s = <<>> THEN head' = [head EXCEPT ![h] = [first |-> e, last |-> e]] /\ UNCHANGED next
        ELSE IF prev = 0 THEN Link!InsertHead(h, e)
        ELSE IF prev < 0 THEN Link!InsertTail(h, e)
        ELSE Link!InsertAfter(h, s[prev], e)
    BY <1>2, LinkMin DEF Link!InsertSortAlpha, Link!SelectInSeq
  <1>4. CASE I = {}
    <2>1. \A j \in 1 .. Len(s) : LinkRank[s[j]] < LinkRank[e]
      BY <1>2, <1>4 DEF LinksKnown
    <2>2. prev = -1
      BY <1>4
    <2> HIDE DEF I, prev
    <2>3. Link!InsertTail(h, e)
      <3>1. CASE s = <<>>
        <4>1. head[h].first = NoLink
          BY <1>2, <3>1 DEF Nth
        <4>2. QED BY <1>3, <3>1, <4>1 DEF Link!InsertTail
      <3>2. CASE s # <<>>
        BY <1>3, <2>2, <3>2
      <3>3. QED BY <3>1, <3>2
    <2>4. PutsAt(S, h, e, Len(S[h]) + 1)
      BY <2>3, TailPuts
    <2>5. Len(s) \in 0 .. Len(s)
      BY <1>1
    <2>6. QED BY <1>1, <2>1, <2>4, <2>5
  <1>5. CASE I # {}
    <2>1. Min(I) \in I /\ \A i \in I : Min(I) <= i
      <3>1. I \subseteq Nat
        OBVIOUS
      <3> HIDE DEF I
      <3>2. QED BY <1>5, <3>1, MinIsLeast
    <2>2. PICK m : m = Min(I)
      OBVIOUS
    <2>3. PICK n : n = m - 1
      OBVIOUS
    <2>4. /\ m \in 1 .. Len(s) /\ n \in 0 .. Len(s) /\ n + 1 = m /\ n \in Nat
          /\ LinkRank[s[m]] >= LinkRank[e]
      BY <1>1, <2>1, <2>2, <2>3
    <2>5. ASSUME NEW j \in 1 .. n PROVE LinkRank[s[j]] < LinkRank[e]
      <3>1. j \in 1 .. Len(s) /\ ~(m <= j)
        BY <2>3, <2>4
      <3>2. j \notin I
        BY <2>1, <2>2, <3>1
      <3>3. ~(LinkRank[s[j]] >= LinkRank[e])
        BY <3>1, <3>2
      <3>4. QED BY <1>2, <3>1, <3>3 DEF LinksKnown
    <2>6. ~(LinkRank[s[n + 1]] < LinkRank[e])
      BY <1>2, <2>4 DEF LinksKnown
    <2>7. PutsAt(S, h, e, n + 1)
      <3>1. s # <<>>
        BY <2>4
      <3>2. prev = n
        BY <1>5, <2>2, <2>3
      <3> HIDE DEF I, prev
      <3>3. CASE n = 0
        <4>1. n + 1 = 1
          BY <3>3
        <4>2. QED BY <1>3, <3>1, <3>2, <3>3, <4>1, HeadPuts
      <3>4. CASE n # 0
        <4>1. n \in 1 .. Len(s) /\ ~(n < 0)
          BY <2>4, <3>4
        <4>2. Link!InsertAfter(h, S[h][n], e)
          BY <1>1, <1>3, <3>1, <3>2, <3>4, <4>1
        <4>3. n \in 1 .. Len(S[h])
          BY <1>1, <4>1
        <4>4. QED BY <4>2, <4>3, AfterPuts
      <3>5. QED BY <3>3, <3>4
    <2>8. QED BY <1>1, <2>4, <2>5, <2>6, <2>7
  <1>6. QED BY <1>4, <1>5

LEMMA SplicedPutsIn ==
  ASSUME NEW s \in Seq(Links), NEW q \in Seq(Links), NEW i \in 1 .. Len(s) + 1
  PROVE  /\ Link!Promised!Spliced(s, i, i, q) \in Seq(Links)
         /\ PutIn(Link!Promised!Spliced(s, i, i, q), s, q, i)
  BY CutAndJoined, Zenon DEF Link!Promised!Spliced

LEMMA SplicedLeavesOut ==
  ASSUME NEW s \in Seq(Links), NEW i \in 1 .. Len(s)
  PROVE  /\ Link!Promised!Spliced(s, i, i + 1, <<>>) \in Seq(Links)
         /\ LeftOut(Link!Promised!Spliced(s, i, i + 1, <<>>), s, i)
  BY CutAndLeftOut, Zenon DEF Link!Promised!Spliced

LEMMA PutsFit ==
  ASSUME LinksKnown, NEW S, LinkFits(head, next, iter, S), NEW h \in Heads, NEW e \in Links,
         \A k \in Heads : ~Has(S[k], e), NEW i \in 1 .. Len(S[h]) + 1, PutsAt(S, h, e, i),
         NEW T, T = [S EXCEPT ![h] = Link!Promised!Spliced(S[h], i, i, <<e>>)]
  PROVE  LinkFits(head', next', Link!NoIter, T)
  <1>1. S \in [Heads -> Seq(Links)] /\ S[h] \in Seq(Links)
    BY LinkSeen
  <1>2. PICK q \in Seq(Links) : q = <<e>> /\ Len(q) = 1 /\ q[1] = e
    <2>1. <<e>> \in Seq(Links) /\ Len(<<e>>) = 1 /\ <<e>>[1] = e
      OBVIOUS
    <2>2. QED BY <2>1
  <1>3. PICK t : t = Link!Promised!Spliced(S[h], i, i, q)
    OBVIOUS
  <1>4. t \in Seq(Links) /\ PutIn(t, S[h], q, i)
    BY <1>1, <1>3, SplicedPutsIn
  <1>5. /\ T \in [Heads -> Seq(Links)] /\ PutIn(T[h], S[h], q, i)
        /\ \A k \in Heads \ {h} : T[k] = S[k]
    BY <1>1, <1>2, <1>3, <1>4
  <1>6. Once(q) /\ \A x : Has(q, x) => x = e
    BY <1>2 DEF Once, Has
  <1>7. /\ \A k \in Heads \ {h} : head'[k].first = head[k].first /\ head'[k].last = head[k].last
        /\ head'[h].first = IF i = 1 THEN q[1] ELSE head[h].first
        /\ head'[h].last = IF i = Len(S[h]) + 1 THEN q[Len(q)] ELSE head[h].last
        /\ next'[q[Len(q)]] = Nth(S[h], i, NoLink)
        /\ i > 1 => next'[S[h][i - 1]] = q[1]
        /\ \A x \in Links : x # q[Len(q)] /\ (i > 1 => x # S[h][i - 1]) => next'[x] = next[x]
        /\ next' \in [Links -> Links \cup {NoLink}]
        /\ head' \in [Heads -> [first : LinkOrNone, last : LinkOrNone]]
    BY <1>2 DEF PutsAt, LinkOrNone, HeadType
  <1>8. /\ \A k \in Heads : \A x : ~(Has(S[k], x) /\ Has(q, x))
        /\ \A b \in 1 .. Len(q) : b # Len(q) => next[q[b]] = q[b + 1]
        /\ Len(q) >= 1
    BY <1>2, <1>6
  <1>9. Leads(head, next, S, {}, Heads, Links, NoLink)
    BY DEF LinkFits
  <1>10. Leads(head', next', T, {}, Heads, Links, NoLink)
    <2>1. Puts(head, next, S, {}, head', next', T, h, i, q, Heads, Links, NoLink)
      BY <1>2, <1>5, <1>6, <1>7, <1>8, <1>9 DEF Puts
    <2>2. QED BY <2>1, SplicedIn
  <1>11. QED BY <1>7, <1>10 DEF LinkFits

\* What is found while no loop runs.
LEMMA LinkInsert ==
  ASSUME LinksKnown, LinkInv, Link!Insert
  PROVE  LinkInv' /\ Link!Promised!Next
  <1>1. PICK S : LinkFits(head, next, iter, S)
    BY DEF LinkInv
  <1>2. PICK h \in Heads, e \in Link!Loose :
          \/ Link!InsertHead(h, e) \/ Link!InsertTail(h, e) \/ Link!InsertSortAlpha(h, e)
          \/ \E cur \in Link!Range(Link!In(h)) : Link!InsertAfter(h, cur, e)
    BY Zenon DEF Link!Insert
  <1>3. e \in Links /\ \A k \in Heads : ~Has(S[k], e)
    BY <1>1, <1>2, LooseIs
  <1>4. next[e] = NoLink
    BY <1>1, <1>3 DEF LinkFits, Leads
  <1>5. PICK i \in 1 .. Len(S[h]) + 1 : PutsAt(S, h, e, i)
    <2>1. Len(S[h]) \in Nat
      BY <1>1, LinkKnows
    <2>2. CASE Link!InsertHead(h, e)
      <3>1. 1 \in 1 .. Len(S[h]) + 1
        BY <2>1
      <3>2. QED BY <1>1, <1>3, <2>2, <3>1, HeadPuts
    <2>3. CASE Link!InsertTail(h, e)
      <3>1. Len(S[h]) + 1 \in 1 .. Len(S[h]) + 1
        BY <2>1
      <3>2. QED BY <1>1, <1>3, <1>4, <2>3, <3>1, TailPuts
    <2>4. CASE Link!InsertSortAlpha(h, e)
      <3>1. PICK n \in 0 .. Len(S[h]) : PutsAt(S, h, e, n + 1)
        BY <1>1, <1>3, <1>4, <2>4, SortPuts
      <3>2. n + 1 \in 1 .. Len(S[h]) + 1
        BY <2>1
      <3>3. QED BY <3>1, <3>2
    <2>5. CASE \E cur \in Link!Range(Link!In(h)) : Link!InsertAfter(h, cur, e)
      <3>1. PICK j \in 1 .. Len(S[h]) : Link!InsertAfter(h, S[h][j], e)
        BY <1>1, <2>5, LinkKnows DEF Has
      <3>2. j + 1 \in 1 .. Len(S[h]) + 1
        BY <2>1
      <3>3. QED BY <1>1, <1>3, <3>1, <3>2, AfterPuts
    <2>6. QED BY <1>2, <2>2, <2>3, <2>4, <2>5
  <1>6. PICK T : T = [S EXCEPT ![h] = Link!Promised!Spliced(S[h], i, i, <<e>>)]
    OBVIOUS
  <1>7. iter = Link!NoIter /\ iter' = Link!NoIter
    BY DEF Link!Insert, Link!NoLoop
  <1>8. LinkFits(head', next', iter', T)
    BY <1>1, <1>3, <1>5, <1>6, <1>7, PutsFit
  <1>9. /\ ListsOf(head, next) = S /\ LoopOf(next, iter) = NoLoopSeen
        /\ S \in [Heads -> Seq(Links)]
    BY <1>1, <1>7, LinkSeen DEF NoLoopSeen
  <1>10. ListsOf(head', next') = T /\ LoopOf(next', iter') = NoLoopSeen
    BY <1>7, <1>8, LinkSeen DEF NoLoopSeen
  <1>11. Link!Promised!Insert(h)
    BY <1>3, <1>6, <1>9, <1>10, SeenInsert
  <1>12. QED BY <1>8, <1>9, <1>10, <1>11, SeenBetween DEF LinkInv

\* An entry put in by its rank is where Lists puts it.
LEMMA LinkSorts ==
  ASSUME LinksKnown, LinkInv
  PROVE  Link!SortsIn
  <1>1. PICK S : LinkFits(head, next, iter, S)
    BY DEF LinkInv
  <1>2. SUFFICES ASSUME NEW h \in Heads, NEW e \in Link!Loose, Link!InsertSortAlpha(h, e)
                 PROVE  Link!Promised!InsertSorted(h)
    BY Zenon DEF Link!SortsIn
  <1>3. e \in Links /\ \A k \in Heads : ~Has(S[k], e)
    BY <1>1, LooseIs
  <1>4. next[e] = NoLink
    BY <1>1, <1>3 DEF LinkFits, Leads
  <1>5. PICK n \in 0 .. Len(S[h]) :
          /\ PutsAt(S, h, e, n + 1)
          /\ \A j \in 1 .. n : LinkRank[S[h][j]] < LinkRank[e]
          /\ n # Len(S[h]) => ~(LinkRank[S[h][n + 1]] < LinkRank[e])
    BY <1>1, <1>2, <1>3, <1>4, SortPuts
  <1>6. n + 1 \in 1 .. Len(S[h]) + 1
    BY <1>1, LinkKnows
  <1>7. PICK T : T = [S EXCEPT ![h] = Link!Promised!Spliced(S[h], n + 1, n + 1, <<e>>)]
    OBVIOUS
  <1>8. LinkFits(head', next', Link!NoIter, T)
    BY <1>1, <1>3, <1>5, <1>6, <1>7, PutsFit
  <1>9. ListsOf(head, next) = S /\ S \in [Heads -> Seq(Links)] /\ ListsOf(head', next') = T
    BY <1>1, <1>8, LinkSeen
  <1>10. QED BY <1>3, <1>5, <1>7, <1>9, SeenInsertSorted

\* The i-th entry is taken out of the list of h.
TakesAt(S, h, i) ==
  /\ head' \in HeadType /\ next' \in [Links -> LinkOrNone]
  /\ \A k \in Heads \ {h} : head'[k] = head[k]
  /\ head'[h].first = IF i = 1 THEN Nth(S[h], 2, NoLink) ELSE head[h].first
  /\ head'[h].last = IF i = Len(S[h]) THEN Nth(S[h], i - 1, NoLink) ELSE head[h].last
  /\ next'[S[h][i]] = NoLink
  /\ i > 1 => next'[S[h][i - 1]] = Nth(S[h], i + 1, NoLink)
  /\ \A x \in Links : x # S[h][i] /\ (i > 1 => x # S[h][i - 1]) => next'[x] = next[x]

LEMMA TakesFit ==
  ASSUME LinksKnown, NEW S, LinkFits(head, next, iter, S), NEW h \in Heads, NEW i \in 1 .. Len(S[h]),
         TakesAt(S, h, i),
         NEW T, T = [S EXCEPT ![h] = Link!Promised!Spliced(S[h], i, i + 1, <<>>)]
  PROVE  LinkFits(head', next', Link!NoIter, T)
  <1>1. S \in [Heads -> Seq(Links)] /\ S[h] \in Seq(Links)
    BY LinkSeen
  <1>2. PICK t : t = Link!Promised!Spliced(S[h], i, i + 1, <<>>)
    OBVIOUS
  <1>3. t \in Seq(Links) /\ LeftOut(t, S[h], i)
    BY <1>1, <1>2, SplicedLeavesOut
  <1>4. /\ T \in [Heads -> Seq(Links)] /\ LeftOut(T[h], S[h], i)
        /\ \A k \in Heads \ {h} : T[k] = S[k]
    BY <1>1, <1>2, <1>3
  <1>5. TakesOut(head, next, S, head', next', T, h, i, Heads, Links, NoLink)
    BY <1>4 DEF TakesOut, TakesAt, LinkFits, LinkOrNone
  <1>6. Leads(head', next', T, {}, Heads, Links, NoLink)
    BY <1>5, TakenOut
  <1>7. QED BY <1>6 DEF LinkFits, TakesAt, HeadType

LEMMA FirstTaken ==
  ASSUME LinksKnown,
         NEW S, LinkFits(head, next, iter, S), NEW h \in Heads, NEW cur, cur = head[h].first,
         cur # NoLink, next' = [next EXCEPT ![cur] = NoLink],
         head' = [head EXCEPT ![h].first = next[cur], ![h].last = IF @ = cur THEN NoLink ELSE @]
  PROVE  1 \in 1 .. Len(S[h]) /\ TakesAt(S, h, 1)
  <1>1. PICK s : s = S[h] /\ Len(s) \in Nat /\ Once(s)
    BY LinkKnows
  <1>2. /\ head \in HeadType /\ next \in [Links -> LinkOrNone]
        /\ head[h].first = Nth(s, 1, NoLink) /\ head[h].last = Nth(s, Len(s), NoLink)
        /\ \A i \in 1 .. Len(s) : s[i] \in Links /\ s[i] # NoLink /\ next[s[i]] = Nth(s, i + 1, NoLink)
    BY <1>1, LinkKnows
  <1>3. 1 \in 1 .. Len(s) /\ cur = s[1] /\ cur \in Links
    BY <1>2 DEF Nth
  <1>4. next[cur] = Nth(s, 2, NoLink) /\ next[cur] \in LinkOrNone
    <2>1. next[cur] = Nth(s, 1 + 1, NoLink) /\ 1 + 1 = 2
      BY <1>2, <1>3
    <2>2. QED BY <1>2, <1>3, <2>1
  <1>5. head[h].last = cur <=> 1 = Len(s)
    <2>1. Len(s) \in 1 .. Len(s)
      BY <1>3
    <2>2. QED BY <1>1, <1>2, <1>3, <2>1 DEF Nth, Once
  <1>6. /\ head' \in HeadType
        /\ \A k \in Heads \ {h} : head'[k] = head[k]
        /\ head'[h].first = Nth(s, 2, NoLink)
        /\ head'[h].last = IF head[h].last = cur THEN NoLink ELSE head[h].last
    BY Zenon, <1>2, <1>4 DEF HeadType, LinkOrNone
  <1>7. Nth(s, 1 - 1, NoLink) = NoLink
    <2>1. 1 - 1 \notin 1 .. Len(s)
      OBVIOUS
    <2>2. QED BY <2>1 DEF Nth
  <1>8. /\ next' \in [Links -> LinkOrNone] /\ next'[s[1]] = NoLink
        /\ \A x \in Links : x # s[1] => next'[x] = next[x]
    BY <1>2, <1>3 DEF LinkOrNone
  <1>9. head'[h].last = IF 1 = Len(S[h]) THEN Nth(S[h], 1 - 1, NoLink) ELSE head[h].last
    BY <1>1, <1>5, <1>6, <1>7
  <1>10. /\ next'[S[h][1]] = NoLink /\ ~(1 > 1)
         /\ \A x \in Links : x # S[h][1] => next'[x] = next[x]
         /\ head'[h].first = Nth(S[h], 2, NoLink) /\ 1 \in 1 .. Len(S[h])
    BY <1>1, <1>3, <1>6, <1>8
  <1>11. TakesAt(S, h, 1)
    BY ONLY <1>6, <1>8, <1>9, <1>10 DEF TakesAt
  <1>12. QED BY <1>10, <1>11

LEMMA LaterTaken ==
  ASSUME LinksKnown,
         NEW S, LinkFits(head, next, iter, S), NEW h \in Heads, NEW i \in 1 .. Len(S[h]), i # 1,
         NEW e, e = S[h][i], NEW prev, \A x : x \in prev <=> Has(S[h], x) /\ next[x] = e,
         head' = [head EXCEPT ![h].last = IF @ = e /\ prev # {} THEN CHOOSE x \in prev : TRUE ELSE @],
         next' = [x \in Links |-> IF x = e THEN NoLink ELSE IF x \in prev THEN next[e] ELSE next[x]]
  PROVE  TakesAt(S, h, i)
  <1>1. PICK s : s = S[h] /\ Len(s) \in Nat /\ Once(s) /\ i \in 1 .. Len(s)
    BY LinkKnows
  <1>2. /\ head \in HeadType /\ next \in [Links -> LinkOrNone]
        /\ head[h].last = Nth(s, Len(s), NoLink)
        /\ \A j \in 1 .. Len(s) : s[j] \in Links /\ s[j] # NoLink /\ next[s[j]] = Nth(s, j + 1, NoLink)
    BY <1>1, LinkKnows
  <1>3. i - 1 \in 1 .. Len(s) /\ (i - 1) + 1 = i /\ i > 1 /\ i # i - 1
    BY <1>1
  <1>4. \A x : x \in prev <=> x = s[i - 1]
    <2>1. next[s[i - 1]] = e
      BY <1>1, <1>2, <1>3 DEF Nth
    <2>2. ASSUME NEW j \in 1 .. Len(s), next[s[j]] = e PROVE s[j] = s[i - 1]
      <3>1. Nth(s, j + 1, NoLink) = s[i]
        BY <1>1, <1>2, <2>2
      <3>2. j + 1 \in 1 .. Len(s) /\ s[j + 1] = s[i]
        BY <1>1, <1>2, <3>1 DEF Nth
      <3>3. j + 1 = i
        BY <1>1, <3>2 DEF Once
      <3>4. j = i - 1
        BY <3>3
      <3>5. QED BY <3>4
    <2>3. QED BY <1>1, <1>3, <2>1, <2>2 DEF Has
  <1>5. PICK p \in Links : p = s[i - 1] /\ p # e /\ e \in Links
    <2>1. s[i - 1] # s[i]
      BY <1>1, <1>3 DEF Once
    <2>2. QED BY <1>1, <1>2, <1>3, <2>1
  <1>6. prev # {} /\ (CHOOSE x \in prev : TRUE) = p
    <2>1. prev = {p}
      BY <1>4, <1>5
    <2>2. QED BY <2>1
  <1>7. head[h].last = e <=> i = Len(s)
    <2>1. Len(s) \in 1 .. Len(s)
      BY <1>1
    <2>2. QED BY <1>1, <1>2, <2>1 DEF Nth, Once
  <1>8. head' = [head EXCEPT ![h].last = IF @ = e THEN p ELSE @]
    BY <1>6
  <1>9. /\ head' \in HeadType
        /\ \A k \in Heads \ {h} : head'[k] = head[k]
        /\ head'[h].first = head[h].first
        /\ head'[h].last = IF head[h].last = e THEN p ELSE head[h].last
    <2>1. PICK l \in LinkOrNone : l = IF head[h].last = e THEN p ELSE head[h].last
      BY <1>2, <1>5 DEF HeadType, LinkOrNone
    <2>2. head' = [head EXCEPT ![h].last = l]
      BY <1>8, <2>1
    <2>3. /\ head' \in HeadType
          /\ \A k \in Heads \ {h} : head'[k] = head[k]
          /\ head'[h].first = head[h].first /\ head'[h].last = l
      <3>1. /\ head \in HeadType /\ h \in Heads /\ l \in LinkOrNone
            /\ head' = [head EXCEPT ![h].last = l]
        BY <1>2, <2>1, <2>2
      <3>2. QED BY ONLY <3>1 DEF HeadType
    <2>4. QED BY <2>1, <2>3
  <1>10. /\ next' \in [Links -> LinkOrNone] /\ next'[e] = NoLink
         /\ next'[p] = next[e] /\ \A x \in Links : x # e /\ x # p => next'[x] = next[x]
    BY <1>2, <1>4, <1>5 DEF LinkOrNone
  <1>11. next[e] = Nth(s, i + 1, NoLink) /\ Nth(s, i - 1, NoLink) = p
    BY <1>1, <1>2, <1>3, <1>5 DEF Nth
  <1>12. QED BY <1>1, <1>3, <1>5, <1>7, <1>9, <1>10, <1>11 DEF TakesAt

\* A step that takes an entry out, while no loop runs.
LEMMA RemoveFits ==
  ASSUME LinksKnown, NEW S, LinkFits(head, next, iter, S), NEW h \in Heads, NEW i \in 1 .. Len(S[h]),
         TakesAt(S, h, i), iter = Link!NoIter, iter' = iter
  PROVE  LinkInv' /\ Link!Promised!Next
  <1>1. PICK T : T = [S EXCEPT ![h] = Link!Promised!Spliced(S[h], i, i + 1, <<>>)]
    OBVIOUS
  <1>2. LinkFits(head', next', iter', T)
    BY <1>1, TakesFit
  <1>3. /\ ListsOf(head, next) = S /\ LoopOf(next, iter) = NoLoopSeen
        /\ S \in [Heads -> Seq(Links)]
    BY LinkSeen DEF NoLoopSeen
  <1>4. ListsOf(head', next') = T /\ LoopOf(next', iter') = NoLoopSeen
    BY <1>2, LinkSeen DEF NoLoopSeen
  <1>5. Link!Promised!RemoveOne(h)
    BY <1>1, <1>3, <1>4, SeenRemove
  <1>6. QED BY <1>2, <1>3, <1>4, <1>5, SeenBetween DEF LinkInv

LEMMA LinkRemoveHead ==
  ASSUME LinksKnown, LinkInv, Link!RemoveHead
  PROVE  LinkInv' /\ Link!Promised!Next
  <1>1. PICK S : LinkFits(head, next, iter, S)
    BY DEF LinkInv
  <1>2. iter = Link!NoIter /\ iter' = iter
    BY DEF Link!RemoveHead, Link!NoLoop
  <1>3. PICK h \in Heads : LET cur == head[h].first IN
          /\ cur # NoLink
          /\ head' = [head EXCEPT ![h].first = next[cur], ![h].last = IF @ = cur THEN NoLink ELSE @]
          /\ next' = [next EXCEPT ![cur] = NoLink]
    BY DEF Link!RemoveHead
  <1>4. 1 \in 1 .. Len(S[h]) /\ TakesAt(S, h, 1)
    BY <1>1, <1>3, FirstTaken
  <1>5. QED BY <1>1, <1>2, <1>4, RemoveFits

LEMMA LinkRemoveEntry ==
  ASSUME LinksKnown, LinkInv, Link!RemoveEntry
  PROVE  LinkInv' /\ [Link!Promised!Next]_(Link!Promised!vars)
  <1>1. PICK S : LinkFits(head, next, iter, S)
    BY DEF LinkInv
  <1>2. iter = Link!NoIter /\ iter' = iter
    BY DEF Link!RemoveEntry, Link!NoLoop
  <1>3. PICK h \in Heads : \E e \in Link!Loose \cup Link!Range(Link!In(h)) :
          LET prev == {x \in Link!Range(Link!In(h)) : next[x] = e} IN
          IF head[h].first = e THEN
            /\ head' = [head EXCEPT ![h].first = next[e], ![h].last = IF @ = e THEN NoLink ELSE @]
            /\ next' = [next EXCEPT ![e] = NoLink]
          ELSE
            /\ head' = [head EXCEPT ![h].last = IF @ = e /\ prev # {} THEN CHOOSE x \in prev : TRUE ELSE @]
            /\ next' = [x \in Links |-> IF x = e THEN NoLink ELSE IF x \in prev THEN next[e] ELSE next[x]]
    BY Zenon DEF Link!RemoveEntry
  <1>3a. PICK e \in Link!Loose \cup Link!Range(Link!In(h)) :
          LET prev == {x \in Link!Range(Link!In(h)) : next[x] = e} IN
          IF head[h].first = e THEN
            /\ head' = [head EXCEPT ![h].first = next[e], ![h].last = IF @ = e THEN NoLink ELSE @]
            /\ next' = [next EXCEPT ![e] = NoLink]
          ELSE
            /\ head' = [head EXCEPT ![h].last = IF @ = e /\ prev # {} THEN CHOOSE x \in prev : TRUE ELSE @]
            /\ next' = [x \in Links |-> IF x = e THEN NoLink ELSE IF x \in prev THEN next[e] ELSE next[x]]
    BY <1>3, Zenon
  <1>4. PICK prev : prev = {x \in Link!Range(Link!In(h)) : next[x] = e}
    OBVIOUS
  <1>5. \A x : x \in prev <=> Has(S[h], x) /\ next[x] = e
    BY <1>1, <1>4, LinkKnows
  <1>6. PICK s : /\ s = S[h] /\ Len(s) \in Nat /\ head[h].first = Nth(s, 1, NoLink)
                 /\ head \in HeadType /\ next \in [Links -> LinkOrNone]
                 /\ \A i \in 1 .. Len(s) : s[i] \in Links /\ s[i] # NoLink /\ next[s[i]] = Nth(s, i + 1, NoLink)
    BY <1>1, LinkKnows
  <1>7. e \in Links
    <2>1. e \in Link!Range(Link!In(h)) => e \in Links
      BY <1>1, <1>6, LinkKnows DEF Has
    <2>2. QED BY <1>1, <1>3a, <2>1, LooseIs
  <1>8. CASE head[h].first = e
    <2>1. e # NoLink
      BY <1>7 DEF LinksKnown
    <2>2. 1 \in 1 .. Len(S[h]) /\ TakesAt(S, h, 1)
      BY <1>1, <1>3a, <1>8, <2>1, FirstTaken
    <2>3. QED BY <1>1, <1>2, <2>2, RemoveFits
  <1>9. CASE head[h].first # e
    <2>1. /\ head' = [head EXCEPT ![h].last = IF @ = e /\ prev # {} THEN CHOOSE x \in prev : TRUE ELSE @]
          /\ next' = [x \in Links |-> IF x = e THEN NoLink ELSE IF x \in prev THEN next[e] ELSE next[x]]
      BY <1>3a, <1>4, <1>9
    <2>2. CASE Has(S[h], e)
      <3>1. PICK i \in 1 .. Len(S[h]) : e = S[h][i]
        BY <2>2 DEF Has
      <3>2. i # 1
        BY <1>6, <1>9, <3>1 DEF Nth
      <3>3. TakesAt(S, h, i)
        BY <1>1, <1>5, <2>1, <3>1, <3>2, LaterTaken, Zenon
      <3>4. QED BY <1>1, <1>2, <3>3, RemoveFits
    <2>3. CASE ~Has(S[h], e)
      <3>1. \A k \in Heads : ~Has(S[k], e)
        BY <1>1, <1>3a, <2>3, LooseIs, LinkKnows
      <3>2. next[e] = NoLink
        BY <1>1, <1>7, <3>1 DEF LinkFits, Leads
      <3>3. prev = {}
        <4>1. ASSUME NEW x, Has(s, x), next[x] = e PROVE FALSE
          <5>1. PICK j \in 1 .. Len(s) : Nth(s, j + 1, NoLink) = e
            BY <1>6, <4>1 DEF Has
          <5>2. e # NoLink
            BY <1>7 DEF LinksKnown
          <5>3. QED BY <1>6, <2>3, <5>1, <5>2 DEF Nth, Has
        <4>2. QED BY <1>5, <1>6, <4>1
      <3>4. head' = head
        <4>1. head' = [head EXCEPT ![h].last = @]
          BY <2>1, <3>3
        <4>2. QED BY <1>6, <4>1 DEF HeadType
      <3>5. next' = next
        BY <1>6, <2>1, <3>2, <3>3
      <3>6. UNCHANGED <<head, next, iter>>
        BY <1>2, <3>4, <3>5
      <3>7. QED BY <1>1, <3>6 DEF LinkInv, Link!Promised!vars, Link!In
    <2>4. QED BY <2>2, <2>3
  <1>10. QED BY <1>8, <1>9

\* The list of from is put into that of h before its i-th entry.
MovesAt(S, h, from, i) ==
  /\ head' \in HeadType /\ next' \in [Links -> LinkOrNone]
  /\ \A k \in Heads \ {h, from} : head'[k] = head[k]
  /\ head'[from].first = NoLink /\ head'[from].last = NoLink
  /\ head'[h].first = IF i = 1 THEN S[from][1] ELSE head[h].first
  /\ head'[h].last = IF i = Len(S[h]) + 1 THEN S[from][Len(S[from])] ELSE head[h].last
  /\ next'[S[from][Len(S[from])]] = Nth(S[h], i, NoLink)
  /\ i > 1 => next'[S[h][i - 1]] = S[from][1]
  /\ \A x \in Links : x # S[from][Len(S[from])] /\ (i > 1 => x # S[h][i - 1]) => next'[x] = next[x]

LEMMA MovesFit ==
  ASSUME LinksKnown,
         NEW S, LinkFits(head, next, iter, S), NEW h \in Heads, NEW from \in Heads, h # from,
         Len(S[from]) >= 1, NEW i \in 1 .. Len(S[h]) + 1, MovesAt(S, h, from, i),
         iter = Link!NoIter, iter' = iter
  PROVE  LinkInv' /\ Link!Promised!Next
  <1>1. S \in [Heads -> Seq(Links)] /\ S[h] \in Seq(Links) /\ S[from] \in Seq(Links)
    BY LinkSeen
  <1>2. PICK q \in Seq(Links) : q = S[from] /\ Len(q) >= 1 /\ Len(q) \in Nat
    BY <1>1
  <1>3. PICK t : t = Link!Promised!Spliced(S[h], i, i, q)
    OBVIOUS
  <1>4. t \in Seq(Links) /\ PutIn(t, S[h], q, i)
    BY <1>1, <1>3, SplicedPutsIn
  <1>5. PICK T : T = [S EXCEPT ![from] = <<>>, ![h] = t]
    OBVIOUS
  <1>6. PICK S1 : S1 = [S EXCEPT ![from] = <<>>]
    OBVIOUS
  <1>7. PICK Q \in SUBSET Links : \A x \in Links : x \in Q <=> Has(q, x)
    <2>1. {x \in Links : Has(q, x)} \in SUBSET Links
      OBVIOUS
    <2>2. QED BY <2>1
  <1>8. PICK hd1 : hd1 = [head EXCEPT ![from] = [first |-> NoLink, last |-> NoLink]]
    OBVIOUS
  <1>9. /\ <<>> \in Seq(Links) /\ S1 \in [Heads -> Seq(Links)] /\ S1[from] = <<>> /\ S1[h] = S[h]
        /\ \A k \in Heads \ {from} : S1[k] = S[k]
    BY <1>1, <1>6
  <1>10. /\ T \in [Heads -> Seq(Links)] /\ T[from] = <<>> /\ T[h] = t
         /\ \A k \in Heads \ {h, from} : T[k] = S[k]
    BY <1>1, <1>4, <1>5, <1>9
  <1>11. /\ \A k \in Heads \ {from} : hd1[k] = head[k]
         /\ hd1[from].first = NoLink /\ hd1[from].last = NoLink
    <2>1. head \in HeadType
      BY LinkKnows
    <2>2. QED BY <1>8, <2>1 DEF HeadType
  <1>12. TakesAll(head, next, S, hd1, S1, from, Q, Heads, Links, NoLink)
    BY <1>2, <1>7, <1>9, <1>11 DEF TakesAll, LinkFits
  <1>13. /\ Leads(hd1, next, S1, Q, Heads, Links, NoLink)
         /\ \A k \in Heads : \A x : ~(Has(S1[k], x) /\ Has(q, x))
    BY <1>2, <1>12, TakenAll
  <1>14. /\ Once(q)
         /\ \A b \in 1 .. Len(q) : b # Len(q) => next[q[b]] = q[b + 1]
    <2>1. Once(q) /\ \A b \in 1 .. Len(q) : next[q[b]] = Nth(q, b + 1, NoLink)
      BY <1>2, LinkKnows
    <2>2. \A b \in 1 .. Len(q) : b # Len(q) => b + 1 \in 1 .. Len(q)
      BY <1>2
    <2>3. QED BY <2>1, <2>2 DEF Nth
  <1>15. Puts(hd1, next, S1, Q, head', next', T, h, i, q, Heads, Links, NoLink)
    <2>1. /\ h \in Heads /\ i \in 1 .. Len(S1[h]) + 1
          /\ q \in Seq(Links) /\ Len(q) >= 1 /\ \A x \in Q : Has(q, x)
          /\ PutIn(T[h], S1[h], q, i)
      BY <1>2, <1>4, <1>7, <1>9, <1>10
    <2>2. \A k \in Heads \ {h} : /\ T[k] = S1[k]
                                 /\ head'[k].first = hd1[k].first /\ head'[k].last = hd1[k].last
      BY <1>9, <1>10, <1>11 DEF MovesAt
    <2>3. /\ head'[h].first = IF i = 1 THEN q[1] ELSE hd1[h].first
          /\ head'[h].last = IF i = Len(S1[h]) + 1 THEN q[Len(q)] ELSE hd1[h].last
          /\ next'[q[Len(q)]] = Nth(S1[h], i, NoLink)
          /\ i > 1 => next'[S1[h][i - 1]] = q[1]
          /\ \A x \in Links : x # q[Len(q)] /\ (i > 1 => x # S1[h][i - 1]) => next'[x] = next[x]
          /\ next' \in [Links -> Links \cup {NoLink}]
      BY <1>2, <1>9, <1>11 DEF MovesAt, LinkOrNone
    <2>4. QED BY <1>10, <1>13, <1>14, <2>1, <2>2, <2>3 DEF Puts
  <1>16. Leads(head', next', T, {}, Heads, Links, NoLink)
    BY <1>15, SplicedIn
  <1>17. LinkFits(head', next', iter', T)
    BY <1>16 DEF LinkFits, MovesAt, HeadType
  <1>18. /\ ListsOf(head, next) = S /\ LoopOf(next, iter) = NoLoopSeen
         /\ ListsOf(head', next') = T /\ LoopOf(next', iter') = NoLoopSeen
    BY <1>17, LinkSeen DEF NoLoopSeen
  <1>19. Link!Promised!Move(h, from)
    BY <1>1, <1>2, <1>3, <1>5, <1>18, SeenMove
  <1>20. QED BY <1>17, <1>18, <1>19, SeenBetween DEF LinkInv

LEMMA LinkAppendList ==
  ASSUME LinksKnown, LinkInv, Link!AppendList
  PROVE  LinkInv' /\ Link!Promised!Next
  <1>1. PICK S : LinkFits(head, next, iter, S)
    BY DEF LinkInv
  <1>2. iter = Link!NoIter /\ iter' = iter
    BY DEF Link!AppendList, Link!NoLoop
  <1>3. PICK h \in Heads, from \in Heads :
          /\ h # from /\ head[from].first # NoLink
          /\ head' = [head EXCEPT ![from] = [first |-> NoLink, last |-> NoLink],
                        ![h] = IF @.first = NoLink THEN head[from] ELSE [@ EXCEPT !.last = head[from].last]]
          /\ next' = IF head[h].first = NoLink THEN next
                     ELSE [next EXCEPT ![head[h].last] = head[from].first]
    BY DEF Link!AppendList
  <1>4. PICK s, q : s = S[h] /\ q = S[from]
    OBVIOUS
  <1>5. /\ Len(s) \in Nat /\ head \in HeadType /\ next \in [Links -> LinkOrNone]
        /\ head[h].first = Nth(s, 1, NoLink) /\ head[h].last = Nth(s, Len(s), NoLink)
        /\ \A j \in 1 .. Len(s) : s[j] \in Links /\ s[j] # NoLink
    BY <1>1, <1>4, LinkKnows
  <1>6. /\ Len(q) \in Nat
        /\ head[from].first = Nth(q, 1, NoLink) /\ head[from].last = Nth(q, Len(q), NoLink)
        /\ \A j \in 1 .. Len(q) : q[j] \in Links /\ q[j] # NoLink /\ next[q[j]] = Nth(q, j + 1, NoLink)
    BY <1>1, <1>4, LinkKnows
  <1>7. /\ 1 \in 1 .. Len(q) /\ Len(q) \in 1 .. Len(q) /\ Len(q) + 1 \notin 1 .. Len(q)
        /\ head[from].first = q[1] /\ head[from].last = q[Len(q)]
    <2>1. 1 \in 1 .. Len(q)
      BY <1>3, <1>6 DEF Nth
    <2>2. Len(q) \in 1 .. Len(q) /\ Len(q) + 1 \notin 1 .. Len(q)
      BY <1>6, <2>1
    <2>3. QED BY <1>6, <2>1, <2>2 DEF Nth
  <1>8. next[q[Len(q)]] = NoLink
    BY <1>6, <1>7 DEF Nth
  <1>9. /\ \A k \in Heads \ {h, from} : head'[k] = head[k]
        /\ head'[from].first = NoLink /\ head'[from].last = NoLink
        /\ head'[h] = IF head[h].first = NoLink THEN head[from] ELSE [head[h] EXCEPT !.last = head[from].last]
    BY <1>3, <1>5 DEF HeadType
  <1>10. head' \in HeadType
    <2>1. [first |-> NoLink, last |-> NoLink] \in [first : LinkOrNone, last : LinkOrNone]
      BY DEF LinkOrNone
    <2>2. head[from].last \in LinkOrNone /\ head[h] \in [first : LinkOrNone, last : LinkOrNone]
          /\ head[from] \in [first : LinkOrNone, last : LinkOrNone]
      BY <1>5 DEF HeadType
    <2>3. [head[h] EXCEPT !.last = head[from].last] \in [first : LinkOrNone, last : LinkOrNone]
      BY <2>2
    <2>4. QED BY <1>3, <1>5, <2>1, <2>2, <2>3 DEF HeadType
  <1>11. PICK i \in Nat : i = Len(s) + 1 /\ Nth(s, i, NoLink) = NoLink /\ i - 1 = Len(s) /\ i \in 1 .. Len(s) + 1
    <2>1. Len(s) + 1 \notin 1 .. Len(s) /\ Len(s) + 1 - 1 = Len(s) /\ Len(s) + 1 \in 1 .. Len(s) + 1
      BY <1>5
    <2>2. QED BY <1>5, <2>1 DEF Nth
  <1>12. MovesAt(S, h, from, i)
    <2>1. CASE Len(s) = 0
      <3>1. head[h].first = NoLink /\ i = 1 /\ ~(i > 1)
        <4>1. 1 \notin 1 .. Len(s)
          BY <2>1
        <4>2. QED BY <1>5, <1>11, <2>1, <4>1 DEF Nth
      <3>2. next' = next /\ head'[h].first = q[1] /\ head'[h].last = q[Len(q)]
        BY <1>3, <1>7, <1>9, <3>1
      <3>3. QED BY <1>4, <1>5, <1>8, <1>9, <1>10, <1>11, <3>1, <3>2 DEF MovesAt
    <2>2. CASE Len(s) # 0
      <3>1. 1 \in 1 .. Len(s) /\ Len(s) \in 1 .. Len(s) /\ i # 1 /\ i > 1
        BY <1>5, <1>11, <2>2
      <3>2. head[h].first # NoLink /\ head[h].last = s[Len(s)] /\ s[Len(s)] \in Links
        BY <1>5, <3>1 DEF Nth
      <3>3. /\ next' = [next EXCEPT ![s[Len(s)]] = q[1]]
            /\ head'[h].first = head[h].first /\ head'[h].last = q[Len(q)]
        BY <1>3, <1>5, <1>7, <1>9, <3>2 DEF HeadType
      <3>4. s[Len(s)] # q[Len(q)]
        <4>1. Has(s, s[Len(s)]) /\ Has(q, q[Len(q)])
          BY <1>7, <3>1 DEF Has
        <4>2. \A x : ~(Has(s, x) /\ Has(q, x))
          BY <1>1, <1>3, <1>4 DEF LinkFits, Leads
        <4>3. QED BY <4>1, <4>2
      <3>5. /\ next' \in [Links -> LinkOrNone] /\ next'[s[Len(s)]] = q[1] /\ next'[q[Len(q)]] = NoLink
            /\ \A x \in Links : x # s[Len(s)] => next'[x] = next[x]
        BY <1>5, <1>6, <1>7, <1>8, <3>2, <3>3, <3>4 DEF LinkOrNone
      <3>6. QED BY <1>4, <1>9, <1>10, <1>11, <3>1, <3>3, <3>5 DEF MovesAt
    <2>3. QED BY <2>1, <2>2
  <1>13. QED BY <1>1, <1>2, <1>3, <1>4, <1>6, <1>7, <1>11, <1>12, MovesFit

LEMMA LinkInsertListAfter ==
  ASSUME LinksKnown, LinkInv, Link!InsertListAfter
  PROVE  LinkInv' /\ Link!Promised!Next
  <1>1. PICK S : LinkFits(head, next, iter, S)
    BY DEF LinkInv
  <1>2. iter = Link!NoIter /\ iter' = iter
    BY DEF Link!InsertListAfter, Link!NoLoop
  <1>3. PICK h \in Heads, from \in Heads : \E e \in Link!Range(Link!In(h)) :
          /\ h # from /\ head[from].first # NoLink
          /\ next' = [next EXCEPT ![head[from].last] = next[e], ![e] = head[from].first]
          /\ head' = [head EXCEPT ![from] = [first |-> NoLink, last |-> NoLink],
                        ![h].last = IF @ = e THEN head[from].last ELSE @]
    BY DEF Link!InsertListAfter
  <1>4. PICK s, q : s = S[h] /\ q = S[from]
    OBVIOUS
  <1>5. /\ Len(s) \in Nat /\ Once(s) /\ head \in HeadType /\ next \in [Links -> LinkOrNone]
        /\ head[h].first = Nth(s, 1, NoLink) /\ head[h].last = Nth(s, Len(s), NoLink)
        /\ \A j \in 1 .. Len(s) : s[j] \in Links /\ s[j] # NoLink /\ next[s[j]] = Nth(s, j + 1, NoLink)
        /\ \A e : e \in Link!Range(Link!In(h)) <=> Has(s, e)
    BY <1>1, <1>4, LinkKnows
  <1>6. PICK j \in 1 .. Len(s) :
          /\ h # from /\ head[from].first # NoLink
          /\ next' = [next EXCEPT ![head[from].last] = next[s[j]], ![s[j]] = head[from].first]
          /\ head' = [head EXCEPT ![from] = [first |-> NoLink, last |-> NoLink],
                        ![h].last = IF @ = s[j] THEN head[from].last ELSE @]
    <2>1. PICK e \in Link!Range(Link!In(h)) :
            /\ h # from /\ head[from].first # NoLink
            /\ next' = [next EXCEPT ![head[from].last] = next[e], ![e] = head[from].first]
            /\ head' = [head EXCEPT ![from] = [first |-> NoLink, last |-> NoLink],
                          ![h].last = IF @ = e THEN head[from].last ELSE @]
      BY <1>3
    <2>2. PICK j \in 1 .. Len(s) : s[j] = e
      BY <1>5 DEF Has
    <2>3. QED BY <2>1, <2>2
  <1>7. /\ Len(q) \in Nat
        /\ head[from].first = Nth(q, 1, NoLink) /\ head[from].last = Nth(q, Len(q), NoLink)
        /\ \A k \in 1 .. Len(q) : q[k] \in Links /\ q[k] # NoLink
    BY <1>1, <1>4, LinkKnows
  <1>8. /\ 1 \in 1 .. Len(q) /\ Len(q) \in 1 .. Len(q)
        /\ head[from].first = q[1] /\ head[from].last = q[Len(q)]
    <2>1. 1 \in 1 .. Len(q)
      BY <1>6, <1>7 DEF Nth
    <2>2. Len(q) \in 1 .. Len(q)
      BY <1>7, <2>1
    <2>3. QED BY <1>7, <2>1, <2>2 DEF Nth
  <1>9. PICK cur \in Links : cur = s[j] /\ cur # q[Len(q)]
    <2>1. Has(s, s[j]) /\ Has(q, q[Len(q)])
      BY <1>8 DEF Has
    <2>2. \A x : ~(Has(s, x) /\ Has(q, x))
      BY <1>1, <1>3, <1>4 DEF LinkFits, Leads
    <2>3. QED BY <1>5, <2>1, <2>2
  <1>10. /\ \A k \in Heads \ {h, from} : head'[k] = head[k]
         /\ head'[from].first = NoLink /\ head'[from].last = NoLink
         /\ head'[h].first = head[h].first
         /\ head'[h].last = IF head[h].last = cur THEN q[Len(q)] ELSE head[h].last
         /\ head' \in HeadType
    <2>1. PICK l \in LinkOrNone : l = IF head[h].last = cur THEN q[Len(q)] ELSE head[h].last
      BY <1>5, <1>7, <1>8 DEF HeadType, LinkOrNone
    <2>2. PICK none \in [first : LinkOrNone, last : LinkOrNone] : none.first = NoLink /\ none.last = NoLink
            /\ none = [first |-> NoLink, last |-> NoLink]
      BY DEF LinkOrNone
    <2>3. head' = [head EXCEPT ![from] = none, ![h].last = l]
      BY <1>6, <1>8, <1>9, <2>1, <2>2
    <2>4. head \in HeadType /\ h \in Heads /\ from \in Heads /\ h # from
      BY <1>5, <1>6
    <2>5. /\ \A k \in Heads \ {h, from} : head'[k] = head[k]
          /\ head'[from] = none
          /\ head'[h].first = head[h].first /\ head'[h].last = l
          /\ head' \in HeadType
      BY ONLY <2>3, <2>4 DEF HeadType
    <2>6. QED BY <2>1, <2>2, <2>5
  <1>11. head[h].last = cur <=> j = Len(s)
    <2>1. Len(s) \in 1 .. Len(s)
      BY <1>5
    <2>2. QED BY <1>5, <1>9, <2>1 DEF Nth, Once
  <1>12. /\ next' \in [Links -> LinkOrNone]
         /\ next'[q[Len(q)]] = Nth(s, j + 1, NoLink) /\ next'[cur] = q[1]
         /\ \A x \in Links : x # q[Len(q)] /\ x # cur => next'[x] = next[x]
    <2>1. next[cur] = Nth(s, j + 1, NoLink) /\ next[cur] \in LinkOrNone
      BY <1>5, <1>9
    <2>2. q[1] \in LinkOrNone /\ q[Len(q)] \in Links
      BY <1>7, <1>8 DEF LinkOrNone
    <2>3. next' = [next EXCEPT ![q[Len(q)]] = next[cur], ![cur] = q[1]]
      BY <1>6, <1>8, <1>9
    <2>4. QED BY <1>5, <1>9, <2>1, <2>2, <2>3
  <1>13. PICK i \in Nat : i = j + 1 /\ i - 1 = j /\ i # 1 /\ i > 1 /\ (i = Len(s) + 1 <=> j = Len(s))
           /\ i \in 1 .. Len(s) + 1
    BY <1>5
  <1>14. MovesAt(S, h, from, i)
    BY <1>4, <1>9, <1>10, <1>11, <1>12, <1>13 DEF MovesAt
  <1>15. QED BY <1>1, <1>2, <1>3, <1>4, <1>7, <1>8, <1>13, <1>14, MovesFit

LEMMA LinkBegin ==
  ASSUME LinksKnown, LinkInv, Link!Begin
  PROVE  LinkInv' /\ Link!Promised!Next
  <1>1. PICK S : LinkFits(head, next, iter, S)
    BY DEF LinkInv
  <1>2. PICK h \in Heads : LET cur == head[h].first IN
          /\ iter = Link!NoIter /\ cur # NoLink /\ head' = head /\ next' = next
          /\ iter' = [over |-> {h}, cur |-> cur, prev |-> NoLink, new |-> cur, next |-> Link!After(cur)]
    BY DEF Link!Begin
  <1>3. PICK s : s = S[h]
    OBVIOUS
  <1>4. /\ Len(s) \in Nat /\ head[h].first = Nth(s, 1, NoLink) /\ next \in [Links -> LinkOrNone]
        /\ \A j \in 1 .. Len(s) : s[j] \in Links /\ s[j] # NoLink /\ next[s[j]] = Nth(s, j + 1, NoLink)
    BY <1>1, <1>3, LinkKnows
  <1>5. 1 \in 1 .. Len(s) /\ head[h].first = s[1]
    BY <1>2, <1>4 DEF Nth
  <1>6. Link!After(s[1]) = Nth(s, 1 + 1, NoLink) /\ Link!After(s[1]) \in LinkOrNone
    <2>1. Link!After(s[1]) = next[s[1]]
      BY <1>4, <1>5 DEF Link!After
    <2>2. QED BY <1>4, <1>5, <2>1
  <1>7. iter' = [over |-> {h}, cur |-> s[1], prev |-> NoLink, new |-> s[1], next |-> Link!After(s[1])]
    BY <1>2, <1>5
  <1>8. IterAt(iter', S, h, 1)
    <2>1. /\ iter' \in [over : SUBSET Heads, cur : Links, prev : LinkOrNone, new : LinkOrNone, next : LinkOrNone]
          /\ iter'.over = {h} /\ iter'.new = s[1] /\ iter'.cur = s[1] /\ iter'.prev = NoLink
          /\ iter'.next = Nth(s, 1 + 1, NoLink)
      BY <1>4, <1>5, <1>6, <1>7 DEF LinkOrNone
    <2>2. Nth(s, 1, NoLink) = s[1] /\ Nth(s, 1 - 1, NoLink) = NoLink
      <3>1. 1 - 1 \notin 1 .. Len(s)
        OBVIOUS
      <3>2. QED BY <1>5, <3>1 DEF Nth
    <2>3. 1 >= 1
      OBVIOUS
    <2>4. QED BY ONLY <1>3, <2>1, <2>2, <2>3 DEF IterAt
  <1>9. 1 \in 0 .. Len(S[h])
    BY <1>3, <1>5
  <1>10. LinkFits(head', next', iter', S)
    BY <1>1, <1>2, <1>8, <1>9 DEF LinkFits
  <1>11. /\ S \in [Heads -> Seq(Links)] /\ ListsOf(head, next) = S /\ LoopOf(next, iter) = NoLoopSeen
         /\ ListsOf(head', next') = S
    BY <1>1, <1>2, <1>10, LinkSeen DEF NoLoopSeen
  <1>12. LoopOf(next', iter') = [over |-> {h}, cur |-> <<iter'.cur>>, ahead |-> Ahead(S[h], 1)]
    BY <1>8, <1>9, <1>10, LinkSeen
  <1>13. LoopOf(next', iter') = [over |-> {h}, cur |-> <<S[h][1]>>, ahead |-> Ahead(S[h], 1)]
    BY <1>3, <1>7, <1>12
  <1>14. Len(S[h]) >= 1
    BY <1>3, <1>5
  <1>15. QED BY <1>10, <1>11, <1>13, <1>14, SeenBegin DEF LinkInv

LEMMA LinkAdvance ==
  ASSUME LinksKnown, LinkInv, Link!Advance
  PROVE  LinkInv' /\ Link!Promised!Next
  <1>1. PICK S : LinkFits(head, next, iter, S)
    BY DEF LinkInv
  <1>2. /\ iter # Link!NoIter /\ head' = head /\ next' = next
        /\ iter' = IF iter.next = NoLink THEN Link!NoIter
                   ELSE [iter EXCEPT !.prev = iter.new, !.cur = iter.next, !.new = iter.next,
                                     !.next = Link!After(iter.next)]
    BY DEF Link!Advance
  <1>3. PICK h \in Heads : \E p \in 0 .. Len(S[h]) : IterAt(iter, S, h, p)
    BY <1>1, <1>2 DEF LinkFits
  <1>4. PICK s : s = S[h]
    OBVIOUS
  <1>5. PICK p \in 0 .. Len(s) : IterAt(iter, S, h, p)
    BY <1>3, <1>4
  <1>6. /\ Len(s) \in Nat /\ next \in [Links -> LinkOrNone]
        /\ \A j \in 1 .. Len(s) : s[j] \in Links /\ s[j] # NoLink /\ next[s[j]] = Nth(s, j + 1, NoLink)
    BY <1>1, <1>4, LinkKnows
  <1>7. /\ S \in [Heads -> Seq(Links)] /\ ListsOf(head, next) = S
        /\ LoopOf(next, iter) = [over |-> {h}, cur |-> <<iter.cur>>, ahead |-> Ahead(S[h], p)]
    BY <1>1, <1>4, <1>5, LinkSeen
  <1>8. /\ iter \in [over : SUBSET Heads, cur : Links, prev : LinkOrNone, new : LinkOrNone, next : LinkOrNone]
        /\ iter.over = {h} /\ iter.new = Nth(s, p, NoLink) /\ iter.next = Nth(s, p + 1, NoLink)
    BY <1>4, <1>5 DEF IterAt
  <1>9. ListsOf(head', next') = ListsOf(head, next)
    BY <1>2
  <1>10. CASE p = Len(s)
    <2>1. iter.next = NoLink
      <3>1. p + 1 \notin 1 .. Len(s)
        BY <1>6, <1>10
      <3>2. QED BY <1>8, <3>1 DEF Nth
    <2>2. iter' = Link!NoIter
      BY <1>2, <2>1
    <2>3. LinkFits(head', next', iter', S)
      BY <1>1, <1>2, <2>2 DEF LinkFits
    <2>4. LoopOf(next', iter') = NoLoopSeen
      BY <2>2, <2>3, LinkSeen DEF NoLoopSeen
    <2>5. LoopOf(next', iter') =
            IF p = Len(S[h]) THEN NoLoopSeen
            ELSE [over |-> {h}, cur |-> <<S[h][p + 1]>>, ahead |-> Ahead(S[h], p + 1)]
      BY <1>4, <1>10, <2>4
    <2>6. QED BY <1>4, <1>7, <1>9, <2>3, <2>5, SeenAdvance DEF LinkInv
  <1>11. CASE p # Len(s)
    <2>1. PICK m \in Nat : m = p + 1 /\ m \in 1 .. Len(s) /\ m \in 0 .. Len(s) /\ m - 1 = p /\ m >= 1
      BY <1>6, <1>11
    <2>2. iter.next = s[m] /\ s[m] # NoLink /\ s[m] \in Links
      BY <1>6, <1>8, <2>1 DEF Nth
    <2>3. Link!After(s[m]) = Nth(s, m + 1, NoLink) /\ Link!After(s[m]) \in LinkOrNone
      <3>1. Link!After(s[m]) = next[s[m]]
        BY <2>2 DEF Link!After
      <3>2. QED BY <1>6, <2>1, <2>2, <3>1
    <2>4. iter' = [iter EXCEPT !.prev = iter.new, !.cur = s[m], !.new = s[m], !.next = Link!After(s[m])]
      BY <1>2, <2>2
    <2>5. /\ iter' \in [over : SUBSET Heads, cur : Links, prev : LinkOrNone, new : LinkOrNone, next : LinkOrNone]
          /\ iter'.over = {h} /\ iter'.cur = s[m] /\ iter'.new = s[m] /\ iter'.prev = iter.new
          /\ iter'.next = Nth(s, m + 1, NoLink)
      BY <1>8, <2>2, <2>3, <2>4 DEF LinkOrNone
    <2>6. IterAt(iter', S, h, m)
      <3>1. Nth(s, m, NoLink) = s[m] /\ iter'.prev = Nth(s, m - 1, NoLink)
        BY <1>8, <2>1, <2>5 DEF Nth
      <3>2. QED BY ONLY <1>4, <2>1, <2>5, <3>1 DEF IterAt
    <2>7. LinkFits(head', next', iter', S)
      BY <1>1, <1>2, <1>4, <2>1, <2>6 DEF LinkFits
    <2>8. LoopOf(next', iter') = [over |-> {h}, cur |-> <<iter'.cur>>, ahead |-> Ahead(S[h], m)]
      BY <1>4, <2>1, <2>6, <2>7, LinkSeen
    <2>9. LoopOf(next', iter') =
            IF p = Len(S[h]) THEN NoLoopSeen
            ELSE [over |-> {h}, cur |-> <<S[h][p + 1]>>, ahead |-> Ahead(S[h], p + 1)]
      BY <1>4, <1>11, <2>1, <2>5, <2>8
    <2>10. QED BY <1>4, <1>7, <1>9, <2>7, <2>9, SeenAdvance DEF LinkInv
  <1>12. QED BY <1>10, <1>11

\* A loop that stands at an entry: where it is.
LEMMA LinkStands ==
  ASSUME LinksKnown, NEW S, LinkFits(head, next, iter, S), iter # Link!NoIter, Link!Standing
  PROVE  \E h \in Heads : \E p \in 1 .. Len(S[h]) :
           /\ iter \in [over : SUBSET Heads, cur : Links, prev : LinkOrNone, new : LinkOrNone, next : LinkOrNone]
           /\ iter.over = {h} /\ iter.cur = S[h][p] /\ iter.new = iter.cur
           /\ iter.prev = Nth(S[h], p - 1, NoLink) /\ iter.next = Nth(S[h], p + 1, NoLink)
           /\ LoopOf(next, iter) = [over |-> {h}, cur |-> <<S[h][p]>>, ahead |-> Ahead(S[h], p)]
  <1>1. PICK h \in Heads : \E p \in 0 .. Len(S[h]) : IterAt(iter, S, h, p)
    BY DEF LinkFits
  <1>2. PICK p \in 0 .. Len(S[h]) : IterAt(iter, S, h, p)
    BY <1>1
  <1>3. PICK s : s = S[h] /\ Len(s) \in Nat /\ p \in 0 .. Len(s)
    BY LinkKnows
  <1>4. /\ iter \in [over : SUBSET Heads, cur : Links, prev : LinkOrNone, new : LinkOrNone, next : LinkOrNone]
        /\ iter.over = {h} /\ iter.new = Nth(s, p, NoLink) /\ iter.next = Nth(s, p + 1, NoLink)
        /\ iter.new = iter.cur /\ iter.cur # NoLink
    BY <1>2, <1>3 DEF IterAt, Link!Standing, LinksKnown
  <1>5. p \in 1 .. Len(s) /\ iter.cur = s[p]
    BY <1>4 DEF Nth
  <1>6. Has(S[h], iter.cur)
    BY <1>3, <1>5 DEF Has
  <1>7. iter.prev = Nth(s, p - 1, NoLink)
    BY <1>2, <1>3, <1>6 DEF IterAt
  <1>8. LoopOf(next, iter) = [over |-> {h}, cur |-> <<iter.cur>>, ahead |-> Ahead(S[h], p)]
    BY <1>2, LinkSeen
  <1>9. QED BY <1>3, <1>4, <1>5, <1>7, <1>8

LEMMA LinkRemoveCurrent ==
  ASSUME LinksKnown, LinkInv, Link!RemoveCurrent
  PROVE  LinkInv' /\ Link!Promised!Next
  <1>1. PICK S : LinkFits(head, next, iter, S)
    BY DEF LinkInv
  <1>2. PICK h \in Heads, p \in Nat :
           /\ p \in 1 .. Len(S[h])
           /\ iter \in [over : SUBSET Heads, cur : Links, prev : LinkOrNone, new : LinkOrNone, next : LinkOrNone]
           /\ iter.over = {h} /\ iter.cur = S[h][p] /\ iter.new = iter.cur
           /\ iter.prev = Nth(S[h], p - 1, NoLink) /\ iter.next = Nth(S[h], p + 1, NoLink)
           /\ LoopOf(next, iter) = [over |-> {h}, cur |-> <<S[h][p]>>, ahead |-> Ahead(S[h], p)]
    <2>1. iter # Link!NoIter /\ Link!Standing
      BY DEF Link!RemoveCurrent
    <2>2. QED BY <1>1, <2>1, LinkStands
  <1>3. /\ head' = [head EXCEPT ![h].first = IF iter.prev = NoLink THEN iter.next ELSE @,
                                ![h].last = IF iter.next = NoLink THEN iter.prev ELSE @]
        /\ next' = [e \in Links |-> IF e = iter.cur THEN NoLink
                                    ELSE IF e = iter.prev THEN iter.next ELSE next[e]]
        /\ iter' = [iter EXCEPT !.new = iter.prev]
    BY <1>2 DEF Link!RemoveCurrent
  <1>4. PICK s \in Seq(Links) : s = S[h] /\ Len(s) \in Nat /\ Once(s) /\ p \in 1 .. Len(s)
    BY <1>1, <1>2, LinkKnows
  <1>5. /\ head \in HeadType /\ next \in [Links -> LinkOrNone]
        /\ \A j \in 1 .. Len(s) : s[j] \in Links /\ s[j] # NoLink
    BY <1>1, <1>4, LinkKnows
  <1>6. /\ p > 1 <=> p # 1
        /\ p > 1 => p - 1 \in 1 .. Len(s) /\ iter.prev = s[p - 1] /\ s[p - 1] # s[p]
        /\ p = 1 => iter.prev = NoLink
    <2>1. p > 1 => p - 1 \in 1 .. Len(s) /\ p - 1 # p
      BY <1>4
    <2>2. p = 1 => p - 1 \notin 1 .. Len(s)
      OBVIOUS
    <2>3. QED BY <1>2, <1>4, <2>1, <2>2 DEF Nth, Once
  <1>7. /\ iter.prev = NoLink <=> p = 1
        /\ iter.next = NoLink <=> p = Len(s)
    <2>1. p + 1 \in 1 .. Len(s) <=> p # Len(s)
      BY <1>4
    <2>2. QED BY <1>2, <1>4, <1>5, <1>6, <2>1 DEF Nth
  <1>8. TakesAt(S, h, p)
    <2>1. PICK f \in LinkOrNone, l \in LinkOrNone :
            /\ f = IF iter.prev = NoLink THEN iter.next ELSE head[h].first
            /\ l = IF iter.next = NoLink THEN iter.prev ELSE head[h].last
      BY <1>2, <1>5 DEF HeadType
    <2>2. head' = [head EXCEPT ![h].first = f, ![h].last = l]
      BY <1>3, <1>5, <2>1 DEF HeadType
    <2>3. /\ head' \in HeadType /\ \A k \in Heads \ {h} : head'[k] = head[k]
          /\ head'[h].first = f /\ head'[h].last = l
      <3>1. head \in HeadType /\ h \in Heads /\ f \in LinkOrNone /\ l \in LinkOrNone
        BY <1>2, <1>5, <2>1
      <3>2. QED BY ONLY <2>2, <3>1 DEF HeadType
    <2>4. /\ next' \in [Links -> LinkOrNone] /\ next'[s[p]] = NoLink
          /\ p > 1 => next'[s[p - 1]] = Nth(s, p + 1, NoLink)
          /\ \A x \in Links : x # s[p] /\ (p > 1 => x # s[p - 1]) => next'[x] = next[x]
      <3>1. iter.next \in LinkOrNone /\ iter.cur = s[p] /\ iter.next = Nth(s, p + 1, NoLink)
        BY <1>2, <1>4
      <3>2. \A x \in Links : x # NoLink
        BY DEF LinksKnown
      <3>3. QED BY <1>3, <1>4, <1>5, <1>6, <3>1, <3>2 DEF LinkOrNone
    <2>5. f = IF p = 1 THEN Nth(s, 2, NoLink) ELSE head[h].first
      BY <1>2, <1>4, <1>7, <2>1
    <2>6. l = IF p = Len(s) THEN Nth(s, p - 1, NoLink) ELSE head[h].last
      BY <1>2, <1>4, <1>7, <2>1
    <2>7. QED BY <1>4, <2>3, <2>4, <2>5, <2>6 DEF TakesAt
  <1>9. PICK T : T = [S EXCEPT ![h] = Link!Promised!Spliced(S[h], p, p + 1, <<>>)]
    OBVIOUS
  <1>10. /\ T \in [Heads -> Seq(Links)] /\ LeftOut(T[h], s, p)
         /\ \A k \in Heads \ {h} : T[k] = S[k]
         /\ LinkFits(head', next', Link!NoIter, T)
    <2>1. PICK i \in 1 .. Len(S[h]) : i = p
      BY <1>2
    <2>2. TakesAt(S, h, i) /\ T = [S EXCEPT ![h] = Link!Promised!Spliced(S[h], i, i + 1, <<>>)]
      BY <1>8, <1>9, <2>1
    <2>3. LinkFits(head', next', Link!NoIter, T)
      BY <1>1, <2>2, TakesFit
    <2>4. S \in [Heads -> Seq(Links)] /\ S[h] \in Seq(Links)
      BY <1>1, LinkSeen
    <2>5. PICK t : t = Link!Promised!Spliced(S[h], i, i + 1, <<>>)
      OBVIOUS
    <2>6. t \in Seq(Links) /\ LeftOut(t, S[h], i)
      BY <2>4, <2>5, SplicedLeavesOut
    <2>7. QED BY <1>4, <2>1, <2>2, <2>3, <2>4, <2>5, <2>6
  <1>11. PICK t \in Seq(Links) : t = T[h] /\ LeftOut(t, s, p)
    BY <1>10
  <1>12. PICK n \in Nat : n = Len(s) /\ Len(t) = n - 1 /\ p \in 1 .. n
    BY <1>4, <1>11 DEF LeftOut
  <1>13. IterAt(iter', T, h, p - 1)
    <2>1. /\ iter' \in [over : SUBSET Heads, cur : Links, prev : LinkOrNone, new : LinkOrNone, next : LinkOrNone]
          /\ iter'.over = {h} /\ iter'.new = Nth(s, p - 1, NoLink) /\ iter'.next = Nth(s, p + 1, NoLink)
          /\ iter'.cur = s[p]
      BY <1>2, <1>3, <1>4
    <2>2. Nth(t, p - 1, NoLink) = Nth(s, p - 1, NoLink)
      <3>1. /\ p - 1 \in 1 .. n - 1 <=> p - 1 \in 1 .. n
            /\ p - 1 \in 1 .. n => p - 1 \in 1 .. p - 1
        BY ONLY <1>12
      <3>2. QED BY <1>11, <1>12, <3>1 DEF Nth, LeftOut
    <2>3. Nth(t, p - 1 + 1, NoLink) = Nth(s, p + 1, NoLink)
      <3>1. /\ p - 1 + 1 = p /\ (p \in 1 .. n - 1 <=> p + 1 \in 1 .. n)
            /\ p \in 1 .. n - 1 => p \in p .. n - 1
        BY ONLY <1>12
      <3>2. p \in p .. n - 1 => t[p] = s[p + 1]
        BY <1>11, <1>12 DEF LeftOut
      <3>3. QED BY <1>12, <3>1, <3>2 DEF Nth
    <2>4. \A k \in Heads : ~Has(T[k], s[p])
      <3>1. ~Has(t, s[p])
        BY <1>4, <1>11, LeftOutHas
      <3>2. \A k \in Heads \ {h} : ~Has(S[k], s[p])
        <4>1. Has(s, s[p])
          BY <1>4 DEF Has
        <4>2. QED BY <1>1, <1>4, <4>1 DEF LinkFits, Leads
      <3>3. QED BY <1>10, <1>11, <3>1, <3>2
    <2>5. QED BY <1>11, <2>1, <2>2, <2>3, <2>4 DEF IterAt
  <1>14. p - 1 \in 0 .. Len(T[h])
    BY <1>11, <1>12
  <1>15. LinkFits(head', next', iter', T)
    BY <1>10, <1>13, <1>14, SMTT(30) DEF LinkFits
  <1>16. /\ S \in [Heads -> Seq(Links)] /\ ListsOf(head, next) = S /\ ListsOf(head', next') = T
         /\ LoopOf(next', iter') = [over |-> {h}, cur |-> <<iter'.cur>>, ahead |-> Ahead(T[h], p - 1)]
    BY <1>1, <1>13, <1>14, <1>15, LinkSeen
  <1>17. Ahead(t, p - 1) = Ahead(s, p)
    <2>1. Len(t) - (p - 1) = n - p
      BY ONLY <1>12
    <2>2. \A k \in 1 .. n - p : t[p - 1 + k] = s[p + k]
      <3>1. \A k \in 1 .. n - p : p - 1 + k \in p .. n - 1 /\ (p - 1 + k) + 1 = p + k
        BY ONLY <1>12
      <3>2. \A j \in p .. n - 1 : t[j] = s[j + 1]
        BY <1>11, <1>12 DEF LeftOut
      <3>3. QED BY <3>1, <3>2
    <2>3. QED BY <1>12, <2>1, <2>2 DEF Ahead
  <1>18. LoopOf(next', iter') = LoopOf(next, iter)
    <2>1. iter'.cur = S[h][p]
      BY <1>2, <1>3
    <2>2. QED BY <1>2, <1>4, <1>11, <1>16, <1>17, <2>1
  <1>19. Link!Promised!Next
    <2>1. /\ p \in 1 .. Len(S[h])
          /\ LoopOf(next, iter) = [over |-> {h}, cur |-> <<S[h][p]>>, ahead |-> Ahead(S[h], p)]
      BY <1>2
    <2>2. ListsOf(head', next') = [S EXCEPT ![h] = Link!Promised!Spliced(S[h], p, p + 1, <<>>)]
      BY <1>9, <1>16
    <2>3. QED BY <1>16, <1>18, <2>1, <2>2, SeenRemoveCurrent
  <1>20. QED BY <1>15, <1>19 DEF LinkInv

LEMMA LinkInsertBeforeCurrent ==
  ASSUME LinksKnown, LinkInv, Link!InsertBeforeCurrent
  PROVE  LinkInv' /\ Link!Promised!Next
  <1>1. PICK S : LinkFits(head, next, iter, S)
    BY DEF LinkInv
  <1>2. PICK h \in Heads, p \in Nat :
           /\ p \in 1 .. Len(S[h])
           /\ iter \in [over : SUBSET Heads, cur : Links, prev : LinkOrNone, new : LinkOrNone, next : LinkOrNone]
           /\ iter.over = {h} /\ iter.cur = S[h][p] /\ iter.new = iter.cur
           /\ iter.prev = Nth(S[h], p - 1, NoLink) /\ iter.next = Nth(S[h], p + 1, NoLink)
           /\ LoopOf(next, iter) = [over |-> {h}, cur |-> <<S[h][p]>>, ahead |-> Ahead(S[h], p)]
    <2>1. iter # Link!NoIter /\ Link!Standing
      BY DEF Link!InsertBeforeCurrent
    <2>2. QED BY <1>1, <2>1, LinkStands
  <1>3. PICK e \in Link!Loose :
          /\ iter.prev # NoLink => /\ next' = [next EXCEPT ![e] = next[iter.prev], ![iter.prev] = e]
                                   /\ head' = head
          /\ iter.prev = NoLink => /\ next' = [next EXCEPT ![e] = head[h].first]
                                   /\ head' = [head EXCEPT ![h].first = e]
          /\ iter' = [iter EXCEPT !.prev = e]
    BY <1>2 DEF Link!InsertBeforeCurrent
  <1>4. e \in Links /\ \A k \in Heads : ~Has(S[k], e)
    BY <1>1, <1>3, LooseIs
  <1>5. PICK s \in Seq(Links) : /\ s = S[h] /\ Len(s) \in Nat /\ Once(s) /\ p \in 1 .. Len(s)
                                /\ ~Has(s, e)
    BY <1>1, <1>2, <1>4, LinkKnows
  <1>6. /\ head \in HeadType /\ next \in [Links -> LinkOrNone]
        /\ head[h].first = Nth(s, 1, NoLink)
        /\ \A j \in 1 .. Len(s) : s[j] \in Links /\ s[j] # NoLink /\ next[s[j]] = Nth(s, j + 1, NoLink)
    BY <1>1, <1>5, LinkKnows
  <1>7. /\ p # Len(s) + 1 /\ p - 1 + 1 = p /\ p + 1 - 1 = p /\ p \in 1 .. Len(s) + 1
        /\ p > 1 => p - 1 \in 1 .. Len(s) /\ p # 1
        /\ ~(p > 1) => p = 1 /\ p - 1 \notin 1 .. Len(s)
    BY <1>5
  <1>8. PutsAt(S, h, e, p)
    <2>1. CASE p > 1
      <3>1. PICK prev \in Links : /\ prev = s[p - 1] /\ prev = iter.prev /\ prev # NoLink /\ prev # e
                                  /\ next[prev] = Nth(s, p, NoLink)
        BY ZenonT(60), <1>2, <1>5, <1>6, <1>7, <2>1 DEF Nth, Has
      <3>2. next' = [next EXCEPT ![e] = next[prev], ![prev] = e] /\ head' = head
        BY <1>3, <3>1
      <3>3. /\ next' \in [Links -> LinkOrNone]
            /\ next'[e] = Nth(s, p, NoLink) /\ next'[prev] = e
            /\ \A x \in Links : x # e /\ x # prev => next'[x] = next[x]
        BY <1>4, <1>6, <3>1, <3>2 DEF LinkOrNone
      <3>4. QED BY <1>5, <1>6, <1>7, <2>1, <3>1, <3>2, <3>3 DEF PutsAt
    <2>2. CASE ~(p > 1)
      <3>1. iter.prev = NoLink /\ p = 1
        BY <1>2, <1>5, <1>7, <2>2 DEF Nth
      <3>2. next' = [next EXCEPT ![e] = head[h].first] /\ head' = [head EXCEPT ![h].first = e]
        BY <1>3, <3>1
      <3>3. /\ next' \in [Links -> LinkOrNone] /\ next'[e] = Nth(s, p, NoLink)
            /\ \A x \in Links : x # e => next'[x] = next[x]
        BY <1>4, <1>6, <3>1, <3>2 DEF HeadType
      <3>4. /\ head' \in HeadType /\ \A k \in Heads \ {h} : head'[k] = head[k]
            /\ head'[h].first = e /\ head'[h].last = head[h].last
        <4>1. PICK x \in LinkOrNone : x = e
          BY <1>4 DEF LinkOrNone
        <4>2. head \in HeadType /\ h \in Heads /\ head' = [head EXCEPT ![h].first = x]
          BY <1>2, <1>6, <3>2, <4>1
        <4>3. QED BY ONLY <4>1, <4>2 DEF HeadType
      <3>5. QED BY <1>5, <1>7, <2>2, <3>1, <3>3, <3>4 DEF PutsAt
    <2>3. QED BY <2>1, <2>2
  <1>9. PICK T : T = [S EXCEPT ![h] = Link!Promised!Spliced(S[h], p, p, <<e>>)]
    OBVIOUS
  <1>10. /\ T \in [Heads -> Seq(Links)] /\ PutIn(T[h], s, <<e>>, p)
         /\ \A k \in Heads \ {h} : T[k] = S[k]
         /\ LinkFits(head', next', Link!NoIter, T)
    <2>1. PICK i \in 1 .. Len(S[h]) + 1 : i = p
      BY <1>5, <1>7
    <2>2. PutsAt(S, h, e, i) /\ T = [S EXCEPT ![h] = Link!Promised!Spliced(S[h], i, i, <<e>>)]
      BY <1>8, <1>9, <2>1
    <2>3. LinkFits(head', next', Link!NoIter, T)
      BY <1>1, <1>4, <2>2, PutsFit
    <2>4. S \in [Heads -> Seq(Links)] /\ S[h] \in Seq(Links)
      BY <1>1, LinkSeen
    <2>5. PICK q, t : q \in Seq(Links) /\ q = <<e>> /\ t = Link!Promised!Spliced(S[h], i, i, q)
      <3>1. <<e>> \in Seq(Links)
        BY <1>4
      <3>2. QED BY <3>1
    <2>6. t \in Seq(Links) /\ PutIn(t, S[h], q, i)
      BY <2>4, <2>5, SplicedPutsIn
    <2>7. QED BY <1>5, <2>1, <2>2, <2>3, <2>4, <2>5, <2>6
  <1>11. PICK t \in Seq(Links), n \in Nat :
           /\ t = T[h] /\ n = Len(s) /\ Len(t) = n + 1 /\ t[p] = e
           /\ \A j \in p .. n : t[1 + j] = s[j]
    <2>1. PICK t, q : t \in Seq(Links) /\ t = T[h] /\ q = <<e>> /\ PutIn(t, s, q, p)
      BY <1>10
    <2>2. Len(q) = 1 /\ q[1] = e /\ 1 \in 1 .. Len(q)
      BY <2>1
    <2>3. /\ Len(t) = Len(s) + 1 /\ t[p - 1 + 1] = q[1]
          /\ \A j \in p .. Len(s) : t[1 + j] = s[j]
      BY <2>1, <2>2 DEF PutIn
    <2>4. QED BY <1>5, <1>7, <2>1, <2>2, <2>3, SMTT(30)
  <1>12. /\ p \in 1 .. n /\ p \in 1 .. n + 1 /\ p + 1 \in 1 .. n + 1 /\ p \in p .. n
         /\ 1 + p = p + 1 /\ p + 1 + 1 = 1 + (p + 1)
         /\ p + 1 \in 1 .. n <=> p + 1 + 1 \in 1 .. n + 1
         /\ p + 1 \in 1 .. n => p + 1 \in p .. n
    <2>1. p \in 1 .. n
      BY <1>5, <1>11
    <2>2. QED BY ONLY <2>1, <1>11
  <1>13. IterAt(iter', T, h, p + 1)
    <2>1. /\ iter' \in [over : SUBSET Heads, cur : Links, prev : LinkOrNone, new : LinkOrNone, next : LinkOrNone]
          /\ iter'.over = {h} /\ iter'.cur = s[p] /\ iter'.new = s[p] /\ iter'.prev = e
          /\ iter'.next = Nth(s, p + 1, NoLink)
      BY <1>2, <1>3, <1>4, <1>5 DEF LinkOrNone
    <2>2. Nth(t, p + 1, NoLink) = s[p]
      BY <1>11, <1>12 DEF Nth
    <2>3. Nth(t, p + 1 - 1, NoLink) = e
      BY <1>7, <1>11, <1>12 DEF Nth
    <2>4. Nth(t, p + 1 + 1, NoLink) = Nth(s, p + 1, NoLink)
      BY <1>11, <1>12 DEF Nth
    <2>5. p + 1 >= 1
      BY ONLY <1>12, <1>11
    <2>6. QED BY <1>11, <2>1, <2>2, <2>3, <2>4, <2>5 DEF IterAt
  <1>14. p + 1 \in 0 .. Len(T[h])
    BY <1>11, <1>12
  <1>15. LinkFits(head', next', iter', T)
    BY <1>10, <1>13, <1>14, SMTT(30) DEF LinkFits
  <1>16. /\ S \in [Heads -> Seq(Links)] /\ ListsOf(head, next) = S /\ ListsOf(head', next') = T
         /\ LoopOf(next', iter') = [over |-> {h}, cur |-> <<iter'.cur>>, ahead |-> Ahead(T[h], p + 1)]
    BY <1>1, <1>13, <1>14, <1>15, LinkSeen
  <1>17. Ahead(t, p + 1) = Ahead(s, p)
    <2>1. n + 1 - (p + 1) = n - p
      BY ONLY <1>12, <1>11
    <2>2. \A k \in 1 .. n - p : t[p + 1 + k] = s[p + k]
      <3>1. \A k \in 1 .. n - p : p + 1 + k = 1 + (p + k) /\ p + k \in p .. n
        BY ONLY <1>12, <1>11
      <3>2. QED BY <1>11, <3>1
    <2>3. QED BY <1>11, <2>1, <2>2 DEF Ahead
  <1>18. LoopOf(next', iter') = LoopOf(next, iter)
    <2>1. iter'.cur = S[h][p]
      BY <1>2, <1>3
    <2>2. QED BY <1>2, <1>5, <1>11, <1>16, <1>17, <2>1
  <1>19. Link!Promised!Next
    <2>1. /\ p \in 1 .. Len(S[h])
          /\ LoopOf(next, iter) = [over |-> {h}, cur |-> <<S[h][p]>>, ahead |-> Ahead(S[h], p)]
      BY <1>2
    <2>2. ListsOf(head', next') = [S EXCEPT ![h] = Link!Promised!Spliced(S[h], p, p, <<e>>)]
      BY <1>9, <1>16
    <2>3. QED BY <1>4, <1>16, <1>18, <2>1, <2>2, SeenInsertBeforeCurrent
  <1>20. QED BY <1>15, <1>19 DEF LinkInv

\* No list has an entry at the beginning.
LEMMA LinkInit ==
  ASSUME LinksKnown, Link!Init
  PROVE  LinkInv /\ Link!Promised!Init
  <1>1. PICK S : S = [h \in Heads |-> <<>>]
    OBVIOUS
  <1>2. PICK s \in Seq(Links) : s = <<>> /\ Len(s) = 0
    BY EmptySeq
  <1>3. S \in [Heads -> Seq(Links)] /\ \A h \in Heads : S[h] = s
    BY <1>1, <1>2
  <1>4. /\ \A i : Nth(s, i, NoLink) = NoLink
        /\ \A x : ~Has(s, x)
        /\ Once(s) /\ Along(next, s, NoLink)
    BY <1>2 DEF Nth, Has, Once, Along
  <1>5. /\ head \in HeadType /\ next \in [Links -> LinkOrNone]
        /\ \A h \in Heads : head[h].first = NoLink /\ head[h].last = NoLink
        /\ \A e \in Links : next[e] = NoLink
        /\ iter = Link!NoIter
    BY DEF Link!Init, HeadType, LinkOrNone
  <1>6. Leads(head, next, S, {}, Heads, Links, NoLink)
    BY <1>3, <1>4, <1>5 DEF Leads, LinkOrNone
  <1>7. LinkFits(head, next, iter, S)
    BY <1>5, <1>6 DEF LinkFits, HeadType
  <1>8. ListsOf(head, next) = S /\ LoopOf(next, iter) = NoLoopSeen
    BY <1>5, <1>7, LinkSeen DEF NoLoopSeen
  <1>9. Link!Promised!Init
    BY <1>1, <1>8, Zenon DEF Link!Promised!Init, Link!Promised!NoLoop, NoLoopSeen, ListsOf, LoopOf, Link!In
  <1>10. QED BY <1>7, <1>9 DEF LinkInv

\* Every macro keeps the invariant, and what it does is a step of Lists or none.
LEMMA LinkStep ==
  ASSUME LinksKnown, LinkInv, [Link!Next]_LinkVars
  PROVE  LinkInv' /\ [Link!Promised!Next]_(Link!Promised!vars)
  <1>1. CASE Link!Insert
    BY <1>1, LinkInsert
  <1>2. CASE Link!RemoveHead
    BY <1>2, LinkRemoveHead
  <1>3. CASE Link!RemoveEntry
    BY <1>3, LinkRemoveEntry
  <1>4. CASE Link!AppendList
    BY <1>4, LinkAppendList
  <1>5. CASE Link!InsertListAfter
    BY <1>5, LinkInsertListAfter
  <1>6. CASE Link!Begin
    BY <1>6, LinkBegin
  <1>7. CASE Link!Advance
    BY <1>7, LinkAdvance
  <1>8. CASE Link!RemoveCurrent
    BY <1>8, LinkRemoveCurrent
  <1>9. CASE Link!InsertBeforeCurrent
    BY <1>9, LinkInsertBeforeCurrent
  <1>10. CASE UNCHANGED LinkVars
    <2>1. head' = head /\ next' = next /\ iter' = iter
      BY <1>10 DEF LinkVars
    <2>2. LinkInv'
      BY <2>1 DEF LinkInv
    <2>3. UNCHANGED Link!Promised!vars
      BY <2>1 DEF Link!Promised!vars, Link!In
    <2>4. QED BY <2>2, <2>3
  <1>11. QED BY <1>1, <1>2, <1>3, <1>4, <1>5, <1>6, <1>7, <1>8, <1>9, <1>10, Zenon DEF Link!Next

\* A head's last is the last entry of its list.
LEMMA LinkLast ==
  ASSUME LinksKnown, LinkInv
  PROVE  Link!LastIsLast
  <1>1. PICK S : LinkFits(head, next, iter, S)
    BY DEF LinkInv
  <1>2. SUFFICES ASSUME NEW h \in Heads
                 PROVE  head[h].last = IF Link!In(h) = <<>> THEN NoLink ELSE Link!Last(Link!In(h))
    BY Zenon DEF Link!LastIsLast
  <1>3. PICK s \in Seq(Links) : /\ s = S[h] /\ Len(s) \in Nat /\ Link!In(h) = s
                                /\ head[h].last = Nth(s, Len(s), NoLink)
    BY <1>1, LinkKnows
  <1>4. Link!Last(s) = s[Len(s)]
    BY Zenon DEF Link!Last
  <1>5. s = <<>> <=> Len(s) \notin 1 .. Len(s)
    BY <1>3, EmptySeq
  <1>6. QED BY <1>3, <1>4, <1>5 DEF Nth

\* The pointers of the linked lists implement sequences, and a loop over a list visits what was
\* in it, once and in order, whatever is removed or put in where it stands
\* (linkedlist.h:503-856); an entry that is put in by its rank goes behind the lesser ones.
THEOREM ListsStaySequences ==
  ASSUME LinksKnown
  PROVE  Link!Spec => Link!ListsAreSequences
  <1>1. Link!Init => LinkInv /\ Link!Promised!Init
    BY LinkInit
  <1>2. LinkInv /\ [Link!Next]_LinkVars => LinkInv' /\ [Link!Promised!Next]_(Link!Promised!vars)
    BY LinkStep
  <1>3. LinkInv => Link!LastIsLast /\ Link!SortsIn
    BY LinkLast, LinkSorts
  <1>4. QED BY <1>1, <1>2, <1>3, PTL DEF Link!Spec, Link!vars, LinkVars, Link!ListsAreSequences,
                                         Link!Promised!Spec

----------------------------------------------------------------------------
(* TestEngine.                                                             *)

Test == INSTANCE TestEngine WITH Category <- CategoryOf, Rank <- CategoryRank,
          MaxCalls <- MaxTestCalls, calls <- testCalls

TestVars == <<list, lock, run, results, report, testCalls>>

\* The ranks of the categories are numbers.
RanksKnown == \A t \in Tests : CategoryRank[CategoryOf[t]] \in Int

Outcomes == {"not run", "pass", "failed"}
Entry == [cb : Tests, result : Outcomes]
Of(l, i) == CategoryRank[CategoryOf[l[i].cb]]

\* Of the first n tests, those with the result r.
Those(l, n, r) == {j \in 1 .. n : l[j].result = r}

\* The counters after the first n tests, of which ran are the places of those called.
Counts(l, n, ran) ==
  [tests |-> n,
   passed |-> Cardinality(Those(l, n, "pass")), failed |-> Cardinality(Those(l, n, "failed")),
   lastPassed |-> Cardinality(Those(l, n, "pass") \cap ran),
   lastFailed |-> Cardinality(Those(l, n, "failed") \cap ran)]

Called(res, r) == Test!Counted(res, TRUE, r)
PassedOver(res, r) == Test!Counted(res, FALSE, r)

\* The places of the tests that the run is to call.
Looked(l) == {j \in 1 .. Len(l) : Test!Wanted(l[j].cb)}

TestTypes ==
  /\ list \in Seq(Entry) /\ lock \in Seq(Threads)
  /\ run = [by |-> run.by, i |-> run.i, category |-> run.category, name |-> run.name]

Sorted == \A i \in 2 .. Len(list) : Of(list, i - 1) <= Of(list, i)

\* Whose run it is has the lock.
RunLocked == run.by = {} \/ \E t \in Test!Range(lock) : run.by = {t}

RunAdds ==
  run.by # {} =>
    /\ run.i \in 1 .. Len(list) + 1
    /\ results = Counts(list, run.i - 1, Looked(list))

ReportAdds ==
  /\ report.list \in Seq(Entry)
  /\ report.results = Counts(report.list, Len(report.list), report.ran)

TestInv == TestTypes /\ Sorted /\ RunLocked /\ RunAdds /\ ReportAdds

\* Some of the first n numbers, and perhaps the next.
LEMMA OneMoreCounted ==
  ASSUME NEW n \in Nat, NEW T, T \subseteq 1 .. n
  PROVE  /\ Cardinality(T) \in Nat
         /\ n + 1 \notin T
         /\ Cardinality(T \union {n + 1}) = Cardinality(T) + 1
  <1>1. IsFiniteSet(1 .. n)
    BY FS_Interval
  <1>2. IsFiniteSet(T)
    BY <1>1, FS_Subset
  <1>3. n + 1 \notin T
    OBVIOUS
  <1>4. QED BY <1>2, <1>3, FS_CardinalityType, FS_AddElement

LEMMA NoneCounted ==
  ASSUME NEW l, NEW ran
  PROVE  Counts(l, 0, ran) = [tests |-> 0, passed |-> 0, failed |-> 0,
                              lastPassed |-> 0, lastFailed |-> 0]
  <1>1. \A r : Those(l, 0, r) = {}
    BY DEF Those
  <1>2. {} \cap ran = {}
    OBVIOUS
  <1>3. Cardinality({}) = 0
    BY FS_EmptySet
  <1>4. QED BY <1>1, <1>2, <1>3 DEF Counts

\* The next test is looked at: the numbers become those of Counted.
LEMMA CountsOneMore ==
  ASSUME NEW n \in Nat, NEW k, k = n + 1, NEW l, NEW m, NEW ran, NEW res,
         \A j \in 1 .. n : m[j].result = l[j].result,
         res = Counts(l, n, ran)
  PROVE  /\ k \in ran => Called(res, m[k].result) = Counts(m, k, ran)
         /\ k \notin ran => PassedOver(res, m[k].result) = Counts(m, k, ran)
  <1> DEFINE Before(r) == Those(l, n, r)
             After(r) == Those(m, n + 1, r)
             got == m[n + 1].result
             Add(b) == IF b THEN 1 ELSE 0
  <1>1. ASSUME NEW r
        PROVE  /\ Before(r) \subseteq 1 .. n
               /\ got = r => After(r) = Before(r) \union {n + 1}
               /\ got # r => After(r) = Before(r)
    <2>1. \A j : j \in 1 .. n + 1 <=> j \in 1 .. n \/ j = n + 1
      OBVIOUS
    <2>2. n + 1 \notin 1 .. n
      OBVIOUS
    <2>3. QED BY <2>1, <2>2 DEF Those
  <1>2. ASSUME NEW r
        PROVE  /\ got = r => Cardinality(After(r)) = Cardinality(Before(r)) + 1
               /\ got # r => Cardinality(After(r)) = Cardinality(Before(r)) + 0
               /\ got = r /\ n + 1 \in ran =>
                    Cardinality(After(r) \cap ran) = Cardinality(Before(r) \cap ran) + 1
               /\ ~ (got = r /\ n + 1 \in ran) =>
                    Cardinality(After(r) \cap ran) = Cardinality(Before(r) \cap ran) + 0
    <2>1. /\ Before(r) \subseteq 1 .. n
          /\ got = r => After(r) = Before(r) \union {n + 1}
          /\ got # r => After(r) = Before(r)
      BY <1>1
    <2> HIDE DEF Before, After, got
    <2>2. /\ Cardinality(Before(r)) \in Nat
          /\ Cardinality(Before(r) \union {n + 1}) = Cardinality(Before(r)) + 1
      BY <2>1, OneMoreCounted
    <2>3. Before(r) \cap ran \subseteq 1 .. n
      BY <2>1
    <2>4. /\ Cardinality(Before(r) \cap ran) \in Nat
          /\ Cardinality((Before(r) \cap ran) \union {n + 1}) = Cardinality(Before(r) \cap ran) + 1
      BY <2>3, OneMoreCounted
    <2>5. /\ n + 1 \in ran =>
               (Before(r) \union {n + 1}) \cap ran = (Before(r) \cap ran) \union {n + 1}
          /\ n + 1 \notin ran => (Before(r) \union {n + 1}) \cap ran = Before(r) \cap ran
      OBVIOUS
    <2>6. CASE got = r /\ n + 1 \in ran
      BY <2>1, <2>2, <2>4, <2>5, <2>6
    <2>7. CASE got = r /\ n + 1 \notin ran
      <3>1. After(r) = Before(r) \union {n + 1}
        BY <2>1, <2>7
      <3>2. After(r) \cap ran = Before(r) \cap ran
        BY <2>5, <2>7, <3>1
      <3>3. QED BY <2>2, <2>4, <2>7, <3>1, <3>2
    <2>8. CASE got # r
      BY <2>1, <2>2, <2>4, <2>8
    <2>9. QED BY <2>6, <2>7, <2>8
  <1>3. /\ res.tests = n
        /\ res.passed = Cardinality(Before("pass"))
        /\ res.failed = Cardinality(Before("failed"))
        /\ res.lastPassed = Cardinality(Before("pass") \cap ran)
        /\ res.lastFailed = Cardinality(Before("failed") \cap ran)
    BY DEF Counts
  <1>4. /\ Test!Counted(res, TRUE, got) =
             [tests |-> n + 1,
              passed |-> Cardinality(Before("pass")) + Add(got = "pass"),
              failed |-> Cardinality(Before("failed")) + Add(got = "failed"),
              lastPassed |-> Cardinality(Before("pass") \cap ran) + Add(got = "pass"),
              lastFailed |-> Cardinality(Before("failed") \cap ran) + Add(got = "failed")]
        /\ Test!Counted(res, FALSE, got) =
             [tests |-> n + 1,
              passed |-> Cardinality(Before("pass")) + Add(got = "pass"),
              failed |-> Cardinality(Before("failed")) + Add(got = "failed"),
              lastPassed |-> Cardinality(Before("pass") \cap ran) + 0,
              lastFailed |-> Cardinality(Before("failed") \cap ran) + 0]
    <2>1. res = [tests |-> n, passed |-> Cardinality(Before("pass")),
                 failed |-> Cardinality(Before("failed")),
                 lastPassed |-> Cardinality(Before("pass") \cap ran),
                 lastFailed |-> Cardinality(Before("failed") \cap ran)]
      BY DEF Counts
    <2> HIDE DEF Before, got
    <2>2. QED BY <2>1 DEF Test!Counted, Test!One, Test!Pass, Test!Failed
  <1>5. Counts(m, n + 1, ran) =
          [tests |-> n + 1,
           passed |-> Cardinality(After("pass")), failed |-> Cardinality(After("failed")),
           lastPassed |-> Cardinality(After("pass") \cap ran),
           lastFailed |-> Cardinality(After("failed") \cap ran)]
    BY DEF Counts
  <1> HIDE DEF Before, After, got
  <1>6. n + 1 \in ran => Test!Counted(res, TRUE, got) = Counts(m, n + 1, ran)
    BY <1>2, <1>4, <1>5
  <1>7. n + 1 \notin ran => Test!Counted(res, FALSE, got) = Counts(m, n + 1, ran)
    BY <1>2, <1>4, <1>5
  <1>8. QED BY <1>6, <1>7 DEF got, Called, PassedOver

LEMMA InitTestInv == Test!Init => TestInv
  <1>1. SUFFICES ASSUME Test!Init PROVE TestInv
    OBVIOUS
  <1>2. list = <<>> /\ lock = <<>> /\ run = Test!NoRun /\ report = Test!NoReport
    BY <1>1 DEF Test!Init
  <1>3. TestTypes /\ Sorted /\ RunLocked /\ RunAdds
    BY <1>2 DEF TestTypes, Sorted, RunLocked, RunAdds, Test!NoRun
  <1>4. /\ report.list = <<>> /\ report.ran = {} /\ Len(report.list) = 0
        /\ report.results = Test!NoResults
    BY <1>2 DEF Test!NoReport
  <1>5. ReportAdds
    BY <1>4, NoneCounted DEF ReportAdds, Test!NoResults
  <1>6. QED BY <1>3, <1>5 DEF TestInv

\* A thread that may lock the list while another one's run goes on is that one.
LEMMA OnlyTheRunner ==
  ASSUME RunLocked, NEW t, Test!CanLock(t), run.by # {t}
  PROVE  run.by = {}
  BY DEF RunLocked, Test!CanLock

\* Where spd_test_register puts a test.
LEMMA InsertedInOrder ==
  ASSUME RanksKnown, TestInv, NEW t, NEW cb \in Tests, Test!Register(t, cb)
  PROVE  TestInv'
  <1> DEFINE new == [cb |-> cb, result |-> "not run"]
             rank == CategoryRank[CategoryOf[cb]]
             I == {i \in 1 .. Len(list) : Of(list, i) >= rank}
  <1>1. /\ list \in Seq(Entry) /\ Len(list) \in Nat
        /\ \A i \in 1 .. Len(list) : list[i] \in Entry /\ Of(list, i) \in Int
        /\ new \in Entry /\ rank \in Int /\ new.cb = cb
    <2>1. list \in Seq(Entry)
      BY DEF TestInv, TestTypes
    <2>2. Len(list) \in Nat /\ \A i \in 1 .. Len(list) : list[i] \in Entry
      BY <2>1, LenProperties, ElementOfSeq
    <2>3. new \in Entry
      BY DEF Entry, Outcomes
    <2>4. \A i \in 1 .. Len(list) : list[i].cb \in Tests
      BY <2>2 DEF Entry
    <2>5. QED BY <2>1, <2>2, <2>3, <2>4, Zenon DEF RanksKnown, Of
  <1>2. PICK less : less = Test!SelectInSeq(list, LAMBDA x : CategoryRank[CategoryOf[x.cb]] >= CategoryRank[CategoryOf[cb]])
    OBVIOUS
  <1>3. less = IF I # {} THEN Test!Min(I) ELSE 0
    BY <1>2 DEF Test!SelectInSeq, Of
  <1> HIDE DEF new, rank
  <1>4. /\ I = {} => less = 0
        /\ I # {} => less \in I /\ \A i \in I : less <= i
    <2>1. I # {} => Test!Min(I) = Min(I)
      BY DEF Test!Min, Min
    <2>2. I \subseteq Nat
      BY <1>1
    <2>3. I # {} => Min(I) \in I /\ \A i \in I : Min(I) <= i
      <3> HIDE DEF I
      <3> QED BY <2>2, MinIsLeast, Zenon
    <2>4. QED BY <1>3, <2>1, <2>3
  <1>5. PICK k : k = IF less = 0 THEN Len(list) + 1 ELSE less
    OBVIOUS
  <1>6. /\ k \in 1 .. Len(list) + 1
        /\ \A i \in 1 .. Len(list) : i < k => Of(list, i) < rank
        /\ k <= Len(list) => rank <= Of(list, k)
    <2>1. CASE I = {}
      <3>1. \A i \in 1 .. Len(list) : Of(list, i) < rank
        BY <1>1, <2>1
      <3>2. k = Len(list) + 1
        BY <1>4, <1>5, <2>1
      <3>3. QED BY <1>1, <3>1, <3>2
    <2>2. CASE I # {}
      <3>1. k = less /\ k \in I /\ \A i \in I : k <= i
        BY <1>1, <1>4, <1>5, <2>2
      <3>2. \A i \in 1 .. Len(list) : i < k => i \notin I
        BY <1>1, <3>1
      <3>3. QED BY <1>1, <3>1, <3>2
    <2>3. QED BY <2>1, <2>2
  <1>7. /\ list' = Test!InsertAt(list, k, new)
        /\ Test!CanLock(t) /\ run.by # {t}
        /\ UNCHANGED <<lock, run, results, report>>
    BY <1>2, <1>5, Zenon DEF Test!Register, Test!NotRun, new
  <1>8. Test!InsertAt(list, k, new) = InsertAt(list, k, new)
    BY DEF Test!InsertAt, InsertAt
  <1>9. /\ list' \in Seq(Entry) /\ Len(list') = Len(list) + 1
        /\ \A j \in 1 .. Len(list) + 1 :
             list'[j] = IF j < k THEN list[j] ELSE IF j = k THEN new ELSE list[j - 1]
    <2>1. /\ InsertAt(list, k, new) \in Seq(Entry)
          /\ Len(InsertAt(list, k, new)) = Len(list) + 1
          /\ \A j \in 1 .. Len(list) + 1 :
               InsertAt(list, k, new)[j] =
                 IF j < k THEN list[j] ELSE IF j = k THEN new ELSE list[j - 1]
      <3>1. list \in Seq(Entry) /\ new \in Entry /\ k \in 1 .. Len(list) + 1
        BY <1>1, <1>6
      <3>2. QED BY <3>1, InsertedAt
    <2>2. QED BY <1>7, <1>8, <2>1, Zenon
  <1>10. Sorted'
    <2>1. SUFFICES ASSUME NEW i \in 2 .. Len(list')
                   PROVE  Of(list', i - 1) <= Of(list', i)
      BY DEF Sorted, Of
    <2>2. i \in 1 .. Len(list) + 1 /\ i - 1 \in 1 .. Len(list) + 1 /\ i >= 2 /\ i \in Nat /\ k \in Nat
      BY <1>1, <1>6, <1>9
    <2>3. new.cb = cb
      BY <1>1
    <2>4. CASE i < k
      <3>1. list'[i] = list[i] /\ list'[i - 1] = list[i - 1] /\ i \in 2 .. Len(list)
        BY <1>1, <1>6, <1>9, <2>2, <2>4
      <3>2. QED BY <3>1 DEF TestInv, Sorted, Of
    <2>5. CASE i = k
      <3>1. list'[i] = new /\ list'[i - 1] = list[i - 1] /\ i - 1 \in 1 .. Len(list) /\ i - 1 < k
        BY <1>1, <1>6, <1>9, <2>2, <2>5
      <3>2. Of(list, i - 1) < rank /\ Of(list, i - 1) \in Int
        BY <1>1, <1>6, <3>1
      <3>3. Of(list', i) = rank /\ Of(list', i - 1) = Of(list, i - 1)
        BY <2>3, <3>1 DEF Of, rank
      <3>4. QED BY <1>1, <3>2, <3>3
    <2>6. CASE i = k + 1
      <3>1. list'[i] = list[k] /\ list'[i - 1] = new /\ k <= Len(list)
        BY <1>1, <1>6, <1>9, <2>2, <2>6
      <3>2. Of(list', i) = Of(list, k) /\ Of(list', i - 1) = rank
        BY <2>3, <3>1 DEF Of, rank
      <3>3. QED BY <1>6, <3>1, <3>2
    <2>7. CASE i > k + 1
      <3>1. list'[i] = list[i - 1] /\ list'[i - 1] = list[(i - 1) - 1] /\ i - 1 \in 2 .. Len(list)
        BY <1>1, <1>6, <1>9, <2>2, <2>7
      <3>2. QED BY <3>1 DEF TestInv, Sorted, Of
    <2>8. QED BY <2>2, <2>4, <2>5, <2>6, <2>7
  <1>11. run.by = {} /\ run' = run /\ lock' = lock /\ report' = report
    BY <1>7, OnlyTheRunner DEF TestInv
  <1>12. TestTypes' /\ RunLocked' /\ RunAdds' /\ ReportAdds'
    BY <1>9, <1>11, Zenon DEF TestInv, TestTypes, RunLocked, RunAdds, ReportAdds
  <1>13. QED BY <1>10, <1>12 DEF TestInv

LEMMA UnregisterKeepsOrder ==
  ASSUME RanksKnown, TestInv, NEW t, NEW cb \in Tests, Test!Unregister(t, cb)
  PROVE  TestInv'
  <1> DEFINE I == {i \in 1 .. Len(list) : list[i].cb = cb}
  <1>1. list \in Seq(Entry) /\ Len(list) \in Nat
    BY LenProperties DEF TestInv, TestTypes
  <1>2. PICK k : k = Test!SelectInSeq(list, LAMBDA x : x.cb = cb)
    OBVIOUS
  <1>3. k = 0 \/ k \in 1 .. Len(list)
    <2>1. k = IF I # {} THEN Test!Min(I) ELSE 0
      BY <1>2 DEF Test!SelectInSeq
    <2>2. I # {} => Test!Min(I) = Min(I)
      BY DEF Test!Min, Min
    <2>3. I \subseteq Nat
      BY <1>1
    <2>4. I # {} => Min(I) \in I
      <3> HIDE DEF I
      <3> QED BY <2>3, MinIsLeast
    <2>5. QED BY <2>1, <2>2, <2>4
  <1>4. /\ list' = IF k = 0 THEN list ELSE Test!RemoveAt(list, k)
        /\ Test!CanLock(t) /\ run.by # {t}
        /\ UNCHANGED <<lock, run, results, report>>
    BY <1>2 DEF Test!Unregister
  <1>5. Test!RemoveAt(list, k) = RemoveAt(list, k)
    BY DEF Test!RemoveAt, RemoveAt
  <1>6. list' \in Seq(Entry) /\ Sorted'
    <2>1. CASE k = 0
      BY <1>1, <1>4, <2>1 DEF TestInv, Sorted, Of
    <2>2. CASE k \in 1 .. Len(list)
      <3>1. list' = RemoveAt(list, k)
        BY <1>1, <1>4, <1>5, <2>2
      <3>2. /\ list' \in Seq(Entry) /\ Len(list') = Len(list) - 1
            /\ \A j \in 1 .. Len(list) - 1 : list'[j] = list[IF j < k THEN j ELSE j + 1]
        BY <1>1, <2>2, <3>1, RemovedAt
      <3>3. SUFFICES ASSUME NEW i \in 2 .. Len(list')
                     PROVE  Of(list', i - 1) <= Of(list', i)
        BY <3>2 DEF Sorted, Of
      <3>4. i \in 1 .. Len(list) - 1 /\ i - 1 \in 1 .. Len(list) - 1 /\ i \in Nat /\ k \in Nat /\ i >= 2
        BY <1>1, <2>2, <3>2
      <3>5. \A j \in 2 .. Len(list) : Of(list, j - 1) <= Of(list, j)
        BY DEF TestInv, Sorted
      <3>6. CASE i < k
        <4>1. list'[i] = list[i] /\ list'[i - 1] = list[i - 1] /\ i \in 2 .. Len(list)
          <5>1. i - 1 < k /\ i \in 2 .. Len(list)
            BY <1>1, <3>4, <3>6
          <5>2. QED BY <3>2, <3>4, <3>6, <5>1, Zenon
        <4>2. QED BY <3>5, <4>1 DEF Of
      <3>7. CASE i = k
        <4>1. list'[i] = list[i + 1] /\ list'[i - 1] = list[i - 1]
              /\ i \in 2 .. Len(list) /\ i + 1 \in 2 .. Len(list) /\ (i + 1) - 1 = i
          BY <1>1, <3>2, <3>4, <3>7
        <4>2. Of(list, i - 1) <= Of(list, i) /\ Of(list, i) <= Of(list, i + 1)
          BY <3>5, <4>1
        <4>3. \A j \in 1 .. Len(list) : Of(list, j) \in Int
          <5>1. \A j \in 1 .. Len(list) : list[j] \in Entry
            BY <1>1, ElementOfSeq
          <5>2. \A j \in 1 .. Len(list) : list[j].cb \in Tests
            BY <5>1 DEF Entry
          <5>3. QED BY <5>2, Zenon DEF RanksKnown, Of
        <4>4. Of(list, i - 1) \in Int /\ Of(list, i) \in Int /\ Of(list, i + 1) \in Int
          BY <1>1, <3>4, <4>1, <4>3
        <4>5. Of(list', i - 1) = Of(list, i - 1) /\ Of(list', i) = Of(list, i + 1)
          BY <4>1 DEF Of
        <4>6. QED BY <4>2, <4>4, <4>5
      <3>8. CASE i > k
        <4>1. list'[i] = list[i + 1] /\ list'[i - 1] = list[(i + 1) - 1] /\ i + 1 \in 2 .. Len(list)
          <5>1. ~ (i < k) /\ ~ (i - 1 < k) /\ (i - 1) + 1 = (i + 1) - 1 /\ i + 1 \in 2 .. Len(list)
            BY <1>1, <3>4, <3>8
          <5>2. QED BY <3>2, <3>4, <5>1, Zenon
        <4>2. QED BY <3>5, <4>1 DEF Of
      <3>9. QED BY <3>4, <3>6, <3>7, <3>8
    <2>3. QED BY <1>3, <2>1, <2>2
  <1>7. run.by = {} /\ run' = run /\ lock' = lock /\ report' = report
    BY <1>4, OnlyTheRunner DEF TestInv
  <1>8. TestTypes' /\ RunLocked' /\ RunAdds' /\ ReportAdds'
    BY <1>6, <1>7, Zenon DEF TestInv, TestTypes, RunLocked, RunAdds, ReportAdds
  <1>9. QED BY <1>6, <1>8 DEF TestInv

LEMMA RunBegins ==
  ASSUME TestInv, NEW t \in Threads, Test!Run(t)
  PROVE  TestInv'
  <1>1. PICK category, name :
          run' = [by |-> {t}, i |-> 1, category |-> category, name |-> name]
    BY DEF Test!Run
  <1>2. /\ lock' = Append(lock, t) /\ results' = Test!NoResults
        /\ list' = list /\ report' = report
    BY DEF Test!Run
  <1>3. TestTypes' /\ Sorted' /\ ReportAdds'
    <2>1. lock' \in Seq(Threads)
      BY <1>2, AppendProperties DEF TestInv, TestTypes
    <2>2. QED BY <1>1, <1>2, <2>1, Zenon DEF TestInv, TestTypes, Sorted, ReportAdds, Of
  <1>4. RunLocked'
    <2>3. lock \in Seq(Threads) /\ Len(lock) \in Nat
      BY LenProperties DEF TestInv, TestTypes
    <2>4. /\ DOMAIN Append(lock, t) = 1 .. Len(lock) + 1
          /\ Append(lock, t)[Len(lock) + 1] = t
      BY <2>3, AppendProperties
    <2>1. t \in Test!Range(Append(lock, t))
      BY <2>3, <2>4 DEF Test!Range
    <2>2. QED BY <1>1, <1>2, <2>1 DEF RunLocked
  <1>5. RunAdds'
    <2>1. Len(list') \in Nat
      BY <1>2, LenProperties DEF TestInv, TestTypes
    <2>2. run'.i = 1 /\ run'.i - 1 = 0
      BY <1>1
    <2>3. \A ran : Test!NoResults = Counts(list', 0, ran)
      BY NoneCounted, Zenon DEF Test!NoResults
    <2>4. 1 \in 1 .. Len(list') + 1
      BY <2>1
    <2>5. results' = Counts(list', 0, Looked(list)')
      BY <1>2, <2>3, Zenon
    <2>6. QED BY <2>2, <2>4, <2>5, Zenon DEF RunAdds
  <1>6. QED BY <1>3, <1>4, <1>5 DEF TestInv

\* The test that the run has come to is looked at, and called if it is wanted.
LEMMA OneIsCounted ==
  ASSUME TestInv, NEW t, Test!RunOne(t)
  PROVE  TestInv'
  <1>1. PICK n, wanted :
          /\ n = run.i
          /\ wanted = Looked(list)
    OBVIOUS
  <1>2. /\ list \in Seq(Entry) /\ Len(list) \in Nat
        /\ n \in 1 .. Len(list) /\ n - 1 \in Nat /\ (n - 1) + 1 = n
        /\ run.by = {t} /\ run.by # {}
        /\ list[n] \in Entry
        /\ results = Counts(list, n - 1, wanted)
    <2>1. run.by = {t} /\ run.i <= Len(list)
      BY DEF Test!RunOne
    <2>2. list \in Seq(Entry) /\ Len(list) \in Nat
      BY LenProperties DEF TestInv, TestTypes
    <2>3. run.i \in 1 .. Len(list) + 1
      BY <2>1, Zenon DEF TestInv, RunAdds
    <2>4. run.i \in 1 .. Len(list)
      BY <2>1, <2>2, <2>3
    <2>5. n \in 1 .. Len(list) /\ n - 1 \in Nat /\ (n - 1) + 1 = n
      BY <1>1, <2>2, <2>4
    <2>6. list[n] \in Entry
      BY <2>2, <2>5, ElementOfSeq
    <2>7. results = Counts(list, n - 1, wanted)
      BY <1>1, <2>1, Zenon DEF TestInv, RunAdds
    <2>8. QED BY <2>1, <2>2, <2>5, <2>6, <2>7, Zenon
  <1>num. /\ n \in Nat /\ n >= 1 /\ n <= Len(list) /\ Len(list) \in Nat
          /\ \A j \in 1 .. n - 1 : j \in 1 .. Len(list) /\ j # n
          /\ \A j \in 1 .. n : j \in 1 .. n - 1 \/ j = n
          /\ \A j \in 2 .. Len(list) : j \in 1 .. Len(list) /\ j - 1 \in 1 .. Len(list)
          /\ (n + 1) - 1 = n /\ n + 1 \in 1 .. Len(list) + 1
    <2>1. Len(list) \in Nat /\ n \in 1 .. Len(list)
      BY <1>2, Zenon
    <2>2. QED BY <2>1
  <1>3. Test!Wanted(list[n].cb) <=> n \in wanted
    BY <1>1, <1>2, Zenon DEF Looked
  <1>4. PICK got :
          /\ n \in wanted => got \in {"pass", "failed"}
          /\ n \notin wanted => got = list[n].result
          /\ list' = [list EXCEPT ![n].result = got]
          /\ n \in wanted => results' = Called(results, got)
          /\ n \notin wanted => results' = PassedOver(results, got)
    <2>1. CASE n \in wanted
      <3>1. Test!Wanted(list[run.i].cb)
        BY <1>1, <1>3, <2>1
      <3>2. PICK r \in {"not run", "pass", "failed"} :
              LET got == IF r = "not run" THEN "failed" ELSE r
              IN  /\ list' = [list EXCEPT ![run.i].result = got]
                  /\ results' = Called(results, got)
        BY <3>1, Zenon DEF Test!RunOne, Test!NotRun, Test!Pass, Test!Failed, Test!Counted, Test!One, Called
      <3>3. (IF r = "not run" THEN "failed" ELSE r) \in {"pass", "failed"}
        BY Zenon
      <3>4. QED BY <1>1, <2>1, <3>2, <3>3, Zenon
    <2>2. CASE n \notin wanted
      <3>1. ~ Test!Wanted(list[run.i].cb)
        BY <1>1, <1>3, <2>2
      <3>2. /\ list' = [list EXCEPT ![run.i].result = list[run.i].result]
            /\ results' = PassedOver(results, list[run.i].result)
        BY <3>1 DEF Test!RunOne, Test!Counted, Test!One, PassedOver
      <3>3. QED BY <1>1, <2>2, <3>2
    <2>3. QED BY <2>1, <2>2
  <1>5. got \in Outcomes
    BY <1>2, <1>4, Zenon DEF Entry, Outcomes
  <1>6. /\ list' \in Seq(Entry) /\ Len(list') = Len(list)
        /\ \A j \in 1 .. Len(list) : list'[j].cb = list[j].cb
        /\ \A j \in 1 .. n - 1 : list'[j].result = list[j].result
        /\ list'[n].result = got
    <2>1. PICK e : e = [list[n] EXCEPT !.result = got]
      OBVIOUS
    <2>2. e \in Entry /\ e.cb = list[n].cb /\ e.result = got
      BY <1>2, <1>5, <2>1, Zenon DEF Entry
    <2>3. list' = [list EXCEPT ![n] = e]
      BY <1>4, <2>1
    <2>4. /\ list' \in Seq(Entry) /\ Len(list') = Len(list)
          /\ \A j \in 1 .. Len(list) : list'[j] = IF j = n THEN e ELSE list[j]
      <3>1. list \in Seq(Entry) /\ n \in 1 .. Len(list) /\ e \in Entry
        BY <1>2, <2>2, Zenon
      <3>2. QED BY <2>3, <3>1, ReplacedAt
    <2>5. \A j \in 1 .. n - 1 : j \in 1 .. Len(list) /\ j # n
      BY <1>num
    <2>6. QED BY <1>2, <2>2, <2>4, <2>5, Zenon
  <1>7. /\ run'.i = n + 1 /\ run'.by = run.by /\ run'.category = run.category
        /\ run'.name = run.name
        /\ run' = [by |-> run'.by, i |-> run'.i, category |-> run'.category, name |-> run'.name]
    <2>1. run = [by |-> run.by, i |-> run.i, category |-> run.category, name |-> run.name]
      BY DEF TestInv, TestTypes
    <2>2. run' = [run EXCEPT !.i = @ + 1]
      BY DEF Test!RunOne
    <2>3. run' = [by |-> run.by, i |-> run.i + 1, category |-> run.category, name |-> run.name]
      BY <2>1, <2>2
    <2>4. QED BY <1>1, <2>3
  <1>8. lock' = lock /\ report' = report
    BY DEF Test!RunOne
  <1>9. Looked(list)' = wanted
    <2>1. \A j \in 1 .. Len(list) : Test!Wanted(list[j].cb)' <=> Test!Wanted(list[j].cb)
      BY Zenon, <1>6, <1>7 DEF Test!Wanted, Test!InCategory, Test!Null, Test!Empty
    <2>2. QED BY <1>1, <1>6, <2>1 DEF Looked
  <1>10. results' = Counts(list', n, wanted)
    <2>1. n - 1 \in Nat /\ n = (n - 1) + 1 /\ results = Counts(list, n - 1, wanted)
      BY <1>2, Zenon
    <2>2. \A j \in 1 .. n - 1 : list'[j].result = list[j].result
      BY <1>6
    <2>3. /\ n \in wanted => Called(results, list'[n].result) = Counts(list', n, wanted)
          /\ n \notin wanted => PassedOver(results, list'[n].result) = Counts(list', n, wanted)
      BY <2>1, <2>2, CountsOneMore
    <2>4. QED BY <1>4, <1>6, <2>3
  <1>11. RunAdds'
    <2>1. run'.i - 1 = n /\ run'.i \in 1 .. Len(list') + 1
      BY <1>num, <1>6, <1>7
    <2>2. QED BY <1>9, <1>10, <2>1, Zenon DEF RunAdds
  <1>12. TestTypes' /\ RunLocked' /\ ReportAdds'
    BY <1>6, <1>7, <1>8, Zenon DEF TestInv, TestTypes, RunLocked, ReportAdds
  <1>13. Sorted'
    <2>1. \A i \in 2 .. Len(list) : i \in 1 .. Len(list) /\ i - 1 \in 1 .. Len(list)
      BY <1>num
    <2>2. \A j \in 1 .. Len(list) : Of(list', j) = Of(list, j)
      BY <1>6 DEF Of
    <2>3. \A i \in 2 .. Len(list) : Of(list', i - 1) <= Of(list', i)
      BY <2>1, <2>2 DEF TestInv, Sorted
    <2>4. QED BY <1>6, <2>3 DEF Sorted, Of
  <1>14. QED BY <1>11, <1>12, <1>13 DEF TestInv

LEMMA ReportOfRun ==
  ASSUME TestInv, NEW t, Test!RunReturns(t)
  PROVE  TestInv'
  <1>1. /\ run.by = {t} /\ run.by # {} /\ run.i > Len(list) /\ run' = Test!NoRun
        /\ list' = list
        /\ report' = [list |-> list, category |-> run.category, name |-> run.name,
                      results |-> results, ran |-> {i \in DOMAIN list : Test!Wanted(list[i].cb)}]
    BY DEF Test!RunReturns
  <1>2. list \in Seq(Entry) /\ Len(list) \in Nat /\ DOMAIN list = 1 .. Len(list)
    BY LenProperties DEF TestInv, TestTypes
  <1>3. run.i \in 1 .. Len(list) + 1
    BY <1>1, Zenon DEF TestInv, RunAdds
  <1>4. run.i - 1 = Len(list)
    BY <1>1, <1>2, <1>3
  <1>5. report'.list = list /\ report'.results = results /\ report'.ran = Looked(list)
    BY <1>1, <1>2 DEF Looked
  <1>6. results = Counts(list, Len(list), Looked(list))
    BY <1>1, <1>4, Zenon DEF TestInv, RunAdds
  <1>7. ReportAdds'
    BY <1>2, <1>5, <1>6, Zenon DEF ReportAdds
  <1>8. lock' \in Seq(Threads)
    <2>1. lock \in Seq(Threads) /\ Len(lock) \in Nat /\ DOMAIN lock = 1 .. Len(lock)
      BY LenProperties DEF TestInv, TestTypes
    <2>2. PICK i \in DOMAIN lock : TRUE
      BY <1>1 DEF TestInv, RunLocked, Test!Range
    <2>3. Len(lock) - 1 \in 0 .. Len(lock)
      BY <2>1, <2>2
    <2>4. Test!Front(lock) = SubSeq(lock, 1, Len(lock) - 1)
      BY DEF Test!Front
    <2>5. SubSeq(lock, 1, Len(lock) - 1) \in Seq(Threads)
      BY <2>1, <2>3
    <2>6. lock' = lock \/ lock' = Test!Front(lock)
      BY DEF Test!RunReturns
    <2>7. QED BY <2>1, <2>4, <2>5, <2>6
  <1>9. TestTypes' /\ Sorted' /\ RunLocked' /\ RunAdds'
    BY <1>1, <1>8, Zenon DEF TestInv, TestTypes, Sorted, RunLocked, RunAdds, Of, Test!NoRun
  <1>10. QED BY <1>7, <1>9 DEF TestInv

LEMMA StepTestInv ==
  ASSUME RanksKnown, TestInv, [Test!Next]_TestVars
  PROVE  TestInv'
  <1>1. CASE Test!Next
    <2>1. PICK t \in Threads :
            \/ \E cb \in Tests : Test!Register(t, cb) \/ Test!Unregister(t, cb)
            \/ Test!Run(t) \/ Test!RunOne(t) \/ Test!RunReturns(t)
      BY <1>1 DEF Test!Next
    <2>2. QED BY <2>1, InsertedInOrder, UnregisterKeepsOrder, RunBegins, OneIsCounted,
                ReportOfRun
  <1>2. CASE UNCHANGED TestVars
    <2>1. list' = list /\ lock' = lock /\ run' = run /\ results' = results /\ report' = report
      BY <1>2 DEF TestVars
    <2>2. Looked(list)' = Looked(list)
      BY <2>1 DEF Looked, Test!Wanted, Test!InCategory, Test!Null, Test!Empty
    <2>3. QED BY <2>1, <2>2, Zenon
              DEF TestInv, TestTypes, Sorted, RunLocked, RunAdds, ReportAdds, Of
  <1>3. QED BY <1>1, <1>2

LEMMA TestsAddUpThen ==
  ASSUME TestInv
  PROVE  Test!TestsAddUp
  <1>1. DOMAIN report.list = 1 .. Len(report.list)
    BY LenProperties, Zenon DEF TestInv, ReportAdds
  <1>2. \A r : Test!With(r) = Those(report.list, Len(report.list), r)
    BY <1>1 DEF Test!With, Those
  <1>3. \A S : Test!Cardinality(S) = Cardinality(S)
    BY Zenon DEF Test!Cardinality, Cardinality
  <1>4. report.results =
          [tests |-> Len(report.list),
           passed |-> Test!Cardinality(Test!With("pass")),
           failed |-> Test!Cardinality(Test!With("failed")),
           lastPassed |-> Test!Cardinality(Test!With("pass") \cap report.ran),
           lastFailed |-> Test!Cardinality(Test!With("failed") \cap report.ran)]
    BY <1>2, <1>3, Zenon DEF TestInv, ReportAdds, Counts
  <1>5. \A i \in 2 .. Len(list) :
          CategoryRank[CategoryOf[list[i - 1].cb]] <= CategoryRank[CategoryOf[list[i].cb]]
    BY DEF TestInv, Sorted, Of
  <1>6. QED BY <1>4, <1>5, Zenon DEF Test!TestsAddUp, Test!Pass, Test!Failed

\* After whatever calls of whatever threads: a report counts the tests that were in the list
\* when the run returned and what came of those it called, and the list is sorted
\* (spd_test_run, spd_test_register, spd_test_unregister).
THEOREM ReportsAddUp ==
  ASSUME RanksKnown
  PROVE  Test!Spec => []Test!TestsAddUp
  <1>1. Test!Init => TestInv
    BY InitTestInv
  <1>2. TestInv /\ [Test!Next]_TestVars => TestInv'
    BY StepTestInv
  <1>3. TestInv => Test!TestsAddUp
    BY TestsAddUpThen
  <1>4. QED BY <1>1, <1>2, <1>3, PTL DEF Test!Spec, Test!vars, TestVars

=============================================================================
