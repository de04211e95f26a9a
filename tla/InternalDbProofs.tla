-------------------------- MODULE InternalDbProofs --------------------------
(***************************************************************************)
(* Theorems about InternalDb, for every set of families, keys and values,  *)
(* every choice of failures and any number of writes and starts.           *)
(***************************************************************************)
EXTENDS InternalDb, Basics, SequenceTheorems, TLAPS

----------------------------------------------------------------------------
(* The last write to a path. *)

\* The last write to a path, where there is one.
LEMMA LastWriter ==
  ASSUME NEW p, NEW writes, NEW n \in Nat, NEW i \in 1 .. n,
         p \in writes[i].paths, \A j \in i + 1 .. n : p \notin writes[j].paths
  PROVE  LastWritten(p, writes, n) = writes[i].value
  <1> DEFINE W == WritersOf(p, writes, n)
  <1>1. i \in W /\ W \subseteq 1 .. n
    BY DEF WritersOf
  <1>2. \A j \in W : j <= i
    BY DEF WritersOf
  <1>3. Max(W) = i
    <2>1. \E k \in W : \A j \in W : k >= j
      BY <1>1, <1>2
    <2>2. Max(W) \in W /\ \A j \in W : Max(W) >= j
      BY <2>1 DEF Max
    <2>3. Max(W) \in 1 .. n /\ Max(W) <= i /\ i <= Max(W)
      BY <1>1, <1>2, <2>2
    <2>4. QED BY <2>3
  <1>4. QED BY <1>1, <1>3 DEF LastWritten

\* Without one the path has no value.
LEMMA NeverWritten ==
  ASSUME NEW p, NEW writes, NEW n \in Nat, \A i \in 1 .. n : p \notin writes[i].paths
  PROVE  LastWritten(p, writes, n) = Nil
  BY DEF LastWritten, WritersOf

\* Two histories that begin with the same n writes say the same of them.
LEMMA SamePrefix ==
  ASSUME NEW p, NEW u, NEW v, NEW n \in Nat, \A i \in 1 .. n : u[i] = v[i]
  PROVE  LastWritten(p, u, n) = LastWritten(p, v, n)
  <1> DEFINE W == WritersOf(p, u, n)
  <1>1. CASE W = {}
    <2>1. \A i \in 1 .. n : p \notin u[i].paths /\ p \notin v[i].paths
      BY <1>1 DEF WritersOf
    <2>2. QED BY <2>1, NeverWritten
  <1>2. CASE W # {}
    <2>1. W \subseteq 1 .. n
      BY DEF WritersOf
    <2>2. PICK i \in W : \A j \in W : j <= i
      <3> HIDE DEF W
      <3> QED BY <1>2, <2>1, GreatestNumber
    <2>3. i \in 1 .. n /\ p \in u[i].paths /\ p \in v[i].paths /\ u[i] = v[i]
      BY DEF WritersOf
    <2>4. ASSUME NEW j \in i + 1 .. n
          PROVE  p \notin u[j].paths /\ p \notin v[j].paths
      <3>1. j \in 1 .. n /\ ~ (j <= i)
        BY <2>3
      <3>2. j \notin W
        BY <2>2, <3>1
      <3>3. QED BY <3>1, <3>2 DEF WritersOf
    <2>5. /\ LastWritten(p, u, n) = u[i].value
          /\ LastWritten(p, v, n) = v[i].value
      BY <2>3, <2>4, LastWriter
    <2>6. QED BY <2>3, <2>5
  <1>3. QED BY <1>1, <1>2

\* One more write, applied to what the writes before it had left.
LEMMA OneMoreWrite ==
  ASSUME NEW p \in Paths, NEW writes \in Seq(Writes), NEW w \in Writes,
         NEW rows, rows[p] = LastWritten(p, writes, Len(writes))
  PROVE  Applied(rows, w)[p] = LastWritten(p, Append(writes, w), Len(writes) + 1)
  <1> DEFINE n == Len(writes)
             more == Append(writes, w)
  <1>1. n \in Nat /\ n + 1 \in Nat /\ n + 1 \in 1 .. n + 1
    OBVIOUS
  <1>2. more[n + 1] = w /\ \A i \in 1 .. n : more[i] = writes[i]
    OBVIOUS
  <1> HIDE DEF n, more
  <1>3. CASE p \in w.paths
    <2>1. LastWritten(p, more, n + 1) = w.value
      <3>1. \A j \in (n + 1) + 1 .. n + 1 : p \notin more[j].paths
        BY <1>1
      <3>2. QED BY <1>1, <1>2, <1>3, <3>1, LastWriter
    <2>2. Applied(rows, w)[p] = w.value
      BY <1>3 DEF Applied
    <2>3. QED BY <2>1, <2>2 DEF more, n
  <1>4. CASE p \notin w.paths
    <2>1. Applied(rows, w)[p] = rows[p]
      BY <1>4 DEF Applied
    <2>2. LastWritten(p, more, n + 1) = LastWritten(p, more, n)
      <3>1. WritersOf(p, more, n + 1) = WritersOf(p, more, n)
        <4>1. \A i \in 1 .. n + 1 : i \in 1 .. n \/ i = n + 1
          BY <1>1
        <4>2. \A i \in 1 .. n : i \in 1 .. n + 1
          BY <1>1
        <4>3. QED BY <1>2, <1>4, <4>1, <4>2 DEF WritersOf
      <3>2. QED BY <3>1 DEF LastWritten
    <2>3. LastWritten(p, more, n) = LastWritten(p, writes, n)
      BY <1>1, <1>2, SamePrefix
    <2>4. QED BY <2>1, <2>2, <2>3 DEF more, n
  <1>5. QED BY <1>3, <1>4

----------------------------------------------------------------------------
(* The inductive invariant.                                                *)

\* Outside a transaction everything accepted is in the file.
NothingOpen == ~txn => mem = disk /\ synced = Len(log)

\* Without a process there is no thread and no transaction.
DownIsIdle == upc = "down" => spc = "none" /\ ~txn

\* From the start of its sleep to the end of its wait, the thread has committed all but what
\* came while it slept.
LeftIsAsleep ==
  spc \in {"sleep", "wait"} => \A i \in synced + 1 .. Len(log) : log[i].asleep

\* WaitsOnlyOnSleepers speaks of the thread that waits; it is inductive only with what holds
\* while it sleeps.
IInv ==
  /\ TypeOK
  /\ TransactionsPaired
  /\ NothingOpen
  /\ DownIsIdle
  /\ LeftIsAsleep
  /\ FileIsPrefix

\* The database file of a new installation is empty, and so is what was written.
LEMMA InitIInv == Init => IInv
  <1> SUFFICES ASSUME Init PROVE IInv
    OBVIOUS
  <1>1. Nil \in Values \cup {Nil} /\ Empty \in Rows
    BY DEF Empty, Rows
  <1>2. log = <<>> /\ synced = 0 /\ Len(log) = 0 /\ log \in Seq(Writes)
    BY DEF Init
  <1>3. TypeOK
    <2>1. starts \in 0 .. MaxStarts /\ synced \in 0 .. Len(log)
      BY <1>2, ConstantsAssumption DEF Init
    <2>2. disk \in Rows /\ mem \in Rows
      BY <1>1 DEF Init
    <2>3. QED BY <1>2, <2>1, <2>2 DEF Init, TypeOK
  <1>4. FileIsPrefix
    <2> SUFFICES ASSUME NEW p \in Paths
                 PROVE  Get(p) = LastWritten(p, log, Len(log)) /\ disk[p] = LastWritten(p, log, synced)
      BY DEF FileIsPrefix
    <2>1. LastWritten(p, log, 0) = Nil
      BY NeverWritten
    <2>2. mem[p] = Nil /\ disk[p] = Nil
      BY DEF Init, Empty
    <2>3. QED BY <1>2, <2>1, <2>2 DEF Get
  <1>5. QED
    BY <1>2, <1>3, <1>4 DEF Init, IInv, TransactionsPaired, NothingOpen, DownIsIdle, LeftIsAsleep

----------------------------------------------------------------------------
(* What a step does to the rows and to the history: nothing, one write more, *)
(* all of it to the file, or what the file does not have is lost.            *)

Kept == UNCHANGED <<disk, mem, log, synced>>

Extended(w) ==
  /\ Store(w)
  /\ log' = Append(log, w)

CutBack ==
  /\ mem' = disk /\ disk' = disk /\ synced' = synced
  /\ log' = SubSeq(log, 1, synced)

\* The types of the rows and the history, and FileIsPrefix, after each of the four.
HistoryOK ==
  /\ disk \in Rows /\ mem \in Rows
  /\ log \in Seq(Writes)
  /\ synced \in 0 .. Len(log)
  /\ FileIsPrefix

LEMMA ExtendedKeeps ==
  ASSUME IInv, NEW w \in Writes, Extended(w)
  PROVE  /\ HistoryOK'
         /\ Len(log') = Len(log) + 1 /\ log'[Len(log')] = w
         /\ \A i \in 1 .. Len(log) : log'[i] = log[i]
         /\ synced' >= synced
         /\ ~txn => mem' = disk' /\ synced' = Len(log')
         /\ txn => synced' = synced
  <1>1. /\ log \in Seq(Writes) /\ synced \in 0 .. Len(log) /\ disk \in Rows /\ mem \in Rows
        /\ FileIsPrefix /\ NothingOpen
    BY DEF IInv, TypeOK
  <1>2. /\ Len(log') = Len(log) + 1 /\ log'[Len(log')] = w /\ log' \in Seq(Writes)
        /\ \A i \in 1 .. Len(log) : log'[i] = log[i]
        /\ Len(log) \in Nat
    BY <1>1 DEF Extended
  <1>3. /\ mem' = Applied(mem, w)
        /\ disk' = IF txn THEN disk ELSE Applied(mem, w)
        /\ synced' = IF txn THEN synced ELSE Len(log) + 1
    BY DEF Extended, Store
  <1>4. Applied(mem, w) \in Rows
    BY <1>1 DEF Applied, Rows, Writes
  <1>5. ASSUME NEW p \in Paths
        PROVE  /\ Get(p)' = LastWritten(p, log', Len(log'))
               /\ disk'[p] = LastWritten(p, log', synced')
    <2>1. mem[p] = LastWritten(p, log, Len(log)) /\ disk[p] = LastWritten(p, log, synced)
      BY <1>1 DEF FileIsPrefix, Get
    <2>2. Applied(mem, w)[p] = LastWritten(p, log', Len(log) + 1)
      BY <1>1, <2>1, OneMoreWrite DEF Extended
    <2>3. LastWritten(p, log', synced) = LastWritten(p, log, synced)
      <3>1. synced \in Nat /\ \A i \in 1 .. synced : log'[i] = log[i]
        BY <1>1, <1>2
      <3>2. QED BY <3>1, SamePrefix
    <2>4. Get(p)' = LastWritten(p, log', Len(log'))
      BY <1>2, <1>3, <2>2 DEF Get
    <2>5. disk'[p] = LastWritten(p, log', synced')
      BY <1>3, <2>1, <2>2, <2>3
    <2>6. QED BY <2>4, <2>5
  <1>6. FileIsPrefix'
    BY <1>5 DEF FileIsPrefix
  <1>7. /\ disk' \in Rows /\ mem' \in Rows
        /\ synced' \in 0 .. Len(log') /\ synced' >= synced
        /\ ~txn => mem' = disk' /\ synced' = Len(log')
        /\ txn => synced' = synced
    BY <1>1, <1>2, <1>3, <1>4
  <1>8. QED BY <1>2, <1>6, <1>7 DEF HistoryOK

LEMMA CommitKeeps ==
  ASSUME IInv, Commit
  PROVE  HistoryOK' /\ mem' = disk' /\ synced' = Len(log') /\ synced' >= synced /\ log' = log
  <1>1. /\ log \in Seq(Writes) /\ synced \in 0 .. Len(log) /\ mem \in Rows
        /\ FileIsPrefix /\ Len(log) \in Nat
    BY DEF IInv, TypeOK
  <1>2. mem' = mem /\ disk' = mem /\ synced' = Len(log) /\ log' = log
    BY DEF Commit
  <1>3. FileIsPrefix'
    <2>1. \A p \in Paths : mem[p] = LastWritten(p, log, Len(log))
      BY <1>1 DEF FileIsPrefix, Get
    <2>2. QED BY <1>2, <2>1 DEF FileIsPrefix, Get
  <1>4. QED BY <1>1, <1>2, <1>3 DEF HistoryOK

LEMMA CutBackKeeps ==
  ASSUME IInv, CutBack
  PROVE  /\ HistoryOK' /\ mem' = disk' /\ synced' = Len(log') /\ synced' = synced
         /\ \A i \in 1 .. synced : log'[i] = log[i]
  <1>1. /\ log \in Seq(Writes) /\ synced \in 0 .. Len(log) /\ disk \in Rows
        /\ FileIsPrefix /\ Len(log) \in Nat
    BY DEF IInv, TypeOK
  <1>2. mem' = disk /\ disk' = disk /\ synced' = synced /\ log' = SubSeq(log, 1, synced)
    BY DEF CutBack
  <1>3. /\ log' \in Seq(Writes) /\ Len(log') = synced
        /\ \A i \in 1 .. synced : log'[i] = log[i]
    <2>1. synced \in Int /\ 1 \in Int /\ \A i \in 1 .. synced : log[i] \in Writes
      BY <1>1
    <2>2. /\ SubSeq(log, 1, synced) \in Seq(Writes)
          /\ Len(SubSeq(log, 1, synced)) = IF 1 <= synced THEN synced - 1 + 1 ELSE 0
          /\ \A i \in 1 .. synced - 1 + 1 : SubSeq(log, 1, synced)[i] = log[1 + i - 1]
      BY <2>1, SubSeqProperties
    <2>3. \A i \in 1 .. synced : i \in 1 .. synced - 1 + 1 /\ 1 + i - 1 = i
      BY <1>1
    <2>4. QED BY <1>1, <1>2, <2>2, <2>3
  <1>4. ASSUME NEW p \in Paths
        PROVE  disk[p] = LastWritten(p, log', synced)
    <2>1. disk[p] = LastWritten(p, log, synced)
      BY <1>1 DEF FileIsPrefix
    <2>2. LastWritten(p, log', synced) = LastWritten(p, log, synced)
      BY <1>1, <1>3, SamePrefix
    <2>3. QED BY <2>1, <2>2
  <1>5. FileIsPrefix'
    BY <1>2, <1>3, <1>4 DEF FileIsPrefix, Get
  <1>6. QED BY <1>1, <1>2, <1>3, <1>5 DEF HistoryOK

\* Nothing that was in the file is lost or changed.
FileKept ==
  /\ synced' >= synced
  /\ synced <= Len(log')
  /\ \A i \in 1 .. synced : log'[i] = log[i]

LEMMA KeptKeeps ==
  ASSUME IInv, Kept
  PROVE  HistoryOK' /\ FileKept
  <1>1. /\ log \in Seq(Writes) /\ synced \in 0 .. Len(log) /\ disk \in Rows /\ mem \in Rows
        /\ FileIsPrefix /\ Len(log) \in Nat
    BY DEF IInv, TypeOK
  <1>2. FileIsPrefix'
    BY <1>1 DEF Kept, FileIsPrefix, Get
  <1>3. QED BY <1>1, <1>2 DEF Kept, HistoryOK, FileKept

----------------------------------------------------------------------------
(* The actions.                                                            *)

\* A write that is accepted: outside a transaction it is in the file at once, inside one
\* the thread is woken if it waits, and asleep if it is not woken.
LEMMA AcceptKeeps ==
  ASSUME IInv, NEW stmt, NEW ps \in SUBSET Paths, NEW v \in Values \cup {Nil},
         Accept(stmt, Write(ps, v))
  PROVE  IInv' /\ FileKept
  <1> DEFINE w == Write(ps, v)
  <1>1. w \in Writes /\ w.asleep = (spc = "sleep")
    BY DEF Write, Writes
  <1>2. /\ Extended(w) /\ Signal /\ Running
        /\ UNCHANGED <<txn, ready, doexit, upc, starts>>
    BY DEF Accept, Extended
  <1>3. TypeOK /\ TransactionsPaired /\ LeftIsAsleep /\ Len(log) \in Nat /\ synced \in 0 .. Len(log)
    BY DEF IInv, TypeOK
  <1> HIDE DEF w
  <1>4. /\ HistoryOK' /\ Len(log') = Len(log) + 1 /\ log'[Len(log')] = w
        /\ \A i \in 1 .. Len(log) : log'[i] = log[i]
        /\ synced' >= synced
        /\ ~txn => mem' = disk' /\ synced' = Len(log')
        /\ txn => synced' = synced
    BY <1>1, <1>2, ExtendedKeeps
  <1>5. spc' = IF spc = "wait" THEN "woken" ELSE spc
    BY <1>2 DEF Signal
  <1>6. TypeOK'
    BY <1>2, <1>3, <1>4, <1>5 DEF TypeOK, HistoryOK
  <1>7. TransactionsPaired' /\ NothingOpen' /\ DownIsIdle'
    BY <1>2, <1>3, <1>4, <1>5 DEF TransactionsPaired, NothingOpen, DownIsIdle, Running
  <1>8. LeftIsAsleep'
    <2> SUFFICES ASSUME spc' \in {"sleep", "wait"}, NEW i \in (synced + 1 .. Len(log))'
                 PROVE  log'[i].asleep
      BY DEF LeftIsAsleep
    <2>1. spc = "sleep" /\ txn /\ synced' = synced
      BY <1>3, <1>4, <1>5 DEF TransactionsPaired
    <2>2. i \in synced + 1 .. Len(log) + 1 /\ i \in 1 .. Len(log) + 1
      BY <1>3, <1>4, <2>1
    <2>3. CASE i = Len(log) + 1
      BY <1>1, <1>4, <2>1, <2>3
    <2>4. CASE i # Len(log) + 1
      <3>1. i \in synced + 1 .. Len(log) /\ i \in 1 .. Len(log)
        BY <1>3, <2>2, <2>4
      <3>2. QED BY <1>3, <1>4, <2>1, <3>1 DEF LeftIsAsleep
    <2>5. QED BY <2>3, <2>4
  <1>9. FileKept
    BY <1>3, <1>4 DEF FileKept
  <1>10. QED BY <1>4, <1>6, <1>7, <1>8, <1>9 DEF IInv, HistoryOK

\* The end of a batch, committed or rolled back: either way nothing is open.
LEMMA BatchKeeps ==
  ASSUME IInv, spc \in {"wait", "woken"}, SyncBatch
  PROVE  IInv' /\ FileKept
  <1>1. /\ TypeOK /\ TransactionsPaired /\ DownIsIdle /\ Len(log) \in Nat /\ synced \in 0 .. Len(log)
        /\ txn
    BY DEF IInv, TypeOK, TransactionsPaired
  <1>2. HistoryOK' /\ FileKept /\ mem' = disk' /\ synced' = Len(log')
    <2>1. CASE Commit
      BY <1>1, <2>1, CommitKeeps DEF FileKept
    <2>2. CASE Rollback
      <3>1. CutBack
        BY <2>2 DEF Rollback, CutBack
      <3>2. QED BY <1>1, <3>1, CutBackKeeps DEF FileKept
    <2>3. QED BY <2>1, <2>2 DEF SyncBatch
  <1>3. /\ txn' = ~doexit
        /\ spc' = IF doexit THEN "done" ELSE "sleep"
        /\ UNCHANGED <<ready, doexit, upc, starts>>
    BY DEF SyncBatch
  <1>4. TypeOK'
    BY <1>1, <1>2, <1>3 DEF TypeOK, HistoryOK
  <1>5. TransactionsPaired' /\ NothingOpen' /\ DownIsIdle'
    BY <1>1, <1>2, <1>3 DEF TypeOK, TransactionsPaired, NothingOpen, DownIsIdle
  <1>6. LeftIsAsleep'
    <2>1. Len(log') \in Nat
      BY <1>2 DEF HistoryOK
    <2>2. \A i \in (synced + 1 .. Len(log))' : FALSE
      BY <1>2, <2>1
    <2>3. QED BY <2>2 DEF LeftIsAsleep
  <1>7. QED BY <1>2, <1>4, <1>5, <1>6 DEF IInv, HistoryOK

\* The steps that leave the rows and the history alone.
LEMMA IdleKeeps ==
  ASSUME IInv, Kept,
         txn' \in BOOLEAN, doexit' \in BOOLEAN, ready' \subseteq Statements,
         spc' \in {"none", "start", "wait", "woken", "sleep", "done"},
         upc' \in {"down", "up", "flagged", "join", "closed"},
         starts' \in 0 .. MaxStarts,
         TransactionsPaired', NothingOpen', DownIsIdle', LeftIsAsleep'
  PROVE  IInv' /\ FileKept
  <1>1. HistoryOK' /\ FileKept
    BY KeptKeeps
  <1>2. TypeOK'
    BY <1>1 DEF TypeOK, HistoryOK
  <1>3. QED BY <1>1, <1>2 DEF IInv, HistoryOK

\* The thread between two batches.
LEMMA SyncKeeps ==
  ASSUME IInv, SyncStart \/ SyncSlept
  PROVE  IInv' /\ FileKept
  <1>1. TypeOK /\ TransactionsPaired /\ NothingOpen /\ DownIsIdle /\ LeftIsAsleep
    BY DEF IInv
  <1>2. Kept /\ UNCHANGED <<ready, doexit, upc, starts>>
    BY DEF SyncStart, SyncSlept, Kept
  <1>3. CASE SyncStart
    <2>1. spc = "start" /\ txn' = TRUE /\ spc' = "wait" /\ ~txn
      BY <1>1, <1>3 DEF SyncStart, Begin, TransactionsPaired
    <2>2. TransactionsPaired' /\ NothingOpen' /\ DownIsIdle'
      BY <1>1, <1>2, <2>1 DEF TransactionsPaired, NothingOpen, DownIsIdle
    <2>3. LeftIsAsleep'
      <3>1. synced' = Len(log') /\ Len(log') \in Nat
        BY <1>1, <1>2, <2>1 DEF NothingOpen, Kept, TypeOK
      <3>2. \A i \in (synced + 1 .. Len(log))' : FALSE
        BY <3>1
      <3>3. QED BY <3>2 DEF LeftIsAsleep
    <2>4. QED BY <1>1, <1>2, <2>1, <2>2, <2>3, IdleKeeps DEF TypeOK
  <1>4. CASE SyncSlept
    <2>1. spc = "sleep" /\ spc' \in {"wait", "done"} /\ txn' = txn /\ txn
      BY <1>1, <1>4 DEF SyncSlept, AfterSleep, TransactionsPaired
    <2>2. TransactionsPaired' /\ NothingOpen' /\ DownIsIdle' /\ LeftIsAsleep'
      BY <1>1, <1>2, <2>1 DEF TransactionsPaired, NothingOpen, DownIsIdle, LeftIsAsleep, Kept
    <2>3. QED BY <1>1, <1>2, <2>1, <2>2, IdleKeeps DEF TypeOK
  <1>5. QED BY <1>3, <1>4

\* A signal with nothing written: by a statement that fails, and by spddb_uninit.
LEMMA SignalKeeps ==
  ASSUME IInv, Running, Signal, Running', UNCHANGED <<disk, mem, txn, ready, doexit, starts, log, synced>>
  PROVE  IInv' /\ FileKept
  <1>1. TypeOK /\ TransactionsPaired /\ NothingOpen /\ DownIsIdle /\ LeftIsAsleep /\ Kept
    BY DEF IInv, Kept
  <1>2. spc' = (IF spc = "wait" THEN "woken" ELSE spc) /\ upc' \in {"up", "flagged", "join"}
    BY DEF Signal, Running
  <1>3. TransactionsPaired' /\ NothingOpen' /\ DownIsIdle'
    BY <1>1, <1>2 DEF TransactionsPaired, NothingOpen, DownIsIdle
  <1>4. LeftIsAsleep'
    BY <1>1, <1>2 DEF LeftIsAsleep, Kept
  <1>5. QED BY <1>1, <1>2, <1>3, <1>4, IdleKeeps DEF TypeOK

\* The program starts, or starts again, with a thread or without.
LEMMA StartKeeps ==
  ASSUME IInv, SpddbInit \/ SpddbInitAgain
  PROVE  IInv' /\ FileKept
  <1>1. TypeOK /\ TransactionsPaired /\ NothingOpen /\ DownIsIdle /\ Kept
    BY DEF IInv, Kept, SpddbInit, SpddbInitAgain, CreateTable
  <1>2. spc = "none" /\ spc' \in {"none", "start"} /\ upc' = "up" /\ ~txn /\ UNCHANGED <<txn, doexit>>
    <2>1. CASE SpddbInit
      BY <1>1, <2>1 DEF SpddbInit, StartThread, DownIsIdle
    <2>2. CASE SpddbInitAgain
      BY <1>1, <2>2 DEF SpddbInitAgain, StartThread, TransactionsPaired
    <2>3. QED BY <2>1, <2>2
  <1>3. ready' \subseteq Statements /\ starts' \in 0 .. MaxStarts
    <2>1. CASE SpddbInit
      <3>1. \A r \in Prepared : r \subseteq Statements
        BY DEF Prepared, Statements
      <3>2. starts < MaxStarts /\ starts' = starts + 1
        BY <2>1 DEF SpddbInit
      <3>3. QED BY <1>1, <2>1, <3>1, <3>2, ConstantsAssumption DEF SpddbInit, TypeOK
    <2>2. CASE SpddbInitAgain
      BY <1>1, <2>2 DEF SpddbInitAgain, TypeOK
    <2>3. QED BY <2>1, <2>2
  <1>4. TransactionsPaired' /\ NothingOpen' /\ DownIsIdle' /\ LeftIsAsleep'
    BY <1>1, <1>2 DEF TransactionsPaired, NothingOpen, DownIsIdle, LeftIsAsleep, Kept
  <1>5. QED BY <1>1, <1>2, <1>3, <1>4, IdleKeeps DEF TypeOK

\* spddb_uninit sets its flag, and has joined the thread.
LEMMA UninitKeeps ==
  ASSUME IInv, UninitFlag \/ UninitJoined
  PROVE  IInv' /\ FileKept
  <1>1. TypeOK /\ TransactionsPaired /\ NothingOpen /\ DownIsIdle /\ LeftIsAsleep /\ Kept
    BY DEF IInv, Kept, UninitFlag, UninitJoined
  <1>2. /\ UNCHANGED <<txn, ready, spc, starts>>
        /\ upc' \in {"flagged", "closed"} /\ doexit' \in BOOLEAN
    BY <1>1 DEF UninitFlag, UninitJoined, TypeOK
  <1>3. TransactionsPaired' /\ NothingOpen' /\ DownIsIdle' /\ LeftIsAsleep'
    BY <1>1, <1>2 DEF TransactionsPaired, NothingOpen, DownIsIdle, LeftIsAsleep, Kept
  <1>4. QED BY <1>1, <1>2, <1>3, IdleKeeps DEF TypeOK

\* The process ends: what is open is lost, what is in the file is not.
LEMMA EndKeeps ==
  ASSUME IInv, ProcessEnds
  PROVE  IInv' /\ FileKept
  <1>1. TypeOK
    BY DEF IInv
  <1>2. /\ CutBack
        /\ upc' = "down" /\ txn' = FALSE /\ ready' = {} /\ spc' = "none" /\ doexit' = FALSE
        /\ starts' = starts
    BY DEF ProcessEnds, CutBack
  <1>3. /\ HistoryOK' /\ mem' = disk' /\ synced' = Len(log') /\ synced' = synced
        /\ \A i \in 1 .. synced : log'[i] = log[i]
    BY <1>2, CutBackKeeps
  <1>4. TypeOK'
    BY <1>1, <1>2, <1>3 DEF TypeOK, HistoryOK, Statements
  <1>5. TransactionsPaired' /\ NothingOpen' /\ DownIsIdle' /\ LeftIsAsleep'
    BY <1>2, <1>3 DEF TransactionsPaired, NothingOpen, DownIsIdle, LeftIsAsleep
  <1>6. FileKept
    BY <1>1, <1>3 DEF FileKept, TypeOK
  <1>7. QED BY <1>3, <1>4, <1>5, <1>6 DEF IInv, HistoryOK

\* Every step keeps the invariant, and everything that was in the file.
LEMMA StepIInv ==
  ASSUME IInv, [Next]_vars
  PROVE  IInv' /\ FileKept
  <1>1. ASSUME NEW p \in Paths, Del(p) PROVE IInv' /\ FileKept
    BY <1>1, AcceptKeeps DEF Del
  <1>2. ASSUME NEW p \in Paths, NEW v \in Values, Put(p, v) PROVE IInv' /\ FileKept
    BY <1>2, AcceptKeeps DEF Put
  <1>3. ASSUME NEW f \in Families \cup {Nil}, NEW k \in Keys \cup {Nil}, DelTree(f, k)
        PROVE  IInv' /\ FileKept
    <2>1. TreeOf(f, k) \in SUBSET Paths
      BY DEF TreeOf, Paths
    <2>2. QED BY <1>3, <2>1, AcceptKeeps DEF DelTree
  <1>4. CASE WriteNothing
    <2>1. Running' /\ Signal /\ Running
      BY <1>4 DEF WriteNothing, Running
    <2>2. QED BY <1>4, <2>1, SignalKeeps DEF WriteNothing
  <1>5. CASE Sync \/ SyncSpurious
    BY <1>5, SyncKeeps, BatchKeeps DEF Sync, SyncWoken, SyncSpurious
  <1>6. CASE SpddbInit \/ SpddbInitAgain
    BY <1>6, StartKeeps
  <1>7. CASE UninitSignal
    <2>1. Running' /\ Signal /\ Running
      BY <1>7 DEF UninitSignal, Running
    <2>2. QED BY <1>7, <2>1, SignalKeeps DEF UninitSignal
  <1>8. CASE UninitFlag \/ UninitJoined
    BY <1>8, UninitKeeps
  <1>9. CASE ProcessEnds
    BY <1>9, EndKeeps
  <1>10. CASE UNCHANGED vars
    <2>1. Kept /\ UNCHANGED <<txn, ready, spc, doexit, upc, starts>>
      BY <1>10 DEF vars, Kept
    <2>2. TypeOK /\ TransactionsPaired /\ NothingOpen /\ DownIsIdle /\ LeftIsAsleep
      BY DEF IInv
    <2>3. TransactionsPaired' /\ NothingOpen' /\ DownIsIdle' /\ LeftIsAsleep'
      BY <2>1, <2>2 DEF TransactionsPaired, NothingOpen, DownIsIdle, LeftIsAsleep, Kept
    <2>4. QED BY <2>1, <2>2, <2>3, IdleKeeps DEF TypeOK
  <1>11. QED
    BY <1>1, <1>2, <1>3, <1>4, <1>5, <1>6, <1>7, <1>8, <1>9, <1>10 DEF Next, Uninit

LEMMA IInvAlways == Spec => []IInv
  <1>1. IInv /\ [Next]_vars => IInv'
    BY StepIInv
  <1>2. QED BY <1>1, InitIInv, PTL DEF Spec

----------------------------------------------------------------------------
(* The theorems.                                                           *)

\* A read returns the last write accepted and the file is exactly the first writes, whatever
\* fails, whenever the thread commits and wherever the program ends.
THEOREM FileIsPrefixAlways == Spec => []FileIsPrefix
  <1>1. IInv => FileIsPrefix
    BY DEF IInv
  <1>2. QED BY <1>1, IInvAlways, PTL

\* Transactions, waits, sleeps and signals of the dbsync thread keep in step: no transaction
\* in another, no wait outside one, and no wait on a write whose signal it could have had.
THEOREM InStepAlways == Spec => []InStep
  <1>1. IInv => InStep
    BY DEF IInv, InStep, LeftIsAsleep, WaitsOnlyOnSleepers
  <1>2. QED BY <1>1, IInvAlways, PTL

\* A write that COMMIT has put into the file is never undone: not by a later COMMIT that
\* fails, not by a crash, not by the next start.
THEOREM CommittedStaysAlways == Spec => CommittedStays
  <1>1. ASSUME IInv, FileKept, log' \in Seq(Writes)
        PROVE  /\ synced' >= synced
               /\ SubSeq(log', 1, synced) = SubSeq(log, 1, synced)
    <2>1. log \in Seq(Writes) /\ synced \in 0 .. Len(log) /\ Len(log) \in Nat /\ Len(log') \in Nat
      BY <1>1 DEF IInv, TypeOK
    <2>2. synced' >= synced /\ synced <= Len(log') /\ \A i \in 1 .. synced : log'[i] = log[i]
      BY <1>1 DEF FileKept
    <2> DEFINE first(u) == SubSeq(u, 1, synced)
    <2>3. ASSUME NEW u \in Seq(Writes), synced <= Len(u)
          PROVE  first(u) = [i \in 1 .. synced |-> u[i]]
      BY <2>1, <2>3
    <2>4. QED BY <1>1, <2>1, <2>2, <2>3
  <1>2. IInv /\ IInv' /\ [Next]_vars =>
          [/\ synced' >= synced
           /\ SubSeq(log', 1, synced) = SubSeq(log, 1, synced)]_vars
    BY <1>1, StepIInv DEF IInv, TypeOK
  <1>3. QED BY <1>2, IInvAlways, PTL DEF Spec, CommittedStays
=============================================================================
