----------------------------- MODULE InternalDb -----------------------------
(***************************************************************************)
(* The key-value store of src/src/internal_db.c over one sqlite connection:*)
(* clients that read and write under dblock, and the thread that commits   *)
(* their writes in batches, wakes on dbcond and sleeps between two batches.*)
(*                                                                         *)
(* dblock is held for the whole of each operation and given up only in     *)
(* spd_cond_wait and sleep, so a critical section is one action.  sqlite   *)
(* is modelled by what its transactions do: inside one, writes change what *)
(* the connection sees and COMMIT writes them to the file; outside, each   *)
(* write is on the file at once.                                           *)
(*                                                                         *)
(* A definition that stands before another one and is used nowhere is that *)
(* other with a mistake in it; the properties are tried against these.     *)
(***************************************************************************)
EXTENDS Integers, Sequences, FiniteSetsExt

CONSTANTS
  Families, Keys, Values,
  Nil,         \* no value, no family, no key
  Faults,      \* \subseteq {"open", "thread", "statement", "commit", "crash"}
  MaxWrites,   \* bound: successful writes in the history
  MaxStarts    \* bound: runs of the program

ASSUME ConstantsAssumption ==
  /\ Nil \notin Families \cup Keys \cup Values
  /\ MaxWrites \in Nat /\ MaxStarts \in Nat

Paths == Families \X Keys
Rows == [Paths -> Values \cup {Nil}]
Empty == [p \in Paths |-> Nil]

VARIABLES
  disk,     \* the rows in the database file
  mem,      \* the rows the connection sees
  txn,      \* the connection is in a transaction
  ready,    \* the statements that are prepared
  spc,      \* the dbsync thread: "none", "start", "wait", "woken", "sleep", "done"
  doexit,
  upc,      \* the program: "down", "up", in spddb_uninit: "flagged", "join", "closed"
  starts,
  \* history: the writes accepted and not lost, with whether the dbsync thread slept at
  \* the time, and how many of them the file has
  log, synced

vars == <<disk, mem, txn, ready, spc, doexit, upc, starts, log, synced>>

Init ==
  /\ disk = Empty /\ mem = Empty
  /\ txn = FALSE
  /\ ready = {}
  /\ spc = "none"
  /\ doexit = FALSE
  /\ upc = "down"
  /\ starts = 0
  /\ log = <<>>
  /\ synced = 0

----------------------------------------------------------------------------
(* Reads, and the trees of keys. *)

\* spd_db_get: the row as the connection sees it, in a transaction or not.  Without a row,
\* or if the statement fails, the caller is told so and its buffer is left alone.
Get(p) == mem[p]

\* The prefix "/f/k" names one key and what is under it, "/f" a family.
TreeOf(f, k) ==
  IF f = Nil THEN Paths ELSE IF k = Nil THEN {f} \X Keys ELSE {<<f, k>>}

\* What spd_db_gettree may return.  It tests the family twice and never the key: without
\* a key the prefix is "/f/" or "/f/(null)", and neither is above a key.  Without a
\* family the statement for all rows is not chosen: the statement runs with NULL, which
\* matches nothing, or with what was last bound to it, in memory another call may have
\* written a prefix into since.
GetTree(f, k) ==
  LET rows(T) == {p \in T : mem[p] # Nil}
  IN  IF f # Nil /\ k # Nil THEN {rows(TreeOf(f, k))}
      ELSE IF f # Nil THEN {{}}
      ELSE {{}} \cup {rows(TreeOf(g, h)) : g \in Families, h \in Keys \cup {Nil}}

----------------------------------------------------------------------------
(* Writes. *)

Write(ps, v) == [paths |-> ps, value |-> v, asleep |-> spc = "sleep"]

Applied(rows, w) == [p \in Paths |-> IF p \in w.paths THEN w.value ELSE rows[p]]

\* spd_cond_signal(&dbcond).
SignalNobody == spc' = spc
Signal == spc' = IF spc = "wait" THEN "woken" ELSE spc

Running == upc \in {"up", "flagged", "join"}

\* Outside a transaction, sqlite commits each statement.
Store(w) ==
  /\ mem' = Applied(mem, w)
  /\ disk' = IF txn THEN disk ELSE Applied(mem, w)
  /\ synced' = IF txn THEN synced ELSE Len(log) + 1

Statements == {"del", "deltree", "deltree_all", "put"}

Accept(stmt, w) ==
  /\ Running
  /\ stmt \in ready
  /\ Len(log) < MaxWrites
  /\ Store(w)
  /\ Signal
  /\ log' = Append(log, w)
  /\ UNCHANGED <<txn, ready, doexit, upc, starts>>

Put(p, v) == Accept("put", Write({p}, v))
Del(p) == Accept("del", Write({p}, Nil))
DelTree(f, k) == Accept(IF f = Nil THEN "deltree_all" ELSE "deltree", Write(TreeOf(f, k), Nil))

\* A statement fails or was never prepared; the signal is given all the same.
WriteNothing ==
  /\ "statement" \in Faults \/ ready # Statements
  /\ Running
  /\ Signal
  /\ UNCHANGED <<disk, mem, txn, ready, doexit, upc, starts, log, synced>>

----------------------------------------------------------------------------
(* dbsync_thread_loop. *)

Begin == txn' = TRUE

SyncStart ==
  /\ spc = "start"
  /\ Begin
  /\ spc' = "wait"
  /\ UNCHANGED <<disk, mem, ready, doexit, upc, starts, log, synced>>

Commit ==
  /\ disk' = mem
  /\ mem' = mem
  /\ synced' = Len(log)
  /\ log' = log

\* COMMIT failed: ROLLBACK.
RollbackSkipped == UNCHANGED <<disk, mem, synced, log>>
RollbackForgets ==
  /\ mem' = mem
  /\ disk' = disk
  /\ synced' = synced
  /\ log' = SubSeq(log, 1, synced)
Rollback ==
  /\ mem' = disk
  /\ disk' = disk
  /\ synced' = synced
  /\ log' = SubSeq(log, 1, synced)

\* After the wait: the batch ends, and another one begins unless the program exits.
SyncBatch ==
  /\ Commit \/ ("commit" \in Faults /\ Rollback)
  /\ txn' = ~doexit
  /\ spc' = IF doexit THEN "done" ELSE "sleep"
  /\ UNCHANGED <<ready, doexit, upc, starts>>

SyncWoken == spc = "woken" /\ SyncBatch
SyncSpurious == spc = "wait" /\ SyncBatch

\* After the sleep: at exit, the thread ends in the transaction it has begun.
AfterSleep == IF doexit THEN "done" ELSE "wait"

SyncSlept ==
  /\ spc = "sleep"
  /\ spc' = AfterSleep
  /\ UNCHANGED <<disk, mem, txn, ready, doexit, upc, starts, log, synced>>

----------------------------------------------------------------------------
(* The program: spddb_init, spddb_uninit, and what ends it otherwise. *)

\* The table is created if it is not there.
CreateTableAnew == disk' = Empty /\ mem' = Empty /\ log' = <<>> /\ synced' = 0
CreateTable == UNCHANGED <<disk, mem, log, synced>>

\* db_init prepares get, del, deltree, deltree_all, gettree, gettree_all and put, in this
\* order, and fails with the first that fails, before them or, since db_open has no return
\* value, without any reason.
Prepared ==
  {Statements} \cup
  IF "open" \in Faults THEN {{}, {"del"}, {"del", "deltree"}, {"del", "deltree", "deltree_all"}}
  ELSE {}

\* spddb_init starts the thread if db_init succeeds; if it cannot it fails, with the
\* database open.
StartThread(ok) ==
  spc' \in (IF ok THEN {"start"} ELSE {}) \cup
           (IF ~ok \/ "thread" \in Faults THEN {"none"} ELSE {})

SpddbInit ==
  /\ upc = "down" /\ starts < MaxStarts
  /\ starts' = starts + 1
  /\ upc' = "up"
  /\ ready' \in Prepared
  /\ StartThread(ready' = Statements)
  /\ CreateTable
  /\ UNCHANGED <<txn, doexit>>

\* Called again after it has failed, it finds the database open and does not prepare what
\* is missing.
SpddbInitAgain ==
  /\ upc = "up" /\ spc = "none"
  /\ StartThread(TRUE)
  /\ UNCHANGED <<disk, mem, txn, ready, doexit, upc, starts, log, synced>>

\* doexit is set before the lock is taken.
UninitFlag ==
  /\ upc = "up" /\ spc # "none"
  /\ doexit' = TRUE
  /\ upc' = "flagged"
  /\ UNCHANGED <<disk, mem, txn, ready, spc, starts, log, synced>>

UninitSignal ==
  /\ upc = "flagged"
  /\ Signal
  /\ upc' = "join"
  /\ UNCHANGED <<disk, mem, txn, ready, doexit, starts, log, synced>>

UninitJoined ==
  /\ upc = "join" /\ spc = "done"
  /\ upc' = "closed"
  /\ UNCHANGED <<disk, mem, txn, ready, spc, doexit, starts, log, synced>>

\* The process ends, after spddb_uninit or without it: what is in a transaction is lost.
ProcessEnds ==
  /\ upc = "closed" \/ (Running /\ "crash" \in Faults)
  /\ upc' = "down"
  /\ mem' = disk
  /\ txn' = FALSE
  /\ ready' = {}
  /\ spc' = "none"
  /\ doexit' = FALSE
  /\ log' = SubSeq(log, 1, synced)
  /\ UNCHANGED <<disk, starts, synced>>

----------------------------------------------------------------------------
Sync == SyncStart \/ SyncWoken \/ SyncSlept
Uninit == UninitSignal \/ UninitJoined

Next ==
  \/ \E p \in Paths : Del(p) \/ \E v \in Values : Put(p, v)
  \/ \E f \in Families \cup {Nil}, k \in Keys \cup {Nil} : DelTree(f, k)
  \/ WriteNothing
  \/ Sync \/ SyncSpurious
  \/ SpddbInit \/ SpddbInitAgain \/ UninitFlag \/ Uninit \/ ProcessEnds

Spec == Init /\ [][Next]_vars

(* The dbsync thread runs when it can and its sleep ends; spddb_uninit, once  *)
(* called, goes on when it can.  Nobody is obliged to write.                  *)
LiveSpec == Spec /\ WF_vars(Sync) /\ WF_vars(Uninit)

----------------------------------------------------------------------------
(* Properties. *)

Writes == [paths : SUBSET Paths, value : Values \cup {Nil}, asleep : BOOLEAN]

\* Every variable keeps its type.
TypeOK ==
  /\ disk \in Rows /\ mem \in Rows
  /\ txn \in BOOLEAN /\ doexit \in BOOLEAN
  /\ ready \subseteq Statements
  /\ spc \in {"none", "start", "wait", "woken", "sleep", "done"}
  /\ upc \in {"down", "up", "flagged", "join", "closed"}
  /\ starts \in 0 .. MaxStarts
  /\ log \in Seq(Writes)
  /\ synced \in 0 .. Len(log)

\* The value of p after the first n writes: what the last of them that names p has put.
WritersOf(p, writes, n) == {i \in 1 .. n : p \in writes[i].paths}
LastWritten(p, writes, n) ==
  LET writers == WritersOf(p, writes, n)
  IN  IF writers = {} THEN Nil ELSE writes[Max(writers)].value

\* A read returns what the last write accepted has put, committed or not, and the file
\* holds exactly the first writes: a crash, a failed COMMIT or an exit at any moment
\* undoes a suffix, never a part of the middle, nor half a batch.
FileIsPrefix ==
  \A p \in Paths :
    /\ Get(p) = LastWritten(p, log, Len(log))
    /\ disk[p] = LastWritten(p, log, synced)

\* A transaction is never begun inside another, which sqlite would refuse, and the
\* thread never waits or sleeps outside one.
TransactionsPaired ==
  /\ spc \in {"none", "start"} => ~txn
  /\ spc \in {"wait", "woken", "sleep"} => txn

\* A write that comes while the thread waits wakes it: the writes that a waiting thread
\* has not committed came while it slept, and their signals went to nobody.
WaitsOnlyOnSleepers ==
  spc = "wait" => \A i \in synced + 1 .. Len(log) : log[i].asleep

\* Transactions, waits, sleeps and signals keep in step (internal_db.c:84-87, 407-435).
InStep == TypeOK /\ TransactionsPaired /\ WaitsOnlyOnSleepers

\* What COMMIT has put into the file stays there, whatever fails or crashes later.
CommittedStays ==
  [][/\ synced' >= synced
     /\ SubSeq(log', 1, synced) = SubSeq(log, 1, synced)]_vars

\* While the program runs on, a write is committed or rolled back, provided the dbsync
\* thread does not wait for ever, that is, somebody writes again.
WritesSettle ==
  []<>(spc # "wait") =>
    \A n \in 1 .. MaxWrites :
      Len(log) >= n /\ upc = "up" ~> synced >= n \/ Len(log) < n \/ upc # "up"

\* spddb_uninit returns, if the dbsync thread has come to its first wait before the
\* flag is set.
UninitReturns ==
  upc = "flagged" /\ spc # "start" ~> upc \in {"closed", "down"}

\* Neither a write nor the end of the program is forgotten by the dbsync thread, provided
\* that somebody writes again and that the flag is set after its first wait has begun; a
\* write that could not be committed is settled too, since it is rolled back
\* (internal_db.c:152-169, 402-438).
NothingForgotten == WritesSettle /\ UninitReturns

\* internal_db.h:44-48: "If family is specified, only those keys will be returned": the
\* tree of a family is the keys stored in it.
TreeIsFamily ==
  \A f \in Families : \A r \in GetTree(f, Nil) : r = {p \in TreeOf(f, Nil) : mem[p] # Nil}
=============================================================================
