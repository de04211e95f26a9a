-------------------------- MODULE TaskQueueProofs --------------------------
(***************************************************************************)
(* Theorems about TaskQueue, for every number of users, queues, names and  *)
(* tasks, every choice of failures and every choice of what handlers call: *)
(* about its lists and workers, about reference counts, the registry and   *)
(* the destruction of queues, and that TaskQueue implements TaskQueueSpec. *)
(***************************************************************************)
EXTENDS TaskQueue, FiniteSetTheorems, SequenceTheorems, TLAPS

----------------------------------------------------------------------------
(* The inductive invariant: the parts that the properties below rest on.   *)

\* A call in progress has the arguments its code path uses.
CallsOK ==
  \A th \in Threads :
    /\ pc[th] = "get" => arg[th] \in Names
    /\ pc[th] \in {"unref", "destroy", "join", "push"} => arg[th] \in Queues
    /\ pc[th] = "push" => hand[th] \in Tasks

\* tps_queue_size counts the list.
SizeIsLength == \A q \in Queues : size[q] = Len(queue[q])

\* A worker waits only after it has read a depth of zero, which it keeps.
WaitsOnEmpty == \A q \in Queues : wpc[q] \in {"wait", "woken"} => wsize[q] = 0

CoreInv ==
  /\ TypeOK
  /\ CallsOK
  /\ SizeIsLength
  /\ WaitsOnEmpty
  /\ NoLostWakeup
  /\ DepthStillHolds
  /\ TasksInOrder

\* Tasks are purged only after the last one was executed, and an object that was
\* never allocated has no worker.  Without it TasksInOrder is not inductive: a task
\* popped after a purge would not be the next one in the order of acceptance.
PurgesLast ==
  \A q \in Queues :
    /\ dropped[q] > 0 => wpc[q] \in {"purge", "done"}
    /\ status[q] = "unused" => wpc[q] = "none"

IInv == CoreInv /\ PurgesLast

----------------------------------------------------------------------------
(* The two list operations, on one list and its count. *)

\* Insert appends one task and leaves the order of the others alone.
LEMMA AppendFacts ==
  ASSUME NEW S, NEW s \in Seq(S), NEW e \in S
  PROVE  /\ Append(s, e) \in Seq(S)
         /\ Len(Append(s, e)) = Len(s) + 1
         /\ Append(s, e) # <<>>
         /\ \A i \in 1 .. Len(s) : Append(s, e)[i] = s[i]
         /\ Append(s, e)[Len(s) + 1] = e
  OBVIOUS

\* Pop takes the first task and moves the others up by one.
LEMMA TailFacts ==
  ASSUME NEW S, NEW s \in Seq(S), s # <<>>
  PROVE  /\ Tail(s) \in Seq(S)
         /\ Head(s) \in S /\ Head(s) = s[1]
         /\ Len(s) \in Nat /\ Len(s) > 0
         /\ Len(Tail(s)) = Len(s) - 1
         /\ \A i \in 1 .. Len(Tail(s)) : Tail(s)[i] = s[i + 1]
  OBVIOUS

----------------------------------------------------------------------------
\* spd_taskqueue_init establishes the inductive invariant.
LEMMA InitIInv == Init => IInv
  BY DEF Init, IInv, CoreInv, PurgesLast, TypeOK, CallsOK, SizeIsLength, WaitsOnEmpty, NoLostWakeup,
         DepthStillHolds, TasksInOrder, WorkerPCs, CallPCs

----------------------------------------------------------------------------
(* The steps.  The parts of the invariant that speak of lists and workers are *)
(* grouped, because few actions disturb them.                                  *)

ListsOK ==
  /\ SizeIsLength
  /\ WaitsOnEmpty
  /\ NoLostWakeup
  /\ DepthStillHolds
  /\ TasksInOrder

\* A step that leaves lists and workers alone.
LEMMA ListsUnchanged ==
  ASSUME ListsOK, UNCHANGED <<run, queue, size, wpc, wsize, log, ran, dropped>>
  PROVE  ListsOK'
  BY DEF ListsOK, SizeIsLength, WaitsOnEmpty, NoLostWakeup, DepthStillHolds, TasksInOrder

\* A step that moves the worker of one queue to a place where it neither waits nor
\* pops leaves lists alone, whatever becomes of poll_thread_run of that queue.
LEMMA WorkerElsewhere ==
  ASSUME TypeOK, ListsOK, NEW q \in Queues, NEW w,
         w \notin {"wait", "woken", "pop"},
         wpc' = [wpc EXCEPT ![q] = w],
         \A p \in Queues \ {q} : run'[p] = run[p],
         UNCHANGED <<queue, size, wsize, log, ran, dropped>>
  PROVE  ListsOK'
  <1>1. SizeIsLength' /\ TasksInOrder'
    BY DEF ListsOK, SizeIsLength, TasksInOrder
  <1>2. \A p \in Queues : wpc'[p] = IF p = q THEN w ELSE wpc[p]
    BY DEF TypeOK
  <1>4. WaitsOnEmpty'
    BY <1>2 DEF ListsOK, WaitsOnEmpty
  <1>5. NoLostWakeup'
    BY <1>2 DEF ListsOK, NoLostWakeup
  <1>6. DepthStillHolds'
    BY <1>2 DEF ListsOK, DepthStillHolds
  <1>7. QED BY <1>1, <1>4, <1>5, <1>6 DEF ListsOK

\* What the creation of an object may change.
ObjectTypes ==
  /\ status \in [Queues -> {"unused", "live", "freed"}]
  /\ name \in [Queues -> Names \cup {Nil}]
  /\ refs \in [Queues -> Int]
  /\ wpc \in [Queues -> WorkerPCs]

\* A new object keeps the types and starts a worker that has not read any depth.
LEMMA NewObjectKeeps ==
  ASSUME TypeOK, ListsOK, NEW q \in Queues, NEW n \in Names, NEW r \in Int,
         NEW w \in {"none", "top"},
         NewObject(q, n, r, w), \A p \in Queues \ {q} : run'[p] = run[p]
  PROVE  /\ ObjectTypes'
         /\ UNCHANGED <<queue, size, processed, maxq, wtask, wsize, hand,
                        log, ran, dropped, late, used>>
         /\ ListsOK'
  <1>1. UNCHANGED <<queue, size, processed, maxq, wtask, wsize, hand,
                    log, ran, dropped, late, used>>
    BY DEF NewObject, listVars, statVars, histVars
  <1>2. ListsOK'
    BY <1>1, WorkerElsewhere DEF NewObject
  <1>3. ObjectTypes'
    BY DEF NewObject, TypeOK, WorkerPCs, ObjectTypes
  <1>4. QED BY <1>1, <1>2, <1>3

\* A call that begins touches nothing but the thread's own state.
LEMMA CallKeeps ==
  ASSUME CoreInv, NEW th \in Threads, Call(th)
  PROVE  CoreInv'
  <1>1. TypeOK /\ CallsOK /\ ListsOK
    BY DEF CoreInv, ListsOK
  <1>2. SUFFICES TypeOK' /\ CallsOK' /\ ListsOK'
    BY DEF CoreInv, ListsOK
  <1>3. ASSUME NEW n \in Names, GetCall(th, n)
        PROVE  TypeOK' /\ CallsOK' /\ ListsOK'
    <2>1. ListsOK'
      BY <1>1, <1>3, ListsUnchanged DEF GetCall, objVars, listVars, workerVars, histVars
    <2>2. TypeOK'
      BY <1>1, <1>3 DEF GetCall, Enter, TypeOK, CallPCs, objVars, listVars, statVars,
           workerVars, regVars, histVars
    <2>3. CallsOK'
      BY <1>1, <1>3 DEF GetCall, Enter, TypeOK, CallsOK
    <2>4. QED BY <2>1, <2>2, <2>3
  <1>4. ASSUME NEW q \in Queues, UnreferenceCall(th, q)
        PROVE  TypeOK' /\ CallsOK' /\ ListsOK'
    <2>1. ListsOK'
      BY <1>1, <1>4, ListsUnchanged DEF UnreferenceCall, objVars, listVars, workerVars, histVars
    <2>2. TypeOK'
      BY <1>1, <1>4 DEF UnreferenceCall, Enter, TypeOK, CallPCs, objVars, listVars, statVars,
           workerVars, regVars, histVars
    <2>3. CallsOK'
      BY <1>1, <1>4 DEF UnreferenceCall, Enter, TypeOK, CallsOK
    <2>4. QED BY <2>1, <2>2, <2>3
  <1>5. ASSUME NEW q \in Queues, NEW t \in Tasks, PushAlloc(th, q, t)
        PROVE  TypeOK' /\ CallsOK' /\ ListsOK'
    <2>1. ListsOK'
      BY <1>1, <1>5, ListsUnchanged DEF PushAlloc, objVars, listVars, workerVars
    <2>2. TypeOK'
      BY <1>1, <1>5 DEF PushAlloc, Enter, TypeOK, CallPCs, objVars, listVars, statVars,
           workerVars, regVars
    <2>3. CallsOK'
      BY <1>1, <1>5 DEF PushAlloc, Enter, TypeOK, CallsOK
    <2>4. QED BY <2>1, <2>2, <2>3
  <1>6. QED BY <1>3, <1>4, <1>5 DEF Call

\* spd_taskqueue_get leaves the lists alone and starts a worker at the head of its
\* loop, if it starts one.
LEMMA GetKeeps ==
  ASSUME CoreInv, NEW th \in Threads,
         GetFound(th) \/ GetNothing(th) \/ GetCreated(th)
           \/ GetNoStats(th) \/ GetNotLinked(th)
  PROVE  CoreInv'
  <1>1. TypeOK /\ CallsOK /\ ListsOK
    BY DEF CoreInv, ListsOK
  <1>2. SUFFICES TypeOK' /\ CallsOK' /\ ListsOK'
    BY DEF CoreInv, ListsOK
  <1>4. CASE GetFound(th)
    <2>1. PICK q \in linked :
            /\ refs' = [refs EXCEPT ![q] = @ + 1]
            /\ holders' = [holders EXCEPT ![q] = @ \cup {th}]
      BY <1>4 DEF GetFound, Registered
    <2>2. ListsOK'
      BY <1>1, <1>4, ListsUnchanged DEF GetFound, listVars, workerVars, histVars
    <2>3. TypeOK'
      <3>1. q \in Queues /\ holders' \in [Queues -> SUBSET Threads]
        BY <1>1, <2>1 DEF TypeOK
      <3>2. refs' \in [Queues -> Int]
        BY <1>1, <2>1, <3>1 DEF TypeOK
      <3>3. QED
        BY <1>1, <1>4, <3>1, <3>2 DEF GetFound, Return, TypeOK, CallPCs, listVars,
             statVars, workerVars, regVars, histVars
    <2>4. CallsOK'
      BY <1>1, <1>4 DEF GetFound, Return, TypeOK, CallsOK
    <2>5. QED BY <2>2, <2>3, <2>4
  <1>5. CASE GetNothing(th)
    <2>1. ListsOK'
      BY <1>1, <1>5, ListsUnchanged DEF GetNothing, objVars, listVars, workerVars, histVars
    <2>2. TypeOK'
      BY <1>1, <1>5 DEF GetNothing, Return, TypeOK, CallPCs, objVars, listVars, statVars,
           workerVars, regVars, histVars
    <2>3. CallsOK'
      BY <1>1, <1>5 DEF GetNothing, Return, TypeOK, CallsOK
    <2>4. QED BY <2>1, <2>2, <2>3
  <1>6. CASE GetCreated(th)
    <2>1. PICK q \in Queues, w \in {"none", "top"} :
            /\ NewObject(q, arg[th], 2, w)
            /\ run' = [run EXCEPT ![q] = TRUE]
            /\ linked' = linked \cup {q}
            /\ holders' = [holders EXCEPT ![q] = {th}]
      BY <1>6 DEF GetCreated
    <2>2. arg[th] \in Names
      BY <1>1, <1>6 DEF CallsOK, GetCreated
    <2>3. run' \in [Queues -> BOOLEAN] /\ \A p \in Queues \ {q} : run'[p] = run[p]
      BY <1>1, <2>1 DEF TypeOK
    <2>4. ObjectTypes' /\ ListsOK' /\ UNCHANGED <<queue, size, processed, maxq, wtask,
            wsize, hand, log, ran, dropped, late, used>>
      <3>1. NewObject(q, arg[th], 2, w) /\ 2 \in Int
        BY <2>1
      <3>2. QED BY <1>1, <2>2, <2>3, <3>1, NewObjectKeeps
    <2>5. linked' \subseteq Queues /\ holders' \in [Queues -> SUBSET Threads]
      BY <1>1, <2>1 DEF TypeOK
    <2>6. TypeOK'
      BY <1>1, <1>6, <2>3, <2>4, <2>5 DEF GetCreated, Return, TypeOK, ObjectTypes, CallPCs
    <2>7. CallsOK'
      BY <1>1, <1>6, <2>4 DEF GetCreated, Return, TypeOK, CallsOK
    <2>8. QED BY <2>4, <2>6, <2>7
  <1>7. CASE GetNoStats(th) \/ GetNotLinked(th)
    <2>1. PICK q \in Queues, w \in {"none", "top"} :
            /\ NewObject(q, arg[th], 0, w)
            /\ run' = [run EXCEPT ![q] = TRUE] \/ run' = run
            /\ Enter(th, "destroy", q)
      BY <1>7 DEF GetNoStats, GetNotLinked
    <2>2. arg[th] \in Names /\ UNCHANGED <<linked, owner, holders>>
      BY <1>1, <1>7 DEF CallsOK, GetNoStats, GetNotLinked, regVars
    <2>3. run' \in [Queues -> BOOLEAN] /\ \A p \in Queues \ {q} : run'[p] = run[p]
      BY <1>1, <2>1 DEF TypeOK
    <2>4. ObjectTypes' /\ ListsOK' /\ UNCHANGED <<queue, size, processed, maxq, wtask,
            wsize, hand, log, ran, dropped, late, used>>
      BY <1>1, <2>1, <2>2, <2>3, NewObjectKeeps
    <2>5. TypeOK'
      BY <1>1, <2>1, <2>2, <2>3, <2>4 DEF Enter, TypeOK, ObjectTypes, CallPCs
    <2>6. CallsOK'
      BY <1>1, <2>1, <2>4 DEF Enter, TypeOK, CallsOK
    <2>7. QED BY <2>4, <2>5, <2>6
  <1>8. QED BY <1>4, <1>5, <1>6, <1>7

\* Giving a reference back and destroying the object leave the lists alone; a worker
\* that sleeps when poll_thread_run is cleared is woken.
LEMMA UnreferenceKeeps ==
  ASSUME CoreInv, NEW th \in Threads,
         UnreferenceKeep(th) \/ UnreferenceLast(th)
           \/ DestroyStop(th) \/ DestroyFree(th)
  PROVE  CoreInv'
  <1>1. TypeOK /\ CallsOK /\ ListsOK
    BY DEF CoreInv, ListsOK
  <1>2. SUFFICES TypeOK' /\ CallsOK' /\ ListsOK'
    BY DEF CoreInv, ListsOK
  <1>4. CASE UnreferenceKeep(th) \/ UnreferenceLast(th)
    <2>1. arg[th] \in Queues
      BY <1>1, <1>4 DEF CallsOK, UnreferenceKeep, UnreferenceLast
    <2>2. ListsOK'
      BY <1>1, <1>4, ListsUnchanged DEF UnreferenceKeep, UnreferenceLast, listVars,
           workerVars, histVars
    <2>3. /\ refs' \in [Queues -> Int]
          /\ linked' \subseteq Queues
          /\ holders' \in [Queues -> SUBSET Threads]
          /\ owner' \in Threads \cup {Nil}
      <3>1. PICK k \in Int : refs' = [refs EXCEPT ![arg[th]] = k]
        <4>1. refs[arg[th]] \in Int
          BY <1>1, <2>1 DEF TypeOK
        <4>2. AfterUnlink(arg[th]) \in Int
          BY <4>1 DEF AfterUnlink
        <4>3. AfterUnlink(arg[th]) - 1 \in Int
          BY <4>2
        <4>4. QED BY <1>4, <4>2, <4>3 DEF UnreferenceKeep, UnreferenceLast
      <3>2. holders' \in [Queues -> SUBSET Threads]
        <4>1. holders' = [holders EXCEPT ![arg[th]] = @ \ {th}]
          BY <1>4 DEF UnreferenceKeep, UnreferenceLast
        <4>2. QED BY <1>1, <2>1, <4>1 DEF TypeOK
      <3>3. linked' = linked \cup {arg[th]} \/ linked' = linked \ {arg[th]}
        BY <1>4 DEF UnreferenceKeep, UnreferenceLast
      <3>4. owner' = owner \/ owner' = th
        BY <1>4 DEF UnreferenceKeep, UnreferenceLast
      <3>5. QED BY <1>1, <2>1, <3>1, <3>2, <3>3, <3>4 DEF TypeOK
    <2>4. /\ pc' \in [Threads -> CallPCs]
          /\ arg' \in [Threads -> Queues \cup Names \cup {Nil}]
          /\ CallsOK'
      <3>1. \/ Return(th)
            \/ Enter(th, "destroy", arg[th])
        BY <1>4 DEF UnreferenceKeep, UnreferenceLast
      <3>2. hand' = hand
        BY <1>4 DEF UnreferenceKeep, UnreferenceLast
      <3>3. CASE Return(th)
        BY <1>1, <3>2, <3>3 DEF Return, TypeOK, CallsOK, CallPCs
      <3>4. CASE Enter(th, "destroy", arg[th])
        BY <1>1, <2>1, <3>2, <3>4 DEF Enter, TypeOK, CallsOK, CallPCs
      <3>5. QED BY <3>1, <3>3, <3>4
    <2>5. TypeOK'
      BY <1>1, <1>4, <2>3, <2>4 DEF UnreferenceKeep, UnreferenceLast, TypeOK, listVars,
           statVars, workerVars, histVars
    <2>6. QED BY <2>2, <2>4, <2>5
  <1>5. CASE DestroyStop(th)
    <2>1. arg[th] \in Queues
      BY <1>1, <1>5 DEF CallsOK, DestroyStop
    <2>2. /\ UNCHANGED <<queue, size, wsize, log, ran, dropped>>
          /\ \A p \in Queues \ {arg[th]} : wpc'[p] = wpc[p] /\ run'[p] = run[p]
          /\ wpc'[arg[th]] = IF wpc[arg[th]] = "wait" THEN "woken" ELSE wpc[arg[th]]
      BY <1>1, <1>5, <2>1 DEF DestroyStop, Signal, TypeOK, listVars, histVars
    <2>3. ListsOK'
      <3>1. SizeIsLength' /\ TasksInOrder'
        BY <1>1, <2>2 DEF ListsOK, SizeIsLength, TasksInOrder
      <3>2. WaitsOnEmpty'
        BY <1>1, <2>1, <2>2 DEF ListsOK, WaitsOnEmpty
      <3>3. NoLostWakeup'
        BY <1>1, <2>1, <2>2 DEF ListsOK, NoLostWakeup
      <3>4. DepthStillHolds'
        BY <1>1, <2>1, <2>2 DEF ListsOK, DepthStillHolds
      <3>5. QED BY <3>1, <3>2, <3>3, <3>4 DEF ListsOK
    <2>4. TypeOK'
      BY <1>1, <1>5, <2>1 DEF DestroyStop, Signal, TypeOK, CallPCs, WorkerPCs, listVars,
           statVars, regVars, histVars
    <2>5. CallsOK'
      BY <1>1, <1>5 DEF DestroyStop, TypeOK, CallsOK
    <2>6. QED BY <2>3, <2>4, <2>5
  <1>6. CASE DestroyFree(th)
    <2>1. ListsOK'
      BY <1>1, <1>6, ListsUnchanged DEF DestroyFree, listVars, workerVars, histVars
    <2>2. TypeOK'
      BY <1>1, <1>6 DEF DestroyFree, Return, TypeOK, CallPCs, listVars, statVars,
           workerVars, histVars
    <2>3. CallsOK'
      BY <1>1, <1>6 DEF DestroyFree, Return, TypeOK, CallsOK
    <2>4. QED BY <2>1, <2>2, <2>3
  <1>7. QED BY <1>4, <1>5, <1>6

\* Steps of the worker that change nothing but its program counter and variables.
LEMMA WorkerMoves ==
  ASSUME TypeOK, NEW q \in Queues, NEW w \in WorkerPCs,
         wpc' = [wpc EXCEPT ![q] = w], wsize' \in [Queues -> Nat],
         wtask' \in [Queues -> Tasks \cup {Nil}],
         UNCHANGED <<objVars, listVars, statVars, regVars, callVars, holders, histVars>>
  PROVE  TypeOK'
  BY DEF TypeOK, objVars, listVars, statVars, regVars, callVars, histVars

\* The worker leaves the calls of other threads alone.
LEMMA CallsUnchanged ==
  ASSUME CallsOK, UNCHANGED callVars
  PROVE  CallsOK'
  BY DEF CallsOK, callVars

\* The steps of the worker that move no task.
LEMMA WorkKeeps ==
  ASSUME CoreInv, NEW q \in Queues,
         WorkLoop(q) \/ WorkLock(q) \/ WorkWoken(q) \/ WorkSpurious(q)
           \/ WorkPopNothing(q) \/ WorkExecuted(q) \/ WorkStats(q) \/ WorkEnd(q)
  PROVE  CoreInv'
  <1>1. TypeOK /\ CallsOK /\ ListsOK
    BY DEF CoreInv, ListsOK
  <1>2. SUFFICES TypeOK' /\ CallsOK' /\ ListsOK'
    BY DEF CoreInv, ListsOK
  <1>3. CASE WorkLoop(q) \/ WorkPopNothing(q) \/ WorkExecuted(q) \/ WorkEnd(q)
    <2>1. PICK w \in {"lock", "purge", "top", "stats", "done"} : wpc' = [wpc EXCEPT ![q] = w]
      BY <1>3 DEF WorkLoop, WorkPopNothing, WorkExecuted, WorkEnd
    <2>2. UNCHANGED <<objVars, listVars, statVars, wtask, wsize, regVars, callVars,
                      holders, histVars>>
      BY <1>3 DEF WorkLoop, WorkPopNothing, WorkExecuted, WorkEnd
    <2>3. ListsOK'
      BY <1>1, <2>1, <2>2, WorkerElsewhere DEF objVars, listVars, histVars
    <2>4. wsize' \in [Queues -> Nat] /\ wtask' \in [Queues -> Tasks \cup {Nil}]
      BY <1>1, <2>2 DEF TypeOK
    <2>5. QED
      BY <1>1, <2>1, <2>2, <2>3, <2>4, WorkerMoves, CallsUnchanged DEF WorkerPCs
  <1>4. CASE WorkLock(q)
    <2>1. PICK w \in {"purge", "wait", "pop"} : wpc' = [wpc EXCEPT ![q] = w]
      BY <1>4 DEF WorkLock
    <2>2. wsize' \in [Queues -> Nat] /\ wtask' \in [Queues -> Tasks \cup {Nil}]
      BY <1>1, <1>4 DEF WorkLock, TypeOK
    <2>3. UNCHANGED <<objVars, listVars, statVars, regVars, callVars, holders, histVars>>
      BY <1>4 DEF WorkLock
    <2>4. TypeOK'
      BY <1>1, <2>1, <2>2, <2>3, WorkerMoves DEF WorkerPCs
    <2>5. /\ UNCHANGED <<run, queue, size, log, ran, dropped>>
          /\ \A p \in Queues \ {q} : wpc'[p] = wpc[p] /\ wsize'[p] = wsize[p]
          /\ wpc'[q] = "wait" => run[q] /\ size[q] = 0 /\ wsize'[q] = 0
          /\ wpc'[q] = "pop" => size[q] # 0
          /\ wpc'[q] # "woken"
      BY <1>1, <1>4 DEF WorkLock, KeepRunning, TypeOK, objVars, listVars, histVars
    <2>6. ListsOK'
      <3>1. SizeIsLength' /\ TasksInOrder'
        BY <1>1, <2>5 DEF ListsOK, SizeIsLength, TasksInOrder
      <3>2. WaitsOnEmpty'
        BY <1>1, <2>5 DEF ListsOK, WaitsOnEmpty
      <3>3. size[q] = Len(queue[q]) /\ queue[q] \in Seq(Tasks)
        BY <1>1 DEF ListsOK, SizeIsLength, TypeOK
      <3>4. size[q] = 0 <=> queue[q] = <<>>
        BY <3>3
      <3>5. NoLostWakeup'
        BY <1>1, <2>5, <3>4 DEF ListsOK, NoLostWakeup
      <3>6. DepthStillHolds'
        BY <1>1, <2>5, <3>4 DEF ListsOK, DepthStillHolds
      <3>7. QED BY <3>1, <3>2, <3>5, <3>6 DEF ListsOK
    <2>7. QED BY <1>1, <2>3, <2>4, <2>6, CallsUnchanged
  <1>5. CASE WorkWoken(q) \/ WorkSpurious(q)
    <2>1. PICK w \in {"pop", "purge"} : wpc' = [wpc EXCEPT ![q] = w]
      BY <1>5 DEF WorkWoken, WorkSpurious, WorkAwake
    <2>2. UNCHANGED <<objVars, listVars, statVars, wtask, wsize, regVars, callVars,
                      holders, histVars>>
      BY <1>5 DEF WorkWoken, WorkSpurious, WorkAwake
    <2>3. wsize' \in [Queues -> Nat] /\ wtask' \in [Queues -> Tasks \cup {Nil}]
      BY <1>1, <2>2 DEF TypeOK
    <2>4. TypeOK'
      BY <1>1, <2>1, <2>2, <2>3, WorkerMoves DEF WorkerPCs
    <2>5. /\ UNCHANGED <<run, queue, size, wsize, log, ran, dropped>>
          /\ \A p \in Queues \ {q} : wpc'[p] = wpc[p]
          /\ wpc'[q] \in {"pop", "purge"} /\ wsize[q] = 0
      BY <1>1, <1>5, <2>1, <2>2 DEF WorkWoken, WorkSpurious, ListsOK, WaitsOnEmpty, TypeOK,
           objVars, listVars, histVars
    <2>6. ListsOK'
      <3>1. SizeIsLength' /\ TasksInOrder'
        BY <1>1, <2>5 DEF ListsOK, SizeIsLength, TasksInOrder
      <3>2. WaitsOnEmpty' /\ NoLostWakeup'
        BY <1>1, <2>5 DEF ListsOK, WaitsOnEmpty, NoLostWakeup
      <3>3. DepthStillHolds'
        BY <1>1, <2>5 DEF ListsOK, DepthStillHolds
      <3>4. QED BY <3>1, <3>2, <3>3 DEF ListsOK
    <2>7. QED BY <1>1, <2>2, <2>4, <2>6, CallsUnchanged
  <1>6. CASE WorkStats(q)
    <2>1. wpc' = [wpc EXCEPT ![q] = "top"]
      BY <1>6 DEF WorkStats
    <2>2. ListsOK'
      BY <1>1, <1>6, <2>1, WorkerElsewhere DEF WorkStats, objVars, listVars, histVars
    <2>3. TypeOK'
      <3>1. processed' \in [Queues -> Nat] /\ maxq' \in [Queues -> Nat]
        BY <1>1, <1>6 DEF WorkStats, TypeOK
      <3>2. wtask' \in [Queues -> Tasks \cup {Nil}] /\ wpc' \in [Queues -> WorkerPCs]
        BY <1>1, <1>6 DEF WorkStats, TypeOK, WorkerPCs
      <3>3. QED
        BY <1>1, <1>6, <3>1, <3>2 DEF WorkStats, TypeOK, objVars, listVars, regVars,
             callVars, histVars
    <2>4. QED BY <1>1, <1>6, <2>2, <2>3, CallsUnchanged DEF WorkStats
  <1>7. QED BY <1>3, <1>4, <1>5, <1>6

\* spd_taskqueue_push: one task joins the tail of one list, and the worker of that
\* list, if it sleeps, is woken.
LEMMA PushKeeps ==
  ASSUME CoreInv, NEW th \in Threads, PushInsert(th)
  PROVE  CoreInv'
  <1>1. TypeOK /\ CallsOK /\ ListsOK
    BY DEF CoreInv, ListsOK
  <1>2. SUFFICES TypeOK' /\ CallsOK' /\ ListsOK'
    BY DEF CoreInv, ListsOK
  <1> DEFINE a == arg[th]
             e == hand[th]
  <1>3. a \in Queues /\ e \in Tasks
    BY <1>1 DEF CallsOK, PushInsert
  <1>4. /\ queue[a] \in Seq(Tasks) /\ log[a] \in Seq(Tasks) /\ ran[a] \in Seq(Tasks)
        /\ size[a] \in Nat /\ dropped[a] \in Nat
    BY <1>1, <1>3 DEF TypeOK
  <1>5. /\ queue' = [queue EXCEPT ![a] = Append(queue[a], e)]
        /\ size' = [size EXCEPT ![a] = size[a] + 1]
        /\ log' = [log EXCEPT ![a] = Append(log[a], e)]
        /\ wpc' = [wpc EXCEPT ![a] = IF wpc[a] = "wait" THEN "woken" ELSE wpc[a]]
    BY DEF PushInsert, Insert, Signal
  <1>6. UNCHANGED <<status, name, refs, run, processed, maxq, wtask, wsize, linked,
                    owner, holders, ran, dropped, late, used>>
    BY DEF PushInsert, objVars, statVars, regVars
  <1>7. TypeOK'
    <2>1. /\ queue' \in [Queues -> Seq(Tasks)]
          /\ log' \in [Queues -> Seq(Tasks)]
          /\ size' \in [Queues -> Nat]
      <3>1. /\ Append(queue[a], e) \in Seq(Tasks) /\ Append(log[a], e) \in Seq(Tasks)
            /\ size[a] + 1 \in Nat
        BY <1>3, <1>4
      <3>2. QED BY <1>1, <1>5, <3>1 DEF TypeOK
    <2>2. wpc' \in [Queues -> WorkerPCs]
      BY <1>1, <1>3, <1>5 DEF TypeOK, WorkerPCs
    <2>3. /\ pc' \in [Threads -> CallPCs]
          /\ arg' \in [Threads -> Queues \cup Names \cup {Nil}]
          /\ hand' \in [Threads -> Tasks \cup {Nil}]
      BY <1>1 DEF PushInsert, Return, TypeOK, CallPCs
    <2>4. QED BY <1>1, <1>6, <2>1, <2>2, <2>3 DEF TypeOK
  <1>8. CallsOK'
    BY <1>1 DEF PushInsert, Return, TypeOK, CallsOK
  <1>9. /\ \A p \in Queues \ {a} : /\ queue'[p] = queue[p] /\ log'[p] = log[p]
                                  /\ size'[p] = size[p] /\ wpc'[p] = wpc[p]
        /\ queue'[a] = Append(queue[a], e) /\ log'[a] = Append(log[a], e)
        /\ size'[a] = size[a] + 1
        /\ wpc'[a] = IF wpc[a] = "wait" THEN "woken" ELSE wpc[a]
    BY <1>1, <1>3, <1>5 DEF TypeOK
  <1> HIDE DEF a, e
  <1>10. SizeIsLength'
    <2>1. Len(queue'[a]) = Len(queue[a]) + 1
      BY <1>3, <1>4, <1>9, AppendFacts
    <2>2. \A p \in Queues : size[p] = Len(queue[p])
      BY <1>1 DEF ListsOK, SizeIsLength
    <2>3. ASSUME NEW p \in Queues PROVE size'[p] = Len(queue'[p])
      <3>1. CASE p = a
        BY <1>3, <1>9, <2>1, <2>2, <3>1
      <3>2. CASE p # a
        BY <1>9, <2>2, <3>2
      <3>3. QED BY <3>1, <3>2
    <2>4. QED BY <2>3 DEF SizeIsLength
  <1>11. WaitsOnEmpty' /\ NoLostWakeup' /\ DepthStillHolds'
    <2>1. Append(queue[a], e) # <<>>
      BY <1>3, <1>4, AppendFacts
    <2>2. QED
      BY <1>1, <1>3, <1>6, <1>9, <2>1 DEF ListsOK, WaitsOnEmpty, NoLostWakeup, DepthStillHolds
  <1>12. TasksInOrder'
    <2> SUFFICES ASSUME NEW p \in Queues
                 PROVE  /\ Len(log'[p]) = Len(ran'[p]) + dropped'[p] + Len(queue'[p])
                        /\ \A i \in 1 .. Len(ran'[p]) : ran'[p][i] = log'[p][i]
                        /\ \A i \in 1 .. Len(queue'[p]) :
                             queue'[p][i] = log'[p][Len(ran'[p]) + dropped'[p] + i]
      BY DEF TasksInOrder
    <2>1. CASE p # a
      BY <1>1, <1>6, <1>9, <2>1 DEF ListsOK, TasksInOrder
    <2>2. CASE p = a
      <3>1. /\ Len(log[a]) = Len(ran[a]) + dropped[a] + Len(queue[a])
            /\ \A i \in 1 .. Len(ran[a]) : ran[a][i] = log[a][i]
            /\ \A i \in 1 .. Len(queue[a]) : queue[a][i] = log[a][Len(ran[a]) + dropped[a] + i]
        BY <1>1, <1>3 DEF ListsOK, TasksInOrder
      <3>2. /\ Len(queue'[a]) = Len(queue[a]) + 1 /\ Len(log'[a]) = Len(log[a]) + 1
            /\ \A i \in 1 .. Len(queue[a]) : queue'[a][i] = queue[a][i]
            /\ \A i \in 1 .. Len(log[a]) : log'[a][i] = log[a][i]
            /\ queue'[a][Len(queue[a]) + 1] = e /\ log'[a][Len(log[a]) + 1] = e
        BY <1>3, <1>4, <1>9, AppendFacts
      <3>3. Len(queue[a]) \in Nat /\ Len(log[a]) \in Nat /\ Len(ran[a]) \in Nat
        BY <1>4
      <3>4. ran'[a] = ran[a] /\ dropped'[a] = dropped[a]
        BY <1>6
      <3>5. Len(log'[a]) = Len(ran'[a]) + dropped'[a] + Len(queue'[a])
        BY <1>4, <3>1, <3>2, <3>3, <3>4
      <3>6. ASSUME NEW i \in 1 .. Len(ran'[a]) PROVE ran'[a][i] = log'[a][i]
        <4>1. i \in 1 .. Len(ran[a]) /\ i \in 1 .. Len(log[a])
          BY <1>4, <3>1, <3>3, <3>4
        <4>2. QED BY <3>1, <3>2, <3>4, <4>1
      <3>7. ASSUME NEW i \in 1 .. Len(queue'[a])
            PROVE  queue'[a][i] = log'[a][Len(ran'[a]) + dropped'[a] + i]
        <4>1. CASE i = Len(queue[a]) + 1
          <5>1. Len(ran'[a]) + dropped'[a] + i = Len(log[a]) + 1
            <6>1. Len(ran[a]) \in Nat /\ dropped[a] \in Nat /\ Len(queue[a]) \in Nat
              BY <1>4, <3>3
            <6>2. \A k, d, n \in Nat : k + d + (n + 1) = (k + d + n) + 1
              OBVIOUS
            <6>3. QED BY <3>1, <3>4, <4>1, <6>1, <6>2
          <5>2. QED BY <3>2, <4>1, <5>1
        <4>2. CASE i # Len(queue[a]) + 1
          <5>1. /\ i \in 1 .. Len(queue[a])
                /\ Len(ran[a]) + dropped[a] + i \in 1 .. Len(log[a])
            <6>1. i \in 1 .. Len(queue[a])
              BY <3>2, <3>3, <4>2
            <6>2. QED BY <1>4, <3>1, <3>3, <6>1
          <5>2. QED BY <3>1, <3>2, <3>4, <5>1
        <4>3. QED BY <4>1, <4>2
      <3>8. QED BY <2>2, <3>5, <3>6, <3>7
    <2>3. QED BY <2>1, <2>2
  <1>13. QED BY <1>7, <1>8, <1>10, <1>11, <1>12 DEF ListsOK

\* tps_taskqueue_pop: the first task leaves one list, to be executed or purged, and
\* the worker goes to a place where it neither waits nor pops.
LEMMA PopKeeps ==
  ASSUME CoreInv, PurgesLast, NEW q \in Queues, WorkPop(q) \/ WorkPurge(q)
  PROVE  CoreInv'
  <1>1. TypeOK /\ CallsOK /\ ListsOK
    BY DEF CoreInv, ListsOK
  <1>2. SUFFICES TypeOK' /\ CallsOK' /\ ListsOK'
    BY DEF CoreInv, ListsOK
  <1> DEFINE h == Head(queue[q])
  <1>3. /\ queue[q] \in Seq(Tasks) /\ queue[q] # <<>>
        /\ log[q] \in Seq(Tasks) /\ ran[q] \in Seq(Tasks)
        /\ size[q] \in Nat /\ dropped[q] \in Nat /\ late[q] \in Nat
    BY <1>1 DEF TypeOK, WorkPop, WorkPurge, Pop
  <1>4. size[q] = Len(queue[q]) /\ Len(queue[q]) > 0 /\ h \in Tasks
    BY <1>1, <1>3, TailFacts DEF ListsOK, SizeIsLength
  <1>5. /\ queue' = [queue EXCEPT ![q] = Tail(queue[q])]
        /\ size' = [size EXCEPT ![q] = size[q] - 1]
    BY DEF WorkPop, WorkPurge, Pop
  <1>6. UNCHANGED <<status, name, refs, run, processed, maxq, wsize, linked, owner,
                    pc, arg, hand, holders, log, used>>
    BY DEF WorkPop, WorkPurge, objVars, statVars, workerVars, regVars, callVars
  <1>7. \/ ran' = [ran EXCEPT ![q] = Append(ran[q], h)] /\ dropped' = dropped
        \/ ran' = ran /\ dropped' = [dropped EXCEPT ![q] = dropped[q] + 1]
    BY DEF WorkPop, WorkPurge
  <1>8. TypeOK'
    <2>1. Tail(queue[q]) \in Seq(Tasks) /\ size[q] - 1 \in Nat
      BY <1>3, <1>4, TailFacts
    <2>2. queue' \in [Queues -> Seq(Tasks)] /\ size' \in [Queues -> Nat]
      BY <1>1, <1>5, <2>1 DEF TypeOK
    <2>3. Append(ran[q], h) \in Seq(Tasks)
      BY <1>3, <1>4
    <2>4. ran' \in [Queues -> Seq(Tasks)] /\ dropped' \in [Queues -> Nat]
      <3>1. CASE ran' = [ran EXCEPT ![q] = Append(ran[q], h)] /\ dropped' = dropped
        BY <1>1, <2>3, <3>1 DEF TypeOK
      <3>2. CASE ran' = ran /\ dropped' = [dropped EXCEPT ![q] = dropped[q] + 1]
        BY <1>1, <1>3, <3>2 DEF TypeOK
      <3>3. QED BY <1>7, <3>1, <3>2
    <2>5. late' \in [Queues -> Nat]
      <3>1. CASE WorkPop(q)
        <4>1. late' = [late EXCEPT ![q] = IF run[q] THEN late[q] ELSE late[q] + 1]
          BY <3>1 DEF WorkPop
        <4>2. CASE run[q]
          BY <1>1, <4>1, <4>2 DEF TypeOK
        <4>3. CASE ~run[q]
          <5>1. late' = [late EXCEPT ![q] = late[q] + 1] /\ late[q] + 1 \in Nat
            BY <1>3, <4>1, <4>3
          <5>2. QED BY <1>1, <5>1 DEF TypeOK
        <4>4. QED BY <4>2, <4>3
      <3>2. CASE WorkPurge(q)
        BY <1>1, <3>2 DEF WorkPurge, TypeOK
      <3>3. QED BY <3>1, <3>2
    <2>6. wtask' \in [Queues -> Tasks \cup {Nil}] /\ wpc' \in [Queues -> WorkerPCs]
      <3>1. CASE WorkPop(q)
        BY <1>1, <1>4, <3>1 DEF WorkPop, TypeOK, WorkerPCs
      <3>2. CASE WorkPurge(q)
        BY <1>1, <3>2 DEF WorkPurge, TypeOK, workerVars
      <3>3. QED BY <3>1, <3>2
    <2>7. QED BY <1>1, <1>6, <2>2, <2>4, <2>5, <2>6 DEF TypeOK
  <1>9. CallsOK'
    BY <1>1, <1>6 DEF CallsOK
  <1>10. /\ \A p \in Queues \ {q} : /\ queue'[p] = queue[p] /\ size'[p] = size[p]
                                  /\ wpc'[p] = wpc[p] /\ ran'[p] = ran[p]
                                  /\ dropped'[p] = dropped[p]
         /\ queue'[q] = Tail(queue[q]) /\ size'[q] = size[q] - 1
         /\ wpc'[q] \in {"exec", "purge"}
         /\ \/ ran'[q] = Append(ran[q], h) /\ dropped'[q] = dropped[q]
            \/ ran'[q] = ran[q] /\ dropped'[q] = dropped[q] + 1
    <2>1. wpc' = [wpc EXCEPT ![q] = "exec"] \/ (wpc' = wpc /\ wpc[q] = "purge")
      BY DEF WorkPop, WorkPurge, workerVars
    <2>2. QED BY <1>1, <1>5, <1>7, <2>1 DEF TypeOK
  <1> HIDE DEF h
  <1>11. SizeIsLength'
    <2>1. Len(queue'[q]) = Len(queue[q]) - 1
      BY <1>3, <1>10, TailFacts
    <2>2. QED BY <1>1, <1>4, <1>10, <2>1 DEF ListsOK, SizeIsLength
  <1>12. WaitsOnEmpty' /\ NoLostWakeup' /\ DepthStillHolds'
    BY <1>1, <1>6, <1>10 DEF ListsOK, WaitsOnEmpty, NoLostWakeup, DepthStillHolds
  <1>13. TasksInOrder'
    <2> SUFFICES ASSUME NEW p \in Queues
                 PROVE  /\ Len(log'[p]) = Len(ran'[p]) + dropped'[p] + Len(queue'[p])
                        /\ \A i \in 1 .. Len(ran'[p]) : ran'[p][i] = log'[p][i]
                        /\ \A i \in 1 .. Len(queue'[p]) :
                             queue'[p][i] = log'[p][Len(ran'[p]) + dropped'[p] + i]
      BY DEF TasksInOrder
    <2>1. /\ Len(log[p]) = Len(ran[p]) + dropped[p] + Len(queue[p])
          /\ \A i \in 1 .. Len(ran[p]) : ran[p][i] = log[p][i]
          /\ \A i \in 1 .. Len(queue[p]) : queue[p][i] = log[p][Len(ran[p]) + dropped[p] + i]
      BY <1>1 DEF ListsOK, TasksInOrder
    <2>2. CASE p # q
      BY <1>6, <1>10, <2>1, <2>2
    <2>3. CASE p = q
      <3>1. /\ Len(queue'[q]) = Len(queue[q]) - 1
            /\ \A i \in 1 .. Len(queue'[q]) : queue'[q][i] = queue[q][i + 1]
            /\ Len(queue[q]) \in Nat /\ Len(ran[q]) \in Nat
            /\ log'[q] = log[q]
        BY <1>3, <1>6, <1>10, TailFacts
      <3>2. Len(ran'[q]) + dropped'[q] = Len(ran[q]) + dropped[q] + 1
        <4>1. Len(Append(ran[q], h)) = Len(ran[q]) + 1
          BY <1>3, <1>4, AppendFacts
        <4>2. CASE ran'[q] = Append(ran[q], h) /\ dropped'[q] = dropped[q]
          BY <1>3, <3>1, <4>1, <4>2
        <4>3. CASE ran'[q] = ran[q] /\ dropped'[q] = dropped[q] + 1
          <5>1. Len(ran[q]) \in Nat /\ dropped[q] \in Nat
            BY <1>3, <3>1
          <5>2. \A k, d \in Nat : k + (d + 1) = k + d + 1
            OBVIOUS
          <5>3. QED BY <4>3, <5>1, <5>2
        <4>4. QED BY <1>10, <4>2, <4>3
      <3>3. Len(log'[q]) = Len(ran'[q]) + dropped'[q] + Len(queue'[q])
        <4>1. Len(log[q]) = Len(ran[q]) + dropped[q] + Len(queue[q])
          BY <2>1, <2>3
        <4>2. QED BY <1>3, <3>1, <3>2, <4>1
      <3>4. \A i \in 1 .. Len(queue'[q]) : queue'[q][i] = log'[q][Len(ran'[q]) + dropped'[q] + i]
        <4>1. ASSUME NEW i \in 1 .. Len(queue'[q])
              PROVE  queue'[q][i] = log'[q][Len(ran'[q]) + dropped'[q] + i]
          <5>1. i + 1 \in 1 .. Len(queue[q]) /\ queue'[q][i] = queue[q][i + 1]
            BY <3>1
          <5>2. queue[q][i + 1] = log[q][Len(ran[q]) + dropped[q] + (i + 1)]
            BY <2>1, <2>3, <5>1
          <5>3. Len(ran[q]) + dropped[q] + (i + 1) = Len(ran'[q]) + dropped'[q] + i
            <6>1. i \in Nat /\ dropped[q] \in Nat /\ Len(ran[q]) \in Nat
              BY <1>3, <3>1
            <6>2. \A k, d, j \in Nat : k + d + (j + 1) = (k + d + 1) + j
              OBVIOUS
            <6>3. QED BY <3>2, <6>1, <6>2
          <5>4. QED BY <3>1, <5>1, <5>2, <5>3
        <4>2. QED BY <4>1
      <3>5. \A i \in 1 .. Len(ran'[q]) : ran'[q][i] = log'[q][i]
        <4>1. CASE ran'[q] = ran[q]
          BY <2>1, <2>3, <3>1, <4>1
        <4>2. CASE ran'[q] # ran[q]
          <5>1. ran'[q] = Append(ran[q], h) /\ dropped[q] = 0
            <6>1. ~WorkPurge(q)
              BY <4>2 DEF WorkPurge
            <6>2. wpc[q] = "pop"
              BY <6>1 DEF WorkPop
            <6>3. ~(dropped[q] > 0)
              BY <6>2 DEF PurgesLast
            <6>4. dropped[q] = 0
              BY <1>3, <6>3
            <6>5. QED BY <1>10, <4>2, <6>4
          <5>2. /\ Len(ran'[q]) = Len(ran[q]) + 1
                /\ \A i \in 1 .. Len(ran[q]) : ran'[q][i] = ran[q][i]
                /\ ran'[q][Len(ran[q]) + 1] = h
            BY <1>3, <1>4, <5>1, AppendFacts
          <5>3. h = log[q][Len(ran[q]) + 1]
            <6>1. h = queue[q][1] /\ 1 \in 1 .. Len(queue[q])
              BY <1>3, <1>4, TailFacts DEF h
            <6>2. queue[q][1] = log[q][Len(ran[q]) + dropped[q] + 1]
              BY <2>1, <2>3, <6>1
            <6>3. Len(ran[q]) + dropped[q] + 1 = Len(ran[q]) + 1
              BY <3>1, <5>1
            <6>4. QED BY <6>1, <6>2, <6>3
          <5>4. ASSUME NEW i \in 1 .. Len(ran'[q]) PROVE ran'[q][i] = log'[q][i]
            <6>1. CASE i = Len(ran[q]) + 1
              BY <3>1, <5>2, <5>3, <6>1
            <6>2. CASE i # Len(ran[q]) + 1
              <7>1. i \in 1 .. Len(ran[q])
                BY <3>1, <5>2, <6>2
              <7>2. QED BY <2>1, <2>3, <3>1, <5>2, <7>1
            <6>3. QED BY <6>1, <6>2
          <5>5. QED BY <5>4
        <4>3. QED BY <4>1, <4>2
      <3>6. QED BY <2>3, <3>3, <3>4, <3>5
    <2>4. QED BY <2>2, <2>3
  <1>14. QED BY <1>8, <1>9, <1>11, <1>12, <1>13 DEF ListsOK

----------------------------------------------------------------------------
(* PurgesLast. *)

\* A worker that has not come to its purge has purged nothing, wherever it goes.
LEMMA WorkerGoesOn ==
  ASSUME TypeOK, PurgesLast, NEW q \in Queues, NEW w,
         wpc[q] \notin {"none", "purge", "done"},
         wpc' = [wpc EXCEPT ![q] = w],
         UNCHANGED <<status, dropped>>
  PROVE  PurgesLast'
  <1>1. \A p \in Queues : wpc'[p] = IF p = q THEN w ELSE wpc[p]
    BY DEF TypeOK
  <1>2. dropped[q] \in Nat /\ ~(dropped[q] > 0) /\ status[q] # "unused"
    BY DEF TypeOK, PurgesLast
  <1>3. QED BY <1>1, <1>2 DEF PurgesLast

\* spd_cond_signal moves only a worker that waits.
LEMMA SignalGoesOn ==
  ASSUME TypeOK, PurgesLast, NEW q \in Queues, Signal(q), UNCHANGED <<status, dropped>>
  PROVE  PurgesLast'
  <1>1. CASE wpc[q] = "wait"
    BY <1>1, WorkerGoesOn DEF Signal
  <1>2. CASE wpc[q] # "wait"
    <2>1. wpc' = wpc
      BY <1>2 DEF Signal, TypeOK
    <2>2. QED BY <2>1 DEF PurgesLast
  <1>3. QED BY <1>1, <1>2

\* No call into the API purges a task or moves a worker past its purge.
LEMMA CallKeepsPurges ==
  ASSUME TypeOK, CallsOK, PurgesLast, NEW th \in Threads, Call(th) \/ InCall(th)
  PROVE  PurgesLast'
  <1>1. CASE Call(th) \/ GetFound(th) \/ GetNothing(th) \/ UnreferenceKeep(th)
             \/ UnreferenceLast(th)
    <2>1. UNCHANGED <<status, wpc, dropped>>
      BY <1>1 DEF Call, GetCall, UnreferenceCall, PushAlloc, GetFound, GetNothing,
           UnreferenceKeep, UnreferenceLast, objVars, workerVars, histVars
    <2>2. QED BY <2>1 DEF PurgesLast
  <1>2. CASE GetCreated(th) \/ GetNoStats(th) \/ GetNotLinked(th)
    <2>1. PICK q \in Queues, r \in Int, w \in {"none", "top"} : NewObject(q, arg[th], r, w)
      BY <1>2 DEF GetCreated, GetNoStats, GetNotLinked
    <2>2. /\ status[q] = "unused"
          /\ \A p \in Queues : status'[p] = IF p = q THEN "live" ELSE status[p]
          /\ \A p \in Queues : wpc'[p] = IF p = q THEN w ELSE wpc[p]
          /\ dropped' = dropped
      BY <2>1 DEF NewObject, TypeOK, histVars
    <2>3. ~(dropped[q] > 0)
      BY <2>2 DEF PurgesLast
    <2>4. QED BY <2>2, <2>3 DEF PurgesLast
  <1>3. CASE DestroyStop(th) \/ PushInsert(th)
    <2>1. arg[th] \in Queues /\ Signal(arg[th]) /\ UNCHANGED <<status, dropped>>
      BY <1>3 DEF CallsOK, DestroyStop, PushInsert, objVars, histVars
    <2>2. QED BY <2>1, SignalGoesOn
  <1>4. CASE DestroyFree(th)
    <2>1. /\ \A p \in Queues : status'[p] = "freed" \/ status'[p] = status[p]
          /\ UNCHANGED <<wpc, dropped>>
      BY <1>4 DEF DestroyFree, TypeOK, workerVars, histVars
    <2>2. QED BY <2>1 DEF PurgesLast
  <1>5. QED BY <1>1, <1>2, <1>3, <1>4 DEF InCall

\* tps_work_thread executes nothing once it has begun to purge.
LEMMA WorkKeepsPurges ==
  ASSUME TypeOK, PurgesLast, NEW q \in Queues, Work(q) \/ WorkSpurious(q)
  PROVE  PurgesLast'
  <1>1. CASE WorkEnd(q)
    <2>1. /\ \A p \in Queues : wpc'[p] = IF p = q THEN "done" ELSE wpc[p]
          /\ wpc[q] = "purge"
          /\ UNCHANGED <<status, dropped>>
      BY <1>1 DEF WorkEnd, TypeOK, objVars, histVars
    <2>2. QED BY <2>1 DEF PurgesLast
  <1>2. CASE WorkPurge(q)
    <2>1. /\ \A p \in Queues \ {q} : dropped'[p] = dropped[p]
          /\ wpc[q] = "purge"
          /\ UNCHANGED <<status, wpc>>
      BY <1>2 DEF WorkPurge, TypeOK, objVars, workerVars
    <2>2. QED BY <2>1 DEF PurgesLast
  <1>3. CASE WorkLoop(q) \/ WorkLock(q) \/ WorkWoken(q) \/ WorkSpurious(q) \/ WorkPop(q)
             \/ WorkPopNothing(q) \/ WorkExecuted(q) \/ WorkStats(q)
    <2>1. PICK w \in WorkerPCs : wpc' = [wpc EXCEPT ![q] = w]
      BY <1>3 DEF WorkLoop, WorkLock, WorkWoken, WorkSpurious, WorkAwake, WorkPop,
           WorkPopNothing, WorkExecuted, WorkStats, WorkerPCs
    <2>2. wpc[q] \notin {"none", "purge", "done"} /\ UNCHANGED <<status, dropped>>
      BY <1>3 DEF WorkLoop, WorkLock, WorkWoken, WorkSpurious, WorkAwake, WorkPop,
           WorkPopNothing, WorkExecuted, WorkStats, objVars, histVars
    <2>3. QED BY <2>1, <2>2, WorkerGoesOn
  <1>4. QED BY <1>1, <1>2, <1>3 DEF Work

----------------------------------------------------------------------------
(* The theorems. *)

\* Every step of every thread keeps the inductive invariant.
LEMMA StepIInv == IInv /\ [Next]_vars => IInv'
  <1> SUFFICES ASSUME IInv, [Next]_vars PROVE IInv'
    OBVIOUS
  <1>1. CoreInv /\ PurgesLast /\ TypeOK /\ CallsOK
    BY DEF IInv, CoreInv
  <1>2. ASSUME NEW th \in Threads, Call(th) PROVE IInv'
    <2>1. CoreInv'
      BY <1>1, <1>2, CallKeeps
    <2>2. QED BY <1>1, <1>2, <2>1, CallKeepsPurges DEF IInv
  <1>3. ASSUME NEW th \in Threads, InCall(th) PROVE IInv'
    <2>1. CoreInv'
      BY <1>1, <1>3, GetKeeps, UnreferenceKeeps, PushKeeps DEF InCall
    <2>2. QED BY <1>1, <1>3, <2>1, CallKeepsPurges DEF IInv
  <1>4. ASSUME NEW q \in Queues, Work(q) \/ WorkSpurious(q) PROVE IInv'
    <2>1. CoreInv'
      BY <1>1, <1>4, WorkKeeps, PopKeeps DEF Work
    <2>2. QED BY <1>1, <1>4, <2>1, WorkKeepsPurges DEF IInv
  <1>5. CASE UNCHANGED vars
    BY <1>1, <1>5 DEF vars, objVars, listVars, statVars, workerVars, regVars, callVars,
         histVars, IInv, CoreInv, TypeOK, CallsOK, SizeIsLength, WaitsOnEmpty,
         NoLostWakeup, DepthStillHolds, TasksInOrder, PurgesLast
  <1>6. QED BY <1>2, <1>3, <1>4, <1>5 DEF Next

\* The inductive invariant holds in every state the task queues reach.
LEMMA IInvAlways == Spec => []IInv
  BY InitIInv, StepIInv, PTL DEF Spec

\* Every variable keeps its type, whatever the threads do.
THEOREM TypeCorrect == Spec => []TypeOK
  <1>1. IInv => TypeOK
    BY DEF IInv, CoreInv
  <1>2. QED BY <1>1, IInvAlways, PTL

\* No wakeup is lost between the test of the depth in tps_work_thread and its wait:
\* a worker that sleeps has an empty list and has not been told to stop.
THEOREM NoWakeupIsLost == Spec => []NoLostWakeup
  <1>1. IInv => NoLostWakeup
    BY DEF IInv, CoreInv
  <1>2. QED BY <1>1, IInvAlways, PTL

\* The depth tps_work_thread reads in one critical section still promises a task to
\* the pop in the next one.
THEOREM PopFindsTask == Spec => []DepthStillHolds
  <1>1. IInv => DepthStillHolds
    BY DEF IInv, CoreInv
  <1>2. QED BY <1>1, IInvAlways, PTL

\* Tasks are executed in the order spd_taskqueue_push accepted them, at most once
\* each, and none is lost: the list is what was accepted and neither executed nor
\* purged.
THEOREM FifoOrder == Spec => []TasksInOrder
  <1>1. IInv => TasksInOrder
    BY DEF IInv, CoreInv
  <1>2. QED BY <1>1, IInvAlways, PTL

----------------------------------------------------------------------------
(* Reference counts, the registry and destruction: the invariant beside     *)
(* IInv.                                                                   *)

Uses(th, q) == pc[th] # "idle" /\ arg[th] = q
Destroys(th, q) == pc[th] \in {"destroy", "join"} /\ arg[th] = q

\* Nobody knows of an object that is not allocated.
UnusedUntouched ==
  \A q \in Queues : status[q] = "unused" =>
    /\ holders[q] = {} /\ q \notin linked /\ ~run[q]
    /\ \A th \in Threads : ~Uses(th, q)

\* A thread gives back a reference it has, and pushes to a queue it holds or runs in.
CallersHold ==
  \A th \in Threads :
    /\ pc[th] = "unref" => th \in holders[arg[th]]
    /\ pc[th] = "push" => th \in holders[arg[th]] \/ th = arg[th]

\* One thread at a time runs the destructor, on an object that nobody can find or holds.
DestroyedOnce ==
  \A th \in Threads : \A q \in Queues : Destroys(th, q) =>
    /\ holders[q] = {} /\ q \notin linked
    /\ \A other \in Threads : Destroys(other, q) => other = th

\* A worker that has left its loop was told to, and whoever told it had the last reference.
StoppedIsGivenUp ==
  \A q \in Queues :
    /\ wpc[q] \in {"purge", "done"} => ~run[q]
    /\ status[q] # "unused" /\ ~run[q] => holders[q] = {} /\ q \notin linked

\* A worker calls the API only from its handler.
WorkersCall == \A q \in Queues : pc[q] # "idle" => wpc[q] = "exec"

\* A worker ends with an empty list, and nothing comes after.
DoneIsEmpty == \A q \in Queues : wpc[q] = "done" => queue[q] = <<>>

\* The count alone is not inductive: that the last decrement is the last reference, and that
\* a new object has none, rests on who may hold, call and destroy.
RefInv ==
  /\ ReferencesCounted
  /\ UnusedUntouched
  /\ CallersHold
  /\ DestroyedOnce
  /\ StoppedIsGivenUp
  /\ WorkersCall
  /\ DoneIsEmpty

\* No handler gives back the last reference of the queue that runs it.
NoneJoinsItself == \A th \in Threads : pc[th] \in {"unref", "destroy", "join"} => arg[th] # th

FreeInv == FreedIsUnreachable /\ NoneJoinsItself

\* Without a failure in the middle of an unreference, who is held can be found.
HeldIsLinked == \A q \in Queues : holders[q] # {} => q \in linked

NameInv == SingletonPerName /\ HeldIsLinked

----------------------------------------------------------------------------
(* Counting holders.                                                       *)

\* One holder more or less is one reference more or less.
LEMMA HolderCounts ==
  ASSUME NEW H \in SUBSET Threads, NEW th \in Threads
  PROVE  /\ Cardinality(H) \in Nat
         /\ th \notin H => Cardinality(H \cup {th}) = Cardinality(H) + 1
         /\ th \in H => Cardinality(H \ {th}) = Cardinality(H) - 1
         /\ th \in H /\ Cardinality(H) <= 1 => H \ {th} = {}
         /\ Cardinality({th}) = 1
         /\ Cardinality({}) = 0
  <1>1. IsFiniteSet(H) /\ IsFiniteSet(H \ {th})
    BY ConstantsAssumption, FS_Subset
  <1>2. Cardinality(H) \in Nat /\ Cardinality(H \ {th}) \in Nat
    BY <1>1, FS_CardinalityType
  <1>3. th \notin H => Cardinality(H \cup {th}) = Cardinality(H) + 1
    BY <1>1, FS_AddElement
  <1>4. th \in H => Cardinality(H \ {th}) = Cardinality(H) - 1
    BY <1>1, FS_RemoveElement
  <1>5. Cardinality({th}) = 1 /\ Cardinality({}) = 0
    BY FS_Singleton, FS_EmptySet
  <1>6. ASSUME th \in H, Cardinality(H) <= 1 PROVE H \ {th} = {}
    <2>1. Cardinality(H \ {th}) = 0
      BY <1>2, <1>4, <1>6
    <2>2. QED BY <1>1, <2>1, FS_EmptySet
  <1>7. QED BY <1>2, <1>3, <1>4, <1>5, <1>6

\* The types the steps below rest on.
LEMMA Types ==
  ASSUME IInv
  PROVE  /\ pc \in [Threads -> CallPCs]
         /\ arg \in [Threads -> Queues \cup Names \cup {Nil}]
         /\ status \in [Queues -> {"unused", "live", "freed"}]
         /\ refs \in [Queues -> Int] /\ run \in [Queues -> BOOLEAN]
         /\ wpc \in [Queues -> WorkerPCs]
         /\ holders \in [Queues -> SUBSET Threads]
         /\ linked \subseteq Queues
         /\ queue \in [Queues -> Seq(Tasks)]
         /\ Users \subseteq Threads /\ Queues \subseteq Threads /\ Users \cap Queues = {}
         /\ Names \cap Queues = {} /\ Nil \notin Queues
  BY ConstantsAssumption DEF IInv, CoreInv, TypeOK, Threads

\* In every reachable state refs[q] is the number of holders, and one more if q is linked.
LEMMA CountOf ==
  ASSUME IInv, ReferencesCounted, NEW q \in Queues
  PROVE  /\ Cardinality(holders[q]) \in Nat
         /\ refs[q] = Cardinality(holders[q]) + (IF q \in linked THEN 1 ELSE 0)
         /\ AfterUnlink(q) = Cardinality(holders[q])
  <1>1. holders[q] \in SUBSET Threads /\ q \in Threads
    BY Types
  <1>2. Cardinality(holders[q]) \in Nat
    BY <1>1, HolderCounts
  <1>3. refs[q] = Cardinality(holders[q]) + (IF q \in linked THEN 1 ELSE 0)
    BY DEF ReferencesCounted, RefsOwed
  <1>4. QED BY <1>2, <1>3 DEF AfterUnlink

----------------------------------------------------------------------------
(* The steps.                                                              *)

\* A call begins.
LEMMA CallBegins ==
  ASSUME IInv, RefInv, NEW th \in Threads, Call(th)
  PROVE  RefInv'
  <1>1. UNCHANGED <<status, name, refs, run, wpc, linked, holders, queue>>
    BY DEF Call, GetCall, UnreferenceCall, PushAlloc, objVars, listVars, workerVars, regVars
  <1>2. PICK where \in {"get", "unref", "push"}, what \in Queues \cup Names :
          /\ pc' = [pc EXCEPT ![th] = where] /\ arg' = [arg EXCEPT ![th] = what]
          /\ where = "get" => what \in Names
          /\ where = "unref" => what \in Queues /\ th \in holders[what]
          /\ where = "push" => what \in Queues /\ (th \in holders[what] \/ th = what)
    BY DEF Call, GetCall, UnreferenceCall, PushAlloc, Enter, MayPush
  <1>3. pc[th] = "idle" /\ (th \in Queues => wpc[th] = "exec")
    BY Types DEF Call, GetCall, UnreferenceCall, PushAlloc, MayCall
  <1>4. \A o \in Threads : /\ pc'[o] = IF o = th THEN where ELSE pc[o]
                           /\ arg'[o] = IF o = th THEN what ELSE arg[o]
    BY <1>2, Types
  <1>5. ReferencesCounted'
    BY <1>1 DEF RefInv, ReferencesCounted, RefsOwed
  <1>6. UnusedUntouched'
    <2>1. \A q \in Queues : status[q] = "unused" => what # q
      BY <1>2, <1>3, Types DEF RefInv, UnusedUntouched, IInv, PurgesLast
    <2>2. QED BY <1>1, <1>4, <2>1 DEF RefInv, UnusedUntouched, Uses
  <1>7. CallersHold'
    BY <1>1, <1>2, <1>4 DEF RefInv, CallersHold
  <1>8. DestroyedOnce'
    BY <1>1, <1>4 DEF RefInv, DestroyedOnce, Destroys
  <1>9. StoppedIsGivenUp' /\ DoneIsEmpty'
    BY <1>1 DEF RefInv, StoppedIsGivenUp, DoneIsEmpty
  <1>10. WorkersCall'
    BY <1>1, <1>3, <1>4, Types DEF RefInv, WorkersCall
  <1>11. QED BY <1>5, <1>6, <1>7, <1>8, <1>9, <1>10 DEF RefInv

\* obj_find finds an object, which nobody destroys, or nothing.
LEMMA FoundKeepsRefs ==
  ASSUME IInv, RefInv, NEW th \in Threads, GetFound(th) \/ GetNothing(th)
  PROVE  RefInv'
  <1>1. UNCHANGED <<status, name, run, wpc, linked, queue>>
    BY DEF GetFound, GetNothing, objVars, listVars, workerVars, regVars
  <1>2. /\ pc[th] = "get"
        /\ \A o \in Threads : /\ pc'[o] = IF o = th THEN "idle" ELSE pc[o]
                              /\ arg'[o] = IF o = th THEN Nil ELSE arg[o]
    BY Types DEF GetFound, GetNothing, Return
  <1>3. \A q \in Queues :
          \/ refs'[q] = refs[q] /\ holders'[q] = holders[q]
          \/ /\ q \in linked /\ th \notin holders[q]
             /\ refs'[q] = refs[q] + 1 /\ holders'[q] = holders[q] \cup {th}
    <2>1. CASE GetFound(th)
      BY <2>1, Types DEF GetFound, Registered
    <2>2. CASE GetNothing(th)
      BY <2>2 DEF GetNothing, objVars
    <2>3. QED BY <2>1, <2>2
  <1>4. ReferencesCounted'
    <2> SUFFICES ASSUME NEW q \in Queues
                 PROVE  refs'[q] = Cardinality(holders'[q]) + (IF q \in linked' THEN 1 ELSE 0)
      BY DEF ReferencesCounted, RefsOwed
    <2>1. /\ refs[q] = Cardinality(holders[q]) + (IF q \in linked THEN 1 ELSE 0)
          /\ Cardinality(holders[q]) \in Nat
          /\ th \notin holders[q] =>
               Cardinality(holders[q] \cup {th}) = Cardinality(holders[q]) + 1
      BY CountOf, HolderCounts, Types DEF RefInv
    <2>2. QED BY <1>1, <1>3, <2>1
  <1>5. UnusedUntouched'
    BY <1>1, <1>2, <1>3, Types DEF RefInv, UnusedUntouched, Uses
  <1>6. CallersHold'
    <2>1. \A o \in Threads : pc[o] \in {"unref", "push"} => arg[o] \in Queues
      BY DEF IInv, CoreInv, CallsOK
    <2>2. QED BY <1>2, <1>3, <2>1 DEF RefInv, CallersHold
  <1>7. DestroyedOnce'
    BY <1>1, <1>2, <1>3 DEF RefInv, DestroyedOnce, Destroys
  <1>8. StoppedIsGivenUp' /\ DoneIsEmpty'
    BY <1>1, <1>3 DEF RefInv, StoppedIsGivenUp, DoneIsEmpty
  <1>9. WorkersCall'
    BY <1>1, <1>2, Types DEF RefInv, WorkersCall
  <1>10. QED BY <1>4, <1>5, <1>6, <1>7, <1>8, <1>9 DEF RefInv

\* A new object: registered with two references, or never held by anybody and destroyed at
\* once.
LEMMA CreatedKeepsRefs ==
  ASSUME IInv, RefInv, NEW th \in Threads, GetCreated(th) \/ GetNoStats(th) \/ GetNotLinked(th)
  PROVE  RefInv'
  <1>1. PICK q \in Queues, w \in {"none", "top"}, good \in BOOLEAN :
          /\ NewObject(q, arg[th], IF good THEN 2 ELSE 0, w)
          /\ good => /\ run' = [run EXCEPT ![q] = TRUE]
                     /\ linked' = linked \cup {q}
                     /\ holders' = [holders EXCEPT ![q] = {th}]
                     /\ Return(th)
          /\ ~good => /\ run' \in {run, [run EXCEPT ![q] = TRUE]}
                      /\ linked' = linked /\ holders' = holders
                      /\ Enter(th, "destroy", q)
    <2>1. CASE GetCreated(th)
      BY <2>1 DEF GetCreated
    <2>2. CASE GetNoStats(th) \/ GetNotLinked(th)
      BY <2>2 DEF GetNoStats, GetNotLinked, regVars
    <2>3. QED BY <2>1, <2>2
  <1>2. status[q] = "unused" /\ pc[th] = "get"
    BY <1>1 DEF NewObject, GetCreated, GetNoStats, GetNotLinked
  <1>3. /\ wpc[q] = "none" /\ holders[q] = {} /\ q \notin linked
        /\ \A o \in Threads : ~Uses(o, q)
        /\ th # q
    BY <1>2 DEF IInv, PurgesLast, RefInv, UnusedUntouched, WorkersCall
  <1>4. /\ \A p \in Queues : /\ status'[p] = IF p = q THEN "live" ELSE status[p]
                             /\ wpc'[p] = IF p = q THEN w ELSE wpc[p]
                             /\ refs'[p] = IF p # q THEN refs[p] ELSE IF good THEN 2 ELSE 0
                             /\ p # q => run'[p] = run[p] /\ holders'[p] = holders[p]
                             /\ p # q => (p \in linked' <=> p \in linked)
        /\ queue' = queue
        /\ good => run'[q] /\ q \in linked' /\ holders'[q] = {th}
        /\ ~good => q \notin linked' /\ holders'[q] = {}
    BY <1>1, <1>3, Types DEF NewObject, listVars
  <1>5. \A o \in Threads : /\ pc'[o] = IF o # th THEN pc[o] ELSE IF good THEN "idle" ELSE "destroy"
                           /\ o # th => arg'[o] = arg[o]
                           /\ ~good => arg'[th] = q
    BY <1>1, Types DEF Return, Enter
  <1>6. ReferencesCounted'
    <2> SUFFICES ASSUME NEW p \in Queues
                 PROVE  refs'[p] = Cardinality(holders'[p]) + (IF p \in linked' THEN 1 ELSE 0)
      BY DEF ReferencesCounted, RefsOwed
    <2>1. Cardinality({th}) = 1 /\ Cardinality({}) = 0
      BY HolderCounts
    <2>2. CASE p = q
      BY <1>4, <2>1, <2>2
    <2>3. CASE p # q
      BY <1>4, <2>3 DEF RefInv, ReferencesCounted, RefsOwed
    <2>4. QED BY <2>2, <2>3
  <1>7. UnusedUntouched'
    BY <1>4, <1>5 DEF RefInv, UnusedUntouched, Uses
  <1>8. CallersHold'
    <2> SUFFICES ASSUME NEW o \in Threads
                 PROVE  /\ pc'[o] = "unref" => o \in holders'[arg'[o]]
                        /\ pc'[o] = "push" => o \in holders'[arg'[o]] \/ o = arg'[o]
      BY DEF CallersHold
    <2>1. CASE pc'[o] \in {"unref", "push"}
      <3>1. o # th /\ pc[o] = pc'[o] /\ arg'[o] = arg[o] /\ arg[o] \in Queues
        BY <1>5, <2>1 DEF IInv, CoreInv, CallsOK
      <3>2. arg[o] # q
        BY <1>3, <2>1, <3>1 DEF Uses
      <3>3. QED BY <1>4, <3>1, <3>2 DEF RefInv, CallersHold
    <2>2. QED BY <2>1
  <1>9. DestroyedOnce'
    <2> SUFFICES ASSUME NEW o \in Threads, NEW p \in Queues, Destroys(o, p)'
                 PROVE  /\ holders'[p] = {} /\ p \notin linked'
                        /\ \A other \in Threads : Destroys(other, p)' => other = o
      BY DEF DestroyedOnce
    <2>1. CASE p = q
      <3>1. \A other \in Threads : Destroys(other, q)' => other = th /\ ~good
        BY <1>3, <1>5 DEF Destroys, Uses
      <3>2. QED BY <1>4, <2>1, <3>1
    <2>2. CASE p # q
      <3>1. \A other \in Threads : Destroys(other, p)' => Destroys(other, p)
        BY <1>5, <2>2 DEF Destroys
      <3>2. QED BY <1>4, <2>2, <3>1 DEF RefInv, DestroyedOnce
    <2>3. QED BY <2>1, <2>2
  <1>10. StoppedIsGivenUp' /\ DoneIsEmpty'
    <2>1. StoppedIsGivenUp'
      BY <1>4 DEF RefInv, StoppedIsGivenUp
    <2>2. DoneIsEmpty'
      BY <1>4 DEF RefInv, DoneIsEmpty
    <2>3. QED BY <2>1, <2>2
  <1>11. WorkersCall'
    <2> SUFFICES ASSUME NEW p \in Queues, pc'[p] # "idle" PROVE wpc'[p] = "exec"
      BY DEF WorkersCall
    <2>1. p \in Threads /\ pc[p] # "idle"
      BY <1>2, <1>5, Types
    <2>2. wpc[p] = "exec"
      BY <2>1 DEF RefInv, WorkersCall
    <2>3. QED BY <1>3, <1>4, <2>2
  <1>12. QED BY <1>6, <1>7, <1>8, <1>9, <1>10, <1>11 DEF RefInv

\* spd_taskqueue_unreference up to the destructor: the count is that of the holders, less
\* one for the thread that gives its reference back, wherever the object is linked after it.
LEMMA UnreferenceKeepsRefs ==
  ASSUME IInv, RefInv, NEW th \in Threads, UnreferenceKeep(th) \/ UnreferenceLast(th)
  PROVE  RefInv'
  <1>0. PICK q \in Queues : arg[th] = q
    BY DEF UnreferenceKeep, UnreferenceLast, IInv, CoreInv, CallsOK
  <1> DEFINE last == LastReference(q)
  <1>1. /\ pc[th] = "unref" /\ arg[th] = q /\ th \in holders[q]
        /\ UNCHANGED <<status, name, run, wpc, queue>>
    BY <1>0 DEF UnreferenceKeep, UnreferenceLast, listVars, workerVars, RefInv, CallersHold
  <1>2. /\ holders' = [holders EXCEPT ![q] = @ \ {th}]
        /\ \/ ~last /\ refs' = [refs EXCEPT ![q] = AfterUnlink(q)] /\ linked' = linked \cup {q}
           \/ refs' = [refs EXCEPT ![q] = AfterUnlink(q) - 1] /\ linked' = linked \ {q}
        /\ \/ ~last /\ Return(th)
           \/ last /\ Enter(th, "destroy", q) /\ linked' = linked \ {q}
    BY <1>0 DEF UnreferenceKeep, UnreferenceLast
  <1>3. /\ status[q] # "unused" /\ run[q]
        /\ \A o \in Threads : ~Destroys(o, q)
    <2>1. ~(status[q] # "unused" /\ ~run[q]) /\ \A o \in Threads : ~Destroys(o, q)
      BY <1>1 DEF RefInv, StoppedIsGivenUp, DestroyedOnce
    <2>2. status[q] # "unused"
      BY <1>1 DEF RefInv, UnusedUntouched, Uses
    <2>3. QED BY <2>1, <2>2
  <1>4. /\ AfterUnlink(q) = Cardinality(holders[q]) /\ Cardinality(holders[q]) \in Nat
        /\ Cardinality(holders[q] \ {th}) = Cardinality(holders[q]) - 1
        /\ last => holders[q] \ {th} = {}
    <2>1. holders[q] \in SUBSET Threads
      BY <1>1, Types
    <2>2. AfterUnlink(q) = Cardinality(holders[q]) /\ Cardinality(holders[q]) \in Nat
      BY <1>1, CountOf DEF RefInv
    <2>3. last => Cardinality(holders[q]) <= 1
      BY <2>2 DEF LastReference
    <2> HIDE DEF last
    <2>4. /\ Cardinality(holders[q] \ {th}) = Cardinality(holders[q]) - 1
          /\ Cardinality(holders[q]) <= 1 => holders[q] \ {th} = {}
      BY <1>1, <2>1, HolderCounts
    <2>5. QED BY <2>2, <2>3, <2>4
  <1>5. /\ \A p \in Queues : p # q => /\ refs'[p] = refs[p] /\ holders'[p] = holders[p]
                                      /\ (p \in linked' <=> p \in linked)
        /\ holders'[q] = holders[q] \ {th}
        /\ \/ q \in linked' /\ refs'[q] = AfterUnlink(q) /\ ~last
           \/ q \notin linked' /\ refs'[q] = AfterUnlink(q) - 1
        /\ last => q \notin linked'
        /\ \A o \in Threads : /\ pc'[o] = IF o # th THEN pc[o] ELSE IF last THEN "destroy" ELSE "idle"
                              /\ o # th => arg'[o] = arg[o]
                              /\ last => arg'[th] = q
    BY <1>1, <1>2, Types DEF Return, Enter
  <1> HIDE DEF last
  <1>6. ReferencesCounted'
    <2> SUFFICES ASSUME NEW p \in Queues
                 PROVE  refs'[p] = Cardinality(holders'[p]) + (IF p \in linked' THEN 1 ELSE 0)
      BY DEF ReferencesCounted, RefsOwed
    <2>1. CASE p = q
      <3>1. Cardinality(holders'[q]) = Cardinality(holders[q]) - 1
        BY <1>4, <1>5
      <3>2. \/ q \in linked' /\ refs'[q] = Cardinality(holders[q])
            \/ q \notin linked' /\ refs'[q] = Cardinality(holders[q]) - 1
        BY <1>4, <1>5
      <3>3. QED BY <1>4, <2>1, <3>1, <3>2
    <2>2. CASE p # q
      BY <1>5, <2>2 DEF RefInv, ReferencesCounted, RefsOwed
    <2>3. QED BY <2>1, <2>2
  <1>7. UnusedUntouched'
    BY <1>1, <1>3, <1>5 DEF RefInv, UnusedUntouched, Uses
  <1>8. CallersHold'
    <2> SUFFICES ASSUME NEW o \in Threads
                 PROVE  /\ pc'[o] = "unref" => o \in holders'[arg'[o]]
                        /\ pc'[o] = "push" => o \in holders'[arg'[o]] \/ o = arg'[o]
      BY DEF CallersHold
    <2>1. CASE pc'[o] \in {"unref", "push"}
      <3>1. o # th /\ pc[o] = pc'[o] /\ arg'[o] = arg[o] /\ arg[o] \in Queues
        BY <1>5, <2>1 DEF IInv, CoreInv, CallsOK
      <3>2. o \in holders[arg[o]] => o \in holders'[arg[o]]
        BY <1>5, <3>1
      <3>3. QED BY <3>1, <3>2 DEF RefInv, CallersHold
    <2>2. QED BY <2>1
  <1>9. DestroyedOnce'
    <2> SUFFICES ASSUME NEW o \in Threads, NEW p \in Queues, Destroys(o, p)'
                 PROVE  /\ holders'[p] = {} /\ p \notin linked'
                        /\ \A other \in Threads : Destroys(other, p)' => other = o
      BY DEF DestroyedOnce
    <2>1. CASE p = q
      <3>1. \A other \in Threads : Destroys(other, q)' => other = th /\ last
        BY <1>3, <1>5 DEF Destroys
      <3>2. QED BY <1>4, <1>5, <2>1, <3>1
    <2>2. CASE p # q
      <3>1. \A other \in Threads : Destroys(other, p)' => Destroys(other, p)
        BY <1>5, <2>2 DEF Destroys
      <3>2. QED BY <1>5, <2>2, <3>1 DEF RefInv, DestroyedOnce
    <2>3. QED BY <2>1, <2>2
  <1>10. StoppedIsGivenUp'
    BY <1>1, <1>3, <1>5 DEF RefInv, StoppedIsGivenUp
  <1>11. DoneIsEmpty'
    BY <1>1 DEF RefInv, DoneIsEmpty
  <1>12. WorkersCall'
    BY <1>1, <1>5, Types DEF RefInv, WorkersCall
  <1>13. QED BY <1>6, <1>7, <1>8, <1>9, <1>10, <1>11, <1>12 DEF RefInv

\* tps_taskqueue_destroy: the worker is told to stop and joined.
LEMMA DestroyKeepsRefs ==
  ASSUME IInv, RefInv, NEW th \in Threads, DestroyStop(th) \/ DestroyFree(th)
  PROVE  RefInv'
  <1>1. /\ pc[th] \in {"destroy", "join"} /\ arg[th] \in Queues /\ Destroys(th, arg[th])
        /\ UNCHANGED <<refs, linked, holders, queue>>
    BY DEF DestroyStop, DestroyFree, listVars, regVars, IInv, CoreInv, CallsOK, Destroys
  <1> DEFINE q == arg[th]
  <1>2. holders[q] = {} /\ q \notin linked /\ status[q] # "unused"
    BY <1>1 DEF RefInv, DestroyedOnce, UnusedUntouched, Uses
  <1>3. /\ \A p \in Queues :
             /\ p # q => status'[p] = status[p] /\ run'[p] = run[p]
             /\ status'[p] = "unused" <=> status[p] = "unused"
             /\ wpc'[p] = wpc[p] \/ (wpc[p] = "wait" /\ wpc'[p] = "woken")
        /\ run'[q] = run[q] \/ ~run'[q]
    BY <1>1, <1>2, Types DEF DestroyStop, DestroyFree, Signal, workerVars
  <1>4. \A o \in Threads : /\ o # th => pc'[o] = pc[o] /\ arg'[o] = arg[o]
                           /\ \/ pc'[th] = "join" /\ arg'[th] = q
                              \/ pc'[th] = "idle"
    BY Types DEF DestroyStop, DestroyFree, Return
  <1>5. ReferencesCounted' /\ DoneIsEmpty'
    BY <1>1, <1>3 DEF RefInv, ReferencesCounted, RefsOwed, DoneIsEmpty
  <1>6. UnusedUntouched'
    BY <1>1, <1>2, <1>3, <1>4 DEF RefInv, UnusedUntouched, Uses
  <1>7. CallersHold'
    BY <1>1, <1>4 DEF RefInv, CallersHold
  <1>8. DestroyedOnce'
    <2>1. \A o \in Threads, p \in Queues : Destroys(o, p)' => Destroys(o, p)
      BY <1>1, <1>4 DEF Destroys
    <2>2. QED BY <1>1, <2>1 DEF RefInv, DestroyedOnce
  <1>9. StoppedIsGivenUp'
    BY <1>1, <1>2, <1>3 DEF RefInv, StoppedIsGivenUp
  <1>10. WorkersCall'
    <2> SUFFICES ASSUME NEW p \in Queues, pc'[p] # "idle" PROVE wpc'[p] = "exec"
      BY DEF WorkersCall
    <2>1. p \in Threads /\ pc[p] # "idle"
      BY <1>1, <1>4, Types
    <2>2. wpc[p] = "exec"
      BY <2>1 DEF RefInv, WorkersCall
    <2>3. QED BY <1>3, <2>2
  <1>11. QED BY <1>5, <1>6, <1>7, <1>8, <1>9, <1>10 DEF RefInv

\* A push finds a worker that has not ended: the caller's reference, or the call itself,
\* keeps it alive.
LEMMA PushKeepsRefs ==
  ASSUME IInv, RefInv, NEW th \in Threads, PushInsert(th)
  PROVE  RefInv'
  <1> DEFINE q == arg[th]
  <1>1. /\ pc[th] = "push" /\ q \in Queues /\ (th \in holders[q] \/ th = q)
        /\ UNCHANGED <<status, refs, run, linked, holders>>
    BY DEF PushInsert, objVars, regVars, IInv, CoreInv, CallsOK, RefInv, CallersHold
  <1>2. wpc[q] # "done"
    <2>1. CASE th = q
      BY <1>1, <2>1 DEF RefInv, WorkersCall
    <2>2. CASE th \in holders[q]
      <3>1. status[q] # "unused"
        BY <1>1, <2>2 DEF RefInv, UnusedUntouched
      <3>2. QED BY <1>1, <2>2, <3>1 DEF RefInv, StoppedIsGivenUp
    <2>3. QED BY <1>1, <2>1, <2>2
  <1>3. \A p \in Queues : /\ wpc'[p] = wpc[p] \/ (wpc[p] = "wait" /\ wpc'[p] = "woken")
                          /\ p # q => queue'[p] = queue[p]
    BY <1>1, Types DEF PushInsert, Signal, Insert
  <1>4. \A o \in Threads : /\ o # th => pc'[o] = pc[o] /\ arg'[o] = arg[o]
                           /\ pc'[th] = "idle"
    BY Types DEF PushInsert, Return
  <1>5. ReferencesCounted' /\ StoppedIsGivenUp'
    BY <1>1, <1>3 DEF RefInv, ReferencesCounted, RefsOwed, StoppedIsGivenUp
  <1>6. DoneIsEmpty'
    BY <1>2, <1>3 DEF RefInv, DoneIsEmpty
  <1>7. UnusedUntouched'
    BY <1>1, <1>4 DEF RefInv, UnusedUntouched, Uses
  <1>8. CallersHold'
    BY <1>1, <1>4 DEF RefInv, CallersHold
  <1>9. DestroyedOnce'
    <2>1. \A o \in Threads, p \in Queues : Destroys(o, p)' => Destroys(o, p)
      BY <1>1, <1>4 DEF Destroys
    <2>2. QED BY <1>1, <2>1 DEF RefInv, DestroyedOnce
  <1>10. WorkersCall'
    <2> SUFFICES ASSUME NEW p \in Queues, pc'[p] # "idle" PROVE wpc'[p] = "exec"
      BY DEF WorkersCall
    <2>1. p \in Threads /\ pc[p] # "idle"
      BY <1>1, <1>4, Types
    <2>2. wpc[p] = "exec"
      BY <2>1 DEF RefInv, WorkersCall
    <2>3. QED BY <1>3, <2>2
  <1>11. QED BY <1>5, <1>6, <1>7, <1>8, <1>9, <1>10 DEF RefInv

\* The worker holds no reference: it leaves its loop when told to, and ends with its list
\* empty.
LEMMA WorkKeepsRefs ==
  ASSUME IInv, RefInv, NEW q \in Queues, Work(q) \/ WorkSpurious(q)
  PROVE  RefInv'
  <1>1. UNCHANGED <<status, refs, run, linked, holders, pc, arg>>
    BY DEF Work, WorkLoop, WorkLock, WorkWoken, WorkSpurious, WorkAwake, WorkPop, WorkPopNothing,
         WorkExecuted, WorkStats, WorkPurge, WorkEnd, objVars, regVars, callVars
  <1>2. \A p \in Queues : p # q => wpc'[p] = wpc[p] /\ queue'[p] = queue[p]
    BY Types DEF Work, WorkLoop, WorkLock, WorkWoken, WorkSpurious, WorkAwake, WorkPop,
         WorkPopNothing, WorkExecuted, WorkStats, WorkPurge, WorkEnd, Pop, listVars, workerVars
  <1>3. /\ wpc'[q] \in {"purge", "done"} => ~run[q]
        /\ wpc'[q] = "done" => queue'[q] = <<>>
        /\ wpc[q] = "exec" => pc[q] = "idle"
    <2>1. wpc[q] # "done"
      BY DEF Work, WorkLoop, WorkLock, WorkWoken, WorkSpurious, WorkPop, WorkPopNothing,
           WorkExecuted, WorkStats, WorkPurge, WorkEnd
    <2>2. wpc[q] = "exec" => pc[q] = "idle"
      BY DEF Work, WorkLoop, WorkLock, WorkWoken, WorkSpurious, WorkPop, WorkPopNothing,
           WorkExecuted, WorkStats, WorkPurge, WorkEnd
    <2>3. wpc'[q] \in {"purge", "done"} => wpc[q] = "purge" \/ ~run[q]
      BY Types DEF Work, WorkLoop, WorkLock, WorkWoken, WorkSpurious, WorkAwake, WorkPop,
           WorkPopNothing, WorkExecuted, WorkStats, WorkPurge, WorkEnd, KeepRunning, workerVars
    <2>4. wpc'[q] = "done" => queue[q] = <<>> /\ queue' = queue
      BY <2>1, Types DEF Work, WorkLoop, WorkLock, WorkWoken, WorkSpurious, WorkAwake, WorkPop,
           WorkPopNothing, WorkExecuted, WorkStats, WorkPurge, WorkEnd, KeepRunning, workerVars,
           listVars
    <2>5. QED BY <2>2, <2>3, <2>4 DEF RefInv, StoppedIsGivenUp
  <1>4. ReferencesCounted' /\ CallersHold'
    BY <1>1 DEF RefInv, ReferencesCounted, RefsOwed, CallersHold
  <1>5. UnusedUntouched' /\ DestroyedOnce'
    BY <1>1 DEF RefInv, UnusedUntouched, DestroyedOnce, Uses, Destroys
  <1>6. StoppedIsGivenUp'
    BY <1>1, <1>2, <1>3 DEF RefInv, StoppedIsGivenUp
  <1>7. DoneIsEmpty' /\ WorkersCall'
    BY <1>1, <1>2, <1>3 DEF RefInv, DoneIsEmpty, WorkersCall
  <1>8. QED BY <1>4, <1>5, <1>6, <1>7 DEF RefInv

\* No object is allocated at the start.
LEMMA InitRefInv == Init => RefInv
  BY FS_EmptySet DEF Init, RefInv, ReferencesCounted, RefsOwed, UnusedUntouched, Uses, CallersHold,
       DestroyedOnce, Destroys, StoppedIsGivenUp, WorkersCall, DoneIsEmpty, Threads

LEMMA StepRefInv ==
  ASSUME IInv, RefInv, [Next]_vars
  PROVE  RefInv'
  <1>1. ASSUME NEW th \in Threads, Call(th) PROVE RefInv'
    BY <1>1, CallBegins
  <1>2. ASSUME NEW th \in Threads, InCall(th) PROVE RefInv'
    BY <1>2, FoundKeepsRefs, CreatedKeepsRefs, UnreferenceKeepsRefs, DestroyKeepsRefs,
       PushKeepsRefs DEF InCall
  <1>3. ASSUME NEW q \in Queues, Work(q) \/ WorkSpurious(q) PROVE RefInv'
    BY <1>3, WorkKeepsRefs
  <1>4. CASE UNCHANGED vars
    BY <1>4 DEF vars, objVars, listVars, workerVars, regVars, callVars, RefInv, ReferencesCounted,
         RefsOwed, UnusedUntouched, Uses, CallersHold, DestroyedOnce, Destroys, StoppedIsGivenUp,
         WorkersCall, DoneIsEmpty
  <1>5. QED BY <1>1, <1>2, <1>3, <1>4 DEF Next

LEMMA RefInvAlways == Spec => [](IInv /\ RefInv)
  <1>1. IInv /\ RefInv /\ [Next]_vars => RefInv'
    BY StepRefInv
  <1>2. QED BY <1>1, InitRefInv, IInvAlways, PTL DEF Spec

----------------------------------------------------------------------------
(* Freed objects.                                                          *)

\* A worker that has ended stays so.
LEMMA DoneStays ==
  ASSUME IInv, RefInv, NEW q \in Queues, wpc[q] = "done", [Next]_vars
  PROVE  wpc'[q] = "done"
  <1>1. status[q] # "unused"
    BY DEF IInv, PurgesLast
  <1>2. ASSUME NEW th \in Threads, Call(th) PROVE wpc'[q] = "done"
    BY <1>2 DEF Call, GetCall, UnreferenceCall, PushAlloc, workerVars
  <1>3. ASSUME NEW th \in Threads, InCall(th) PROVE wpc'[q] = "done"
    BY <1>1, <1>3, Types DEF InCall, GetFound, GetNothing, GetCreated, GetNoStats, GetNotLinked,
       NewObject, UnreferenceKeep, UnreferenceLast, DestroyStop, DestroyFree, PushInsert, Signal,
       workerVars
  <1>4. ASSUME NEW p \in Queues, Work(p) \/ WorkSpurious(p) PROVE wpc'[q] = "done"
    BY <1>4, Types DEF Work, WorkLoop, WorkLock, WorkWoken, WorkSpurious, WorkAwake, WorkPop,
       WorkPopNothing, WorkExecuted, WorkStats, WorkPurge, WorkEnd, workerVars
  <1>5. CASE UNCHANGED vars
    BY <1>5 DEF vars, workerVars
  <1>6. QED BY <1>2, <1>3, <1>4, <1>5 DEF Next

\* Who uses an object after a step has used it, or has a reference, or runs in its worker, or
\* has just allocated it.
LEMMA UsesFrom ==
  ASSUME IInv, RefInv, NEW o \in Threads, NEW q \in Queues, Uses(o, q)', [Next]_vars
  PROVE  \/ Uses(o, q) \/ o \in holders[q] \/ status[q] = "unused"
         \/ o = q /\ wpc[q] = "exec"
  <1>1. ASSUME NEW th \in Threads, Call(th)
        PROVE  Uses(o, q) \/ o \in holders[q] \/ (o = q /\ wpc[q] = "exec")
    <2>1. CASE o = th
      <3>1. arg'[th] = q
        BY <2>1 DEF Uses
      <3>2. th \in Queues => wpc[th] = "exec"
        BY <1>1, Types DEF Call, GetCall, UnreferenceCall, PushAlloc, MayCall
      <3>3. ASSUME NEW n \in Names, GetCall(th, n) PROVE FALSE
        BY <3>1, <3>3, Types DEF GetCall, Enter
      <3>4. ASSUME NEW p \in Queues, UnreferenceCall(th, p) PROVE th \in holders[q]
        BY <3>1, <3>4, Types DEF UnreferenceCall, Enter
      <3>5. ASSUME NEW p \in Queues, NEW t \in Tasks, PushAlloc(th, p, t)
            PROVE  th \in holders[q] \/ th = q
        BY <3>1, <3>5, Types DEF PushAlloc, Enter, MayPush
      <3>6. QED BY <1>1, <2>1, <3>2, <3>3, <3>4, <3>5 DEF Call
    <2>2. CASE o # th
      BY <1>1, <2>2, Types DEF Call, GetCall, UnreferenceCall, PushAlloc, Enter, Uses
    <2>3. QED BY <2>1, <2>2
  <1>2. ASSUME NEW th \in Threads, InCall(th)
        PROVE  Uses(o, q) \/ status[q] = "unused"
    <2>1. CASE GetFound(th) \/ GetNothing(th) \/ GetCreated(th) \/ UnreferenceKeep(th)
               \/ DestroyFree(th) \/ PushInsert(th)
      <3>1. Return(th)
        BY <2>1 DEF GetFound, GetNothing, GetCreated, UnreferenceKeep, DestroyFree, PushInsert
      <3>2. QED BY <3>1, Types DEF Return, Uses
    <2>2. CASE GetNoStats(th) \/ GetNotLinked(th)
      <3>1. PICK p \in Queues : status[p] = "unused" /\ Enter(th, "destroy", p)
        BY <2>2 DEF GetNoStats, GetNotLinked, NewObject
      <3>2. QED BY <3>1, Types DEF Enter, Uses
    <2>3. CASE UnreferenceLast(th) \/ DestroyStop(th)
      <3>1. /\ pc[th] # "idle" /\ arg'[th] = arg[th]
            /\ \A t \in Threads \ {th} : pc'[t] = pc[t] /\ arg'[t] = arg[t]
        BY <2>3, Types DEF UnreferenceLast, DestroyStop, Enter
      <3>2. QED BY <3>1 DEF Uses
    <2>4. QED BY <1>2, <2>1, <2>2, <2>3 DEF InCall
  <1>3. ASSUME NEW p \in Queues, Work(p) \/ WorkSpurious(p) PROVE Uses(o, q)
    BY <1>3 DEF Work, WorkLoop, WorkLock, WorkWoken, WorkSpurious, WorkAwake, WorkPop,
       WorkPopNothing, WorkExecuted, WorkStats, WorkPurge, WorkEnd, callVars, Uses
  <1>4. CASE UNCHANGED vars
    BY <1>4 DEF vars, callVars, Uses
  <1>5. QED BY <1>1, <1>2, <1>3, <1>4 DEF Next

\* The thread that destroys an object is the last to use it.
LEMMA OnlyDestroyerUses ==
  ASSUME IInv, RefInv, NEW th \in Threads, NEW q \in Queues, Destroys(th, q), wpc[q] = "done",
         NEW o \in Threads, Uses(o, q)
  PROVE  o = th
  <1>1. holders[q] = {} /\ (Destroys(o, q) => o = th)
    BY DEF RefInv, DestroyedOnce
  <1>2. pc[o] # "get"
    BY Types DEF IInv, CoreInv, CallsOK, Uses
  <1>3. pc[o] # "unref" /\ pc[o] # "push"
    BY <1>1 DEF RefInv, CallersHold, WorkersCall, Uses
  <1>4. pc[o] \in CallPCs /\ pc[o] # "idle"
    BY Types DEF Uses
  <1>5. Destroys(o, q)
    BY <1>2, <1>3, <1>4 DEF CallPCs, Destroys, Uses
  <1>6. QED BY <1>1, <1>5

\* Where the destructor's pthread_join has returned, the worker has ended; where it has
\* ended nobody has come back to the object.
LEMMA StepFreeInv ==
  ASSUME "self" \notin HandlerCalls, IInv, RefInv, FreeInv, [Next]_vars
  PROVE  FreeInv'
  <1>1. NoneJoinsItself'
    <2> SUFFICES ASSUME NEW o \in Threads, pc'[o] \in {"unref", "destroy", "join"}, arg'[o] = o
                 PROVE  FALSE
      BY DEF NoneJoinsItself
    <2>1. ASSUME NEW th \in Threads, Call(th) PROVE FALSE
      <3>1. CASE o = th
        <4>1. ASSUME NEW p \in Queues, UnreferenceCall(th, p) PROVE FALSE
          BY <3>1, <4>1, Types DEF UnreferenceCall, Enter
        <4>2. pc'[th] \in {"get", "push"} \/ \E p \in Queues : UnreferenceCall(th, p)
          BY <2>1, Types DEF Call, GetCall, PushAlloc, Enter
        <4>3. QED BY <3>1, <4>1, <4>2
      <3>2. CASE o # th
        BY <2>1, <3>2, Types DEF Call, GetCall, UnreferenceCall, PushAlloc, Enter, FreeInv,
           NoneJoinsItself
      <3>3. QED BY <3>1, <3>2
    <2>2. ASSUME NEW th \in Threads, InCall(th) PROVE FALSE
      <3>1. CASE GetFound(th) \/ GetNothing(th) \/ GetCreated(th) \/ UnreferenceKeep(th)
                 \/ DestroyFree(th) \/ PushInsert(th)
        <4>1. Return(th)
          BY <3>1 DEF GetFound, GetNothing, GetCreated, UnreferenceKeep, DestroyFree, PushInsert
        <4>2. QED BY <4>1, Types DEF Return, FreeInv, NoneJoinsItself
      <3>2. CASE GetNoStats(th) \/ GetNotLinked(th)
        <4>1. PICK p \in Queues : status[p] = "unused" /\ Enter(th, "destroy", p)
          BY <3>2 DEF GetNoStats, GetNotLinked, NewObject
        <4>2. pc[th] = "get"
          BY <3>2 DEF GetNoStats, GetNotLinked
        <4>3. th # p
          BY <4>1, <4>2 DEF IInv, PurgesLast, RefInv, WorkersCall
        <4>4. QED BY <4>1, <4>3, Types DEF Enter, FreeInv, NoneJoinsItself
      <3>3. CASE UnreferenceLast(th) \/ DestroyStop(th)
        <4>1. /\ pc[th] \in {"unref", "destroy"} /\ arg'[th] = arg[th]
              /\ \A t \in Threads \ {th} : pc'[t] = pc[t] /\ arg'[t] = arg[t]
          BY <3>3, Types DEF UnreferenceLast, DestroyStop, Enter
        <4>2. QED BY <4>1 DEF FreeInv, NoneJoinsItself
      <3>4. QED BY <2>2, <3>1, <3>2, <3>3 DEF InCall
    <2>3. ASSUME NEW p \in Queues, Work(p) \/ WorkSpurious(p) PROVE FALSE
      BY <2>3 DEF Work, WorkLoop, WorkLock, WorkWoken, WorkSpurious, WorkAwake, WorkPop,
         WorkPopNothing, WorkExecuted, WorkStats, WorkPurge, WorkEnd, callVars, FreeInv,
         NoneJoinsItself
    <2>4. CASE UNCHANGED vars
      BY <2>4 DEF vars, callVars, FreeInv, NoneJoinsItself
    <2>5. QED BY <2>1, <2>2, <2>3, <2>4 DEF Next
  <1>2. ASSUME NEW q \in Queues, status'[q] = "freed"
        PROVE  /\ wpc'[q] = "done"
               /\ \A th \in Threads : pc'[th] # "idle" => arg'[th] # q
    <2>1. CASE status[q] = "freed"
      <3>1. wpc[q] = "done" /\ holders[q] = {} /\ \A th \in Threads : ~Uses(th, q)
        BY <2>1 DEF FreeInv, FreedIsUnreachable, Uses
      <3>2. \A th \in Threads : ~Uses(th, q)'
        BY <2>1, <3>1, UsesFrom
      <3>3. QED BY <3>1, <3>2, DoneStays DEF Uses
    <2>2. CASE status[q] # "freed"
      <3>1. PICK th \in Threads : DestroyFree(th) /\ arg[th] = q
        <4>1. ASSUME NEW th \in Threads, Call(th) PROVE FALSE
          BY <1>2, <2>2, <4>1 DEF Call, GetCall, UnreferenceCall, PushAlloc, objVars
        <4>2. ASSUME NEW th \in Threads, InCall(th) PROVE DestroyFree(th) /\ arg[th] = q
          <5>1. CASE GetFound(th) \/ GetNothing(th) \/ UnreferenceKeep(th) \/ UnreferenceLast(th)
                     \/ DestroyStop(th) \/ PushInsert(th)
            BY <1>2, <2>2, <5>1 DEF GetFound, GetNothing, UnreferenceKeep, UnreferenceLast,
               DestroyStop, PushInsert, objVars
          <5>2. CASE GetCreated(th) \/ GetNoStats(th) \/ GetNotLinked(th)
            BY <1>2, <2>2, <5>2, Types DEF GetCreated, GetNoStats, GetNotLinked, NewObject
          <5>3. CASE DestroyFree(th)
            BY <1>2, <2>2, <5>3, Types DEF DestroyFree
          <5>4. QED BY <4>2, <5>1, <5>2, <5>3 DEF InCall
        <4>3. ASSUME NEW p \in Queues, Work(p) \/ WorkSpurious(p) PROVE FALSE
          BY <1>2, <2>2, <4>3 DEF Work, WorkLoop, WorkLock, WorkWoken, WorkSpurious, WorkAwake,
             WorkPop, WorkPopNothing, WorkExecuted, WorkStats, WorkPurge, WorkEnd, objVars
        <4>4. CASE UNCHANGED vars
          BY <1>2, <2>2, <4>4 DEF vars, objVars
        <4>5. QED BY <4>1, <4>2, <4>3, <4>4 DEF Next
      <3>2. Destroys(th, q) /\ wpc[q] = "done"
        BY <3>1 DEF DestroyFree, Joined, Destroys, FreeInv, NoneJoinsItself
      <3>3. wpc'[q] = "done"
        BY <3>2, DoneStays
      <3>4. ASSUME NEW o \in Threads PROVE ~Uses(o, q)'
        <4>1. pc'[th] = "idle" /\ \A t \in Threads \ {th} : pc'[t] = pc[t] /\ arg'[t] = arg[t]
          BY <3>1, Types DEF DestroyFree, Return
        <4>2. Uses(o, q) => o = th
          BY <3>2, OnlyDestroyerUses
        <4>3. QED BY <4>1, <4>2 DEF Uses
      <3>5. QED BY <3>3, <3>4 DEF Uses
    <2>3. QED BY <2>1, <2>2
  <1>3. RefInv'
    BY StepRefInv
  <1>4. FreedIsUnreachable'
    BY <1>2, <1>3 DEF RefInv, StoppedIsGivenUp, DoneIsEmpty, FreedIsUnreachable
  <1>5. QED BY <1>1, <1>4 DEF FreeInv

----------------------------------------------------------------------------
(* Names.                                                                  *)

\* A registered queue is found by every later spd_taskqueue_get of its name, so that no
\* second one is made, if it stays in the container as long as somebody holds it.
LEMMA StepNameInv ==
  ASSUME "relink" \notin Faults, IInv, RefInv, NameInv, [Next]_vars
  PROVE  NameInv'
  <1>1. ASSUME UNCHANGED <<name, linked, holders>> PROVE NameInv'
    BY <1>1 DEF NameInv, SingletonPerName, HeldIsLinked
  <1>2. ASSUME NEW th \in Threads, Call(th) PROVE NameInv'
    BY <1>1, <1>2 DEF Call, GetCall, UnreferenceCall, PushAlloc, objVars, regVars
  <1>3. ASSUME NEW th \in Threads, InCall(th) PROVE NameInv'
    <2>1. CASE GetNothing(th) \/ DestroyStop(th) \/ DestroyFree(th) \/ PushInsert(th)
      BY <1>1, <2>1 DEF GetNothing, DestroyStop, DestroyFree, PushInsert, objVars, regVars
    <2>2. CASE GetFound(th)
      <3>1. \A q \in Queues : holders'[q] = holders[q] \/ q \in linked
        BY <2>2, Types DEF GetFound, Registered
      <3>2. QED BY <2>2, <3>1 DEF GetFound, regVars, NameInv, SingletonPerName, HeldIsLinked
    <2>3. CASE GetCreated(th) \/ GetNoStats(th) \/ GetNotLinked(th)
      <3>1. PICK q \in Queues :
              /\ status[q] = "unused" /\ name' = [name EXCEPT ![q] = arg[th]]
              /\ \/ linked' = linked /\ holders' = holders
                 \/ linked' = linked \cup {q} /\ holders' = [holders EXCEPT ![q] = {th}]
        BY <2>3 DEF GetCreated, GetNoStats, GetNotLinked, NewObject, regVars
      <3>2. /\ q \notin linked /\ holders[q] = {}
            /\ \A p \in linked : name[p] # arg[th]
        BY <2>3, <3>1, Types DEF RefInv, UnusedUntouched, GetCreated, GetNoStats, GetNotLinked,
           Registered
      <3>3. name \in [Queues -> Names \cup {Nil}]
        BY DEF IInv, CoreInv, TypeOK
      <3>4. \A p \in Queues : /\ name'[p] = IF p = q THEN arg[th] ELSE name[p]
                              /\ p # q => holders'[p] = holders[p]
        BY <3>1, <3>3, Types
      <3>5. SingletonPerName'
        BY <3>1, <3>2, <3>4, Types DEF NameInv, SingletonPerName
      <3>6. HeldIsLinked'
        BY <3>1, <3>2, <3>4 DEF NameInv, HeldIsLinked
      <3>7. QED BY <3>5, <3>6 DEF NameInv
    <2>4. CASE UnreferenceKeep(th) \/ UnreferenceLast(th)
      <3>1. PICK q \in Queues : arg[th] = q
        BY <2>4 DEF UnreferenceKeep, UnreferenceLast, IInv, CoreInv, CallsOK
      <3>2. th \in holders[q] /\ q \in linked
        BY <2>4, <3>1 DEF UnreferenceKeep, UnreferenceLast, RefInv, CallersHold, NameInv, HeldIsLinked
      <3>3. CASE UnreferenceKeep(th)
        <4>1. linked' = linked /\ name' = name /\ \A p \in Queues : holders'[p] \subseteq holders[p]
          <5>1. linked' = linked \cup {q} /\ name' = name
            BY <3>1, <3>3 DEF UnreferenceKeep
          <5>2. holders' = [holders EXCEPT ![q] = @ \ {th}]
            BY <3>1, <3>3 DEF UnreferenceKeep
          <5>3. QED BY <3>2, <5>1, <5>2, Types
        <4>2. QED BY <4>1 DEF NameInv, SingletonPerName, HeldIsLinked
      <3>4. CASE UnreferenceLast(th)
        <4>1. /\ linked' = linked \ {q} /\ name' = name
              /\ holders'[q] = holders[q] \ {th} /\ \A p \in Queues : p # q => holders'[p] = holders[p]
          BY <3>1, <3>4, Types DEF UnreferenceLast
        <4>2. holders[q] \ {th} = {}
          <5>1. LastReference(q)
            BY <3>1, <3>4 DEF UnreferenceLast
          <5>2. Cardinality(holders[q]) <= 1
            BY <5>1, CountOf DEF RefInv, LastReference
          <5>3. holders[q] \in SUBSET Threads
            BY Types
          <5>4. QED BY <3>2, <5>2, <5>3, HolderCounts
        <4>3. QED BY <4>1, <4>2 DEF NameInv, SingletonPerName, HeldIsLinked
      <3>5. QED BY <2>4, <3>3, <3>4
    <2>5. QED BY <1>3, <2>1, <2>2, <2>3, <2>4 DEF InCall
  <1>4. ASSUME NEW p \in Queues, Work(p) \/ WorkSpurious(p) PROVE NameInv'
    BY <1>1, <1>4 DEF Work, WorkLoop, WorkLock, WorkWoken, WorkSpurious, WorkAwake, WorkPop,
       WorkPopNothing, WorkExecuted, WorkStats, WorkPurge, WorkEnd, objVars, regVars
  <1>5. CASE UNCHANGED vars
    BY <1>1, <1>5 DEF vars, objVars, regVars
  <1>6. QED BY <1>2, <1>3, <1>4, <1>5 DEF Next

----------------------------------------------------------------------------
(* The theorems.                                                           *)

\* The count of every object is the number of its holders and one for the container, through
\* every unlink, decrement and relink of spd_taskqueue_unreference and every failure of
\* spd_taskqueue_get, whatever handlers call.
THEOREM ReferencesAreCounted == Spec => []ReferencesCounted
  <1>1. RefInv => ReferencesCounted
    BY DEF RefInv
  <1>2. QED BY <1>1, RefInvAlways, PTL

\* A worker is told to stop, and a task purged, only when the count is zero: nobody loses
\* work on a queue he holds.
THEOREM PurgesOnlyUnreferenced == Spec => PurgedOnlyUnreferenced
  <1>1. ASSUME IInv, RefInv, [Next]_vars, NEW q \in Queues
        PROVE  /\ dropped'[q] # dropped[q] => refs[q] = 0
               /\ run[q] /\ ~run'[q] => refs[q] = 0
    <2>1. holders[q] = {} /\ q \notin linked => refs[q] = 0
      <3>1. refs[q] = Cardinality(holders[q]) + (IF q \in linked THEN 1 ELSE 0)
        BY <1>1, CountOf DEF RefInv
      <3>2. holders[q] = {} => Cardinality(holders[q]) = 0
        BY FS_EmptySet
      <3>3. QED BY <3>1, <3>2
    <2>2. ASSUME NEW th \in Threads, Call(th)
          PROVE  dropped'[q] = dropped[q] /\ run'[q] = run[q]
      BY <2>2 DEF Call, GetCall, UnreferenceCall, PushAlloc, objVars, histVars
    <2>3. ASSUME NEW th \in Threads, InCall(th)
          PROVE  dropped'[q] = dropped[q] /\ (run[q] /\ ~run'[q] => refs[q] = 0)
      <3>1. CASE GetFound(th) \/ GetNothing(th) \/ UnreferenceKeep(th) \/ UnreferenceLast(th)
                 \/ DestroyFree(th) \/ PushInsert(th)
        BY <3>1 DEF GetFound, GetNothing, UnreferenceKeep, UnreferenceLast, DestroyFree, PushInsert,
           objVars, histVars
      <3>2. CASE GetCreated(th) \/ GetNoStats(th) \/ GetNotLinked(th)
        <4>1. dropped' = dropped /\ \E p \in Queues : run' \in {run, [run EXCEPT ![p] = TRUE]}
          BY <3>2 DEF GetCreated, GetNoStats, GetNotLinked, NewObject, histVars
        <4>2. QED BY <1>1, <4>1, Types
      <3>3. CASE DestroyStop(th)
        <4>1. /\ arg[th] \in Queues /\ Destroys(th, arg[th])
              /\ dropped' = dropped /\ run' = [run EXCEPT ![arg[th]] = FALSE]
          BY <1>1, <3>3 DEF DestroyStop, Destroys, IInv, CoreInv, CallsOK, histVars
        <4>2. q # arg[th] => run'[q] = run[q]
          BY <1>1, <4>1, Types
        <4>3. q = arg[th] => refs[q] = 0
          BY <1>1, <2>1, <4>1 DEF RefInv, DestroyedOnce
        <4>4. QED BY <4>1, <4>2, <4>3
      <3>4. QED BY <2>3, <3>1, <3>2, <3>3 DEF InCall
    <2>4. ASSUME NEW p \in Queues, Work(p) \/ WorkSpurious(p)
          PROVE  run'[q] = run[q] /\ (dropped'[q] # dropped[q] => refs[q] = 0)
      <3>1. CASE WorkPurge(p)
        <4>1. q # p => dropped'[q] = dropped[q]
          BY <1>1, <3>1 DEF WorkPurge, IInv, CoreInv, TypeOK
        <4>2. wpc[p] = "purge" /\ run' = run
          BY <3>1 DEF WorkPurge, objVars
        <4>3. holders[p] = {} /\ p \notin linked
          BY <1>1, <4>2 DEF RefInv, StoppedIsGivenUp, IInv, PurgesLast
        <4>4. QED BY <2>1, <4>1, <4>2, <4>3
      <3>2. CASE ~WorkPurge(p)
        BY <2>4, <3>2 DEF Work, WorkLoop, WorkLock, WorkWoken, WorkSpurious, WorkAwake, WorkPop,
           WorkPopNothing, WorkExecuted, WorkStats, WorkEnd, objVars, histVars
      <3>3. QED BY <3>1, <3>2
    <2>5. CASE UNCHANGED vars
      BY <2>5 DEF vars, objVars, histVars
    <2>6. QED BY <1>1, <2>2, <2>3, <2>4, <2>5 DEF Next
  <1>2. IInv /\ RefInv /\ [Next]_vars =>
          [\A q \in Queues : /\ dropped'[q] # dropped[q] => refs[q] = 0
                             /\ run[q] /\ ~run'[q] => refs[q] = 0]_vars
    BY <1>1
  <1>3. QED BY <1>2, RefInvAlways, PTL DEF Spec, PurgedOnlyUnreferenced

\* Unless a handler gives back the last reference of its own queue, which joins itself, nobody
\* can reach an object that has been freed, and its worker has ended.
THEOREM FreedIsNeverReached ==
  ASSUME "self" \notin HandlerCalls
  PROVE  Spec => []FreedIsUnreachable
  <1>1. Init => FreeInv
    BY DEF Init, FreeInv, FreedIsUnreachable, NoneJoinsItself
  <1>2. IInv /\ RefInv /\ FreeInv /\ [Next]_vars => FreeInv'
    BY StepFreeInv
  <1>3. FreeInv => FreedIsUnreachable
    BY DEF FreeInv
  <1>4. QED BY <1>1, <1>2, <1>3, RefInvAlways, PTL DEF Spec

\* As long as obj_link finds memory when an object is linked again, the container never holds
\* two queues of one name.
THEOREM OneQueuePerName ==
  ASSUME "relink" \notin Faults
  PROVE  Spec => []SingletonPerName
  <1>1. Init => NameInv
    BY DEF Init, NameInv, SingletonPerName, HeldIsLinked
  <1>2. IInv /\ RefInv /\ NameInv /\ [Next]_vars => NameInv'
    BY StepNameInv
  <1>3. NameInv => SingletonPerName
    BY DEF NameInv
  <1>4. QED BY <1>1, <1>2, <1>3, RefInvAlways, PTL DEF Spec

----------------------------------------------------------------------------
(* TaskQueue implements TaskQueueSpec: every step of a thread is, under the *)
(* refinement mapping of TaskQueue, one step of the promise or none.       *)
(*                                                                         *)
(* The invariant of the refinement, beside IInv and RefInv.                *)

\* A worker executes one task at most after poll_thread_run was cleared: it comes to the
\* head of its loop next.
LateIsLast ==
  \A q \in Queues :
    late[q] > 0 => ~run[q] /\ wpc[q] \in {"exec", "stats", "top", "purge", "done"}

\* A task in a list is allocated, a task in a hand is in no list and no other hand.
TasksAreNew ==
  /\ \A q \in Queues : \A i \in 1 .. Len(log[q]) : log[q][i] \in used
  /\ \A th \in Threads : pc[th] = "push" =>
       /\ hand[th] \in used
       /\ \A q \in Queues : \A i \in 1 .. Len(log[q]) : log[q][i] # hand[th]
       /\ \A other \in Threads : pc[other] = "push" /\ hand[other] = hand[th] => other = th

PromiseInv == LateIsLast /\ TasksAreNew

----------------------------------------------------------------------------
(* Its steps.                                                              *)

\* Tasks are allocated by one push each, and nobody but the thread that has a task in its
\* hand can put it into a list.
LEMMA StepTasksAreNew ==
  ASSUME IInv, TasksAreNew, [Next]_vars
  PROVE  TasksAreNew'
  <1>1. /\ hand \in [Threads -> Tasks \cup {Nil}] /\ log \in [Queues -> Seq(Tasks)]
        /\ used \subseteq Tasks
    BY DEF IInv, CoreInv, TypeOK
  <1>2. ASSUME UNCHANGED <<log, used, hand>>, \A o \in Threads : pc'[o] = "push" => pc[o] = "push"
        PROVE  TasksAreNew'
    BY <1>2 DEF TasksAreNew
  <1>3. ASSUME NEW th \in Threads, Call(th) PROVE TasksAreNew'
    <2>1. ASSUME NEW q \in Queues, NEW t \in Tasks, PushAlloc(th, q, t) PROVE TasksAreNew'
      <3>1. t \notin used /\ used' = used \cup {t} /\ log' = log /\ pc[th] = "idle"
        BY <2>1 DEF PushAlloc, MayCall
      <3>2. \A o \in Threads : /\ hand'[o] = IF o = th THEN t ELSE hand[o]
                               /\ pc'[o] = IF o = th THEN "push" ELSE pc[o]
        BY <1>1, <2>1, Types DEF PushAlloc, Enter
      <3>3. QED BY <3>1, <3>2 DEF TasksAreNew
    <2>2. ASSUME NEW n \in Names, GetCall(th, n) PROVE TasksAreNew'
      BY <1>2, <2>2, Types DEF GetCall, Enter, histVars
    <2>3. ASSUME NEW q \in Queues, UnreferenceCall(th, q) PROVE TasksAreNew'
      BY <1>2, <2>3, Types DEF UnreferenceCall, Enter, histVars
    <2>4. QED BY <1>3, <2>1, <2>2, <2>3 DEF Call
  <1>4. ASSUME NEW th \in Threads, InCall(th) PROVE TasksAreNew'
    <2>1. CASE GetFound(th) \/ GetNothing(th) \/ GetCreated(th) \/ UnreferenceKeep(th)
               \/ DestroyFree(th)
      <3>1. Return(th) /\ UNCHANGED <<log, used, hand>>
        BY <2>1 DEF GetFound, GetNothing, GetCreated, NewObject, UnreferenceKeep, DestroyFree,
           histVars
      <3>2. QED BY <1>2, <3>1, Types DEF Return
    <2>2. CASE GetNoStats(th) \/ GetNotLinked(th) \/ UnreferenceLast(th)
      <3>1. UNCHANGED <<log, used, hand>> /\ pc' = [pc EXCEPT ![th] = "destroy"]
        BY <2>2 DEF GetNoStats, GetNotLinked, NewObject, UnreferenceLast, Enter, histVars
      <3>2. QED BY <1>2, <3>1, Types
    <2>3. CASE DestroyStop(th)
      BY <1>2, <2>3, Types DEF DestroyStop, histVars
    <2>4. CASE PushInsert(th)
      <3>1. PICK q \in Queues : arg[th] = q /\ pc[th] = "push" /\ hand[th] \in Tasks
        BY <2>4 DEF PushInsert, IInv, CoreInv, CallsOK
      <3> DEFINE t == hand[th]
      <3>2. /\ log' = [log EXCEPT ![q] = Append(log[q], t)] /\ used' = used
            /\ hand' = [hand EXCEPT ![th] = Nil] /\ pc' = [pc EXCEPT ![th] = "idle"]
        BY <2>4, <3>1 DEF PushInsert, Return
      <3>3. /\ t \in used
            /\ \A o \in Threads : pc[o] = "push" /\ o # th => hand[o] # t
        BY <3>1 DEF TasksAreNew
      <3>4. ASSUME NEW p \in Queues, NEW i \in 1 .. Len(log'[p])
            PROVE  log'[p][i] = t \/ \E j \in 1 .. Len(log[p]) : log'[p][i] = log[p][j]
        <4>1. CASE p # q
          BY <1>1, <3>2, <4>1
        <4>2. CASE p = q
          <5>1. /\ Len(log'[q]) = Len(log[q]) + 1 /\ Len(log[q]) \in Nat
                /\ \A j \in 1 .. Len(log[q]) : log'[q][j] = log[q][j]
                /\ log'[q][Len(log[q]) + 1] = t
            <6>1. log[q] \in Seq(Tasks) /\ log'[q] = Append(log[q], t)
              BY <1>1, <3>2
            <6>2. QED BY <3>1, <6>1, AppendFacts
          <5>2. i = Len(log[q]) + 1 \/ i \in 1 .. Len(log[q])
            BY <4>2, <5>1
          <5>3. QED BY <4>2, <5>1, <5>2
        <4>3. QED BY <4>1, <4>2
      <3>5. \A o \in Threads : pc'[o] = "push" => o # th /\ pc[o] = "push" /\ hand'[o] = hand[o]
        BY <1>1, <3>2, Types
      <3> HIDE DEF t
      <3>6. \A p \in Queues : \A i \in 1 .. Len(log'[p]) : log'[p][i] \in used'
        BY <3>2, <3>3, <3>4 DEF TasksAreNew
      <3>7. ASSUME NEW o \in Threads, pc'[o] = "push"
            PROVE  /\ hand'[o] \in used'
                   /\ \A p \in Queues : \A i \in 1 .. Len(log'[p]) : log'[p][i] # hand'[o]
                   /\ \A other \in Threads : pc'[other] = "push" /\ hand'[other] = hand'[o] => other = o
        <4>1. /\ o # th /\ pc[o] = "push" /\ hand'[o] = hand[o] /\ hand[o] # t
          BY <3>3, <3>5, <3>7
        <4>2. /\ hand[o] \in used
              /\ \A p \in Queues : \A j \in 1 .. Len(log[p]) : log[p][j] # hand[o]
              /\ \A other \in Threads : pc[other] = "push" /\ hand[other] = hand[o] => other = o
          BY <4>1 DEF TasksAreNew
        <4>3. QED BY <3>2, <3>4, <3>5, <4>1, <4>2
      <3>8. QED BY <3>6, <3>7 DEF TasksAreNew
    <2>5. QED BY <1>4, <2>1, <2>2, <2>3, <2>4 DEF InCall
  <1>5. ASSUME NEW p \in Queues, Work(p) \/ WorkSpurious(p) PROVE TasksAreNew'
    BY <1>2, <1>5 DEF Work, WorkLoop, WorkLock, WorkWoken, WorkSpurious, WorkAwake, WorkPop,
       WorkPopNothing, WorkExecuted, WorkStats, WorkPurge, WorkEnd, callVars, histVars
  <1>6. CASE UNCHANGED vars
    BY <1>2, <1>6 DEF vars, callVars, histVars
  <1>7. QED BY <1>3, <1>4, <1>5, <1>6 DEF Next

\* After the task it began too late, a worker comes to the head of its loop, and leaves it.
LEMMA StepLateIsLast ==
  ASSUME IInv, LateIsLast, [Next]_vars
  PROVE  LateIsLast'
  <1>1. late \in [Queues -> Nat]
    BY DEF IInv, CoreInv, TypeOK
  <1>2. ASSUME NEW th \in Threads, Call(th) PROVE LateIsLast'
    BY <1>2 DEF Call, GetCall, UnreferenceCall, PushAlloc, objVars, workerVars, histVars, LateIsLast
  <1>3. ASSUME NEW th \in Threads, InCall(th) PROVE LateIsLast'
    <2>1. CASE GetFound(th) \/ GetNothing(th) \/ UnreferenceKeep(th) \/ UnreferenceLast(th)
               \/ DestroyFree(th)
      BY <2>1 DEF GetFound, GetNothing, UnreferenceKeep, UnreferenceLast, DestroyFree, objVars,
         workerVars, histVars, LateIsLast
    <2>2. CASE GetCreated(th) \/ GetNoStats(th) \/ GetNotLinked(th)
      <3>1. PICK q \in Queues, w \in {"none", "top"} :
              /\ status[q] = "unused" /\ late' = late /\ wpc' = [wpc EXCEPT ![q] = w]
              /\ run' = run \/ run' = [run EXCEPT ![q] = TRUE]
        BY <2>2 DEF GetCreated, GetNoStats, GetNotLinked, NewObject, histVars
      <3>2. ~(late[q] > 0)
        BY <3>1 DEF IInv, PurgesLast, LateIsLast
      <3>3. QED BY <3>1, <3>2, Types DEF LateIsLast
    <2>3. CASE DestroyStop(th) \/ PushInsert(th)
      <3>1. /\ late' = late /\ arg[th] \in Queues
            /\ run' = run \/ run' = [run EXCEPT ![arg[th]] = FALSE]
            /\ wpc' = [wpc EXCEPT ![arg[th]] = IF @ = "wait" THEN "woken" ELSE @]
        BY <2>3 DEF DestroyStop, PushInsert, Signal, objVars, histVars, IInv, CoreInv, CallsOK
      <3>2. QED BY <3>1, Types DEF LateIsLast
    <2>4. QED BY <1>3, <2>1, <2>2, <2>3 DEF InCall
  <1>4. ASSUME NEW p \in Queues, Work(p) \/ WorkSpurious(p) PROVE LateIsLast'
    <2>1. CASE WorkPop(p)
      <3>1. /\ wpc[p] = "pop" /\ wpc' = [wpc EXCEPT ![p] = "exec"] /\ run' = run
            /\ late' = [late EXCEPT ![p] = IF run[p] THEN @ ELSE @ + 1]
        BY <2>1 DEF WorkPop, objVars
      <3>2. QED BY <1>1, <3>1, Types DEF LateIsLast
    <2>2. CASE ~WorkPop(p)
      <3>1. /\ run' = run /\ late' = late
            /\ \A q \in Queues : q # p => wpc'[q] = wpc[q]
        BY <1>4, <2>2, Types DEF Work, WorkLoop, WorkLock, WorkWoken, WorkSpurious, WorkAwake,
           WorkPopNothing, WorkExecuted, WorkStats, WorkPurge, WorkEnd, objVars, workerVars, histVars
      <3>2. wpc[p] \in {"exec", "stats", "top", "purge", "done"} /\ ~run[p] =>
              wpc'[p] \in {"exec", "stats", "top", "purge", "done"}
        BY <1>4, <2>2, Types DEF Work, WorkLoop, WorkLock, WorkWoken, WorkSpurious, WorkAwake,
           WorkPopNothing, WorkExecuted, WorkStats, WorkPurge, WorkEnd, KeepRunning, workerVars
      <3>3. QED BY <3>1, <3>2 DEF LateIsLast
    <2>3. QED BY <2>1, <2>2
  <1>5. CASE UNCHANGED vars
    BY <1>5 DEF vars, objVars, workerVars, histVars, LateIsLast
  <1>6. QED BY <1>2, <1>3, <1>4, <1>5 DEF Next

----------------------------------------------------------------------------
(* The refinement, step by step.                                           *)

\* A step that touches no phase and no history is none of the promise's.
LEMMA Stutters ==
  ASSUME \A q \in Queues : Phase(q)' = Phase(q), UNCHANGED <<log, ran, dropped, late>>
  PROVE  UNCHANGED Promise!vars
  <1>1. Phases' = Phases
    BY DEF Phases
  <1>2. QED BY <1>1 DEF Promise!vars

\* Only spd_taskqueue_get and tps_taskqueue_destroy change the phase of a queue, and of one.
LEMMA PhaseChanges ==
  ASSUME NEW q \in Queues, NEW ph, Phase(q)' = ph, \A p \in Queues \ {q} : Phase(p)' = Phase(p)
  PROVE  Phases' = [Phases EXCEPT ![q] = ph]
  BY DEF Phases

\* A call that begins is not seen by the promise.
LEMMA CallStutters ==
  ASSUME NEW th \in Threads, Call(th)
  PROVE  UNCHANGED Promise!vars
  <1>1. UNCHANGED <<status, run, log, ran, dropped, late>>
    BY DEF Call, GetCall, UnreferenceCall, PushAlloc, objVars, histVars
  <1>2. QED BY <1>1, Stutters DEF Phase

\* spd_taskqueue_get creates an open queue, or a closed one if it fails before it sets
\* poll_thread_run.
LEMMA GetCreates ==
  ASSUME IInv, RefInv, NEW th \in Threads, GetCreated(th) \/ GetNoStats(th) \/ GetNotLinked(th)
  PROVE  \E q \in Queues : Promise!Create(q)
  <1>1. PICK q \in Queues :
          /\ status[q] = "unused" /\ status' = [status EXCEPT ![q] = "live"]
          /\ run' = run \/ run' = [run EXCEPT ![q] = TRUE]
          /\ UNCHANGED <<log, ran, dropped, late>>
    BY DEF GetCreated, GetNoStats, GetNotLinked, NewObject, histVars
  <1>2. PICK ph \in {"open", "closed"} : Phase(q)' = ph
    BY <1>1, Types DEF Phase
  <1>3. \A p \in Queues \ {q} : Phase(p)' = Phase(p)
    BY <1>1, Types DEF Phase
  <1>4. Phases' = [Phases EXCEPT ![q] = ph]
    BY <1>2, <1>3, PhaseChanges
  <1>5. Phases[q] = "absent"
    BY <1>1 DEF Phases, Phase
  <1>6. Promise!Create(q)
    BY <1>1, <1>4, <1>5 DEF Promise!Create
  <1>7. QED BY <1>6

\* tps_taskqueue_destroy closes the queue, unless its creation had failed.
LEMMA StopCloses ==
  ASSUME IInv, RefInv, NEW th \in Threads, DestroyStop(th)
  PROVE  UNCHANGED Promise!vars \/ \E q \in Queues : Promise!Close(q)
  <1>1. PICK q \in Queues : arg[th] = q
    BY DEF DestroyStop, IInv, CoreInv, CallsOK
  <1>2. /\ run' = [run EXCEPT ![q] = FALSE]
        /\ UNCHANGED <<status, log, ran, dropped, late>>
    BY <1>1 DEF DestroyStop, histVars
  <1>3. status[q] # "unused"
    BY <1>1 DEF DestroyStop, RefInv, UnusedUntouched, Uses
  <1>4. Phase(q)' = "closed" /\ \A p \in Queues \ {q} : Phase(p)' = Phase(p)
    BY <1>2, <1>3, Types DEF Phase
  <1>5. CASE run[q]
    <2>1. Phases[q] = "open"
      BY <1>3, <1>5 DEF Phases, Phase
    <2>2. Phases' = [Phases EXCEPT ![q] = "closed"]
      BY <1>4, PhaseChanges
    <2>3. Promise!Close(q)
      BY <1>2, <2>1, <2>2 DEF Promise!Close
    <2>4. QED BY <2>3
  <1>6. CASE ~run[q]
    <2>1. Phase(q)' = Phase(q)
      BY <1>3, <1>4, <1>6 DEF Phase
    <2>2. QED BY <1>2, <1>4, <2>1, Stutters
  <1>7. QED BY <1>5, <1>6

\* Nothing else that a call does is seen, but a push.
LEMMA OtherCallsStutter ==
  ASSUME IInv, RefInv, NEW th \in Threads,
         GetFound(th) \/ GetNothing(th) \/ UnreferenceKeep(th) \/ UnreferenceLast(th)
           \/ DestroyFree(th)
  PROVE  UNCHANGED Promise!vars
  <1>1. CASE DestroyFree(th)
    <2>1. PICK q \in Queues : arg[th] = q
      BY <1>1 DEF DestroyFree, IInv, CoreInv, CallsOK
    <2>2. status[q] # "unused"
      BY <1>1, <2>1 DEF DestroyFree, RefInv, UnusedUntouched, Uses
    <2>3. status' = [status EXCEPT ![q] = "freed"] /\ UNCHANGED <<run, log, ran, dropped, late>>
      BY <1>1, <2>1 DEF DestroyFree, histVars
    <2>4. QED BY <2>2, <2>3, Stutters, Types DEF Phase
  <1>2. CASE ~DestroyFree(th)
    <2>1. UNCHANGED <<status, run, log, ran, dropped, late>>
      BY <1>2 DEF GetFound, GetNothing, UnreferenceKeep, UnreferenceLast, objVars, histVars
    <2>2. QED BY <2>1, Stutters DEF Phase
  <1>3. QED BY <1>1, <1>2

\* spd_taskqueue_push: a queue that somebody can push to exists, and the task is in no list.
LEMMA PushAccepts ==
  ASSUME IInv, RefInv, TasksAreNew, NEW th \in Threads, PushInsert(th)
  PROVE  \E q \in Queues : \E t \in Tasks : Promise!Accept(q, t)
  <1>1. PICK q \in Queues, t \in Tasks : arg[th] = q /\ hand[th] = t /\ pc[th] = "push"
    BY DEF PushInsert, IInv, CoreInv, CallsOK
  <1>2. log' = [log EXCEPT ![q] = Append(@, t)] /\ UNCHANGED <<status, run, ran, dropped, late>>
    BY <1>1 DEF PushInsert, objVars
  <1>3. Phases' = Phases
    BY <1>2 DEF Phases, Phase
  <1>4. Phases[q] # "absent"
    <2>1. status[q] # "unused"
      BY <1>1 DEF RefInv, UnusedUntouched, Uses
    <2>2. QED BY <2>1 DEF Phases, Phase
  <1>5. \A p \in Queues : \A i \in 1 .. Len(log[p]) : log[p][i] # t
    BY <1>1 DEF TasksAreNew
  <1>6. Promise!Accept(q, t)
    BY <1>2, <1>3, <1>4, <1>5 DEF Promise!Accept
  <1>7. QED BY <1>6

\* A list that is not empty is a promise not yet settled, and its head the next task of it.
LEMMA HeadIsNext ==
  ASSUME IInv, NEW q \in Queues, queue[q] # <<>>
  PROVE  /\ Promise!Pending(q)
         /\ dropped[q] = 0 => Head(queue[q]) = log[q][Len(ran[q]) + 1]
  <1>1. /\ queue[q] \in Seq(Tasks) /\ ran[q] \in Seq(Tasks) /\ log[q] \in Seq(Tasks)
        /\ dropped[q] \in Nat
    BY DEF IInv, CoreInv, TypeOK
  <1>2. /\ Len(log[q]) = Len(ran[q]) + dropped[q] + Len(queue[q])
        /\ \A i \in 1 .. Len(queue[q]) : queue[q][i] = log[q][Len(ran[q]) + dropped[q] + i]
    BY DEF IInv, CoreInv, TasksInOrder
  <1>3. /\ Len(queue[q]) \in Nat /\ Len(queue[q]) > 0 /\ Head(queue[q]) = queue[q][1]
        /\ Len(ran[q]) \in Nat /\ 1 \in 1 .. Len(queue[q])
    BY <1>1, TailFacts
  <1>4. Promise!Pending(q)
    <2>1. \A a, b, c \in Nat : c > 0 => a + b < a + b + c
      OBVIOUS
    <2>2. QED BY <1>1, <1>2, <1>3, <2>1 DEF Promise!Pending
  <1>5. dropped[q] = 0 => Len(ran[q]) + dropped[q] + 1 = Len(ran[q]) + 1
    BY <1>3
  <1>6. QED BY <1>2, <1>3, <1>4, <1>5

\* The worker executes a task, at most one of them late.
LEMMA PopRuns ==
  ASSUME IInv, LateIsLast, NEW q \in Queues, WorkPop(q)
  PROVE  Promise!Run(q)
  <1>1. /\ wpc[q] = "pop" /\ queue[q] # <<>>
        /\ ran' = [ran EXCEPT ![q] = Append(@, Head(queue[q]))]
        /\ late' = [late EXCEPT ![q] = IF run[q] THEN @ ELSE @ + 1]
        /\ UNCHANGED <<status, run, log, dropped>>
    BY DEF WorkPop, Pop, objVars
  <1>2. dropped \in [Queues -> Nat] /\ late \in [Queues -> Nat]
    BY DEF IInv, CoreInv, TypeOK
  <1>3. dropped[q] = 0 /\ late[q] = 0 /\ status[q] # "unused"
    <2>1. ~(dropped[q] > 0) /\ ~(late[q] > 0) /\ status[q] # "unused"
      BY <1>1 DEF IInv, PurgesLast, LateIsLast
    <2>2. QED BY <1>2, <2>1
  <1>4. Promise!Pending(q) /\ Head(queue[q]) = log[q][Len(ran[q]) + 1]
    BY <1>1, <1>3, HeadIsNext
  <1>5. Phases' = Phases /\ Phases[q] = IF run[q] THEN "open" ELSE "closed"
    BY <1>1, <1>3 DEF Phases, Phase
  <1>6. CASE run[q]
    <2>1. late' = late
      BY <1>1, <1>2, <1>6
    <2>2. QED BY <1>1, <1>3, <1>4, <1>5, <1>6, <2>1 DEF Promise!Run
  <1>7. CASE ~run[q]
    <2>1. late' = [late EXCEPT ![q] = 1]
      BY <1>1, <1>3, <1>7
    <2>2. QED BY <1>1, <1>3, <1>4, <1>5, <1>7, <2>1 DEF Promise!Run
  <1>8. QED BY <1>6, <1>7

\* The worker purges only a queue that is closed.
LEMMA PurgeDrops ==
  ASSUME IInv, RefInv, NEW q \in Queues, WorkPurge(q)
  PROVE  Promise!Drop(q)
  <1>1. /\ wpc[q] = "purge" /\ queue[q] # <<>>
        /\ dropped' = [dropped EXCEPT ![q] = @ + 1]
        /\ UNCHANGED <<status, run, log, ran, late>>
    BY DEF WorkPurge, Pop, objVars
  <1>2. ~run[q] /\ status[q] # "unused"
    BY <1>1 DEF IInv, PurgesLast, RefInv, StoppedIsGivenUp
  <1>3. Phases' = Phases /\ Phases[q] = "closed"
    BY <1>1, <1>2 DEF Phases, Phase
  <1>4. Promise!Pending(q)
    BY <1>1, HeadIsNext
  <1>5. QED BY <1>1, <1>3, <1>4 DEF Promise!Drop

\* Every step of every thread is a step of the promise, or none.
LEMMA StepPromise ==
  ASSUME IInv, RefInv, PromiseInv, [Next]_vars
  PROVE  [Promise!Next]_(Promise!vars)
  <1>1. ASSUME NEW th \in Threads, Call(th) PROVE UNCHANGED Promise!vars
    BY <1>1, CallStutters
  <1>2. ASSUME NEW th \in Threads, InCall(th) PROVE [Promise!Next]_(Promise!vars)
    <2>1. CASE GetCreated(th) \/ GetNoStats(th) \/ GetNotLinked(th)
      BY <2>1, GetCreates DEF Promise!Next
    <2>2. CASE DestroyStop(th)
      BY <2>2, StopCloses DEF Promise!Next
    <2>3. CASE PushInsert(th)
      BY <2>3, PushAccepts DEF Promise!Next, PromiseInv
    <2>4. CASE GetFound(th) \/ GetNothing(th) \/ UnreferenceKeep(th) \/ UnreferenceLast(th)
               \/ DestroyFree(th)
      BY <2>4, OtherCallsStutter
    <2>5. QED BY <1>2, <2>1, <2>2, <2>3, <2>4 DEF InCall
  <1>3. ASSUME NEW q \in Queues, Work(q) \/ WorkSpurious(q) PROVE [Promise!Next]_(Promise!vars)
    <2>1. CASE WorkPop(q)
      BY <2>1, PopRuns DEF Promise!Next, PromiseInv
    <2>2. CASE WorkPurge(q)
      BY <2>2, PurgeDrops DEF Promise!Next
    <2>3. CASE ~WorkPop(q) /\ ~WorkPurge(q)
      <3>1. UNCHANGED <<status, run, log, ran, dropped, late>>
        BY <1>3, <2>3 DEF Work, WorkLoop, WorkLock, WorkWoken, WorkSpurious, WorkAwake,
           WorkPopNothing, WorkExecuted, WorkStats, WorkEnd, objVars, histVars
      <3>2. QED BY <3>1, Stutters DEF Phase
    <2>4. QED BY <2>1, <2>2, <2>3
  <1>4. CASE UNCHANGED vars
    <2>1. UNCHANGED <<status, run, log, ran, dropped, late>>
      BY <1>4 DEF vars, objVars, histVars
    <2>2. QED BY <2>1, Stutters DEF Phase
  <1>5. QED BY <1>1, <1>2, <1>3, <1>4 DEF Next

----------------------------------------------------------------------------
(* The theorem.                                                            *)

\* The queues, with their locks, signals, reference counts and failures, keep the promise of
\* TaskQueueSpec: tasks run one at a time in the order spd_taskqueue_push accepted them, each
\* at most once, one at most after the queue was closed, and only a closed queue drops any.
THEOREM PromiseKept == Spec => KeepsPromise
  <1>1. Init => PromiseInv
    BY DEF Init, PromiseInv, LateIsLast, TasksAreNew
  <1>2. IInv /\ PromiseInv /\ [Next]_vars => PromiseInv'
    BY StepTasksAreNew, StepLateIsLast DEF PromiseInv
  <1>3. Init => Promise!Init
    <2> SUFFICES ASSUME Init PROVE Promise!Init
      OBVIOUS
    <2>1. Phases = [q \in Queues |-> "absent"]
      BY DEF Init, Phases, Phase
    <2>2. QED BY <2>1 DEF Init, Promise!Init
  <1>4. IInv /\ RefInv /\ PromiseInv /\ [Next]_vars => [Promise!Next]_(Promise!vars)
    BY StepPromise
  <1>5. QED BY <1>1, <1>2, <1>3, <1>4, RefInvAlways, PTL DEF Spec, KeepsPromise, Promise!Spec
=============================================================================
