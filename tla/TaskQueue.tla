----------------------------- MODULE TaskQueue -----------------------------
(***************************************************************************)
(* The task queues of src/src/taskqueue.c: named singletons, each one a    *)
(* list of tasks and one worker thread, shared by reference count through  *)
(* the container tps_singletons.                                           *)
(*                                                                         *)
(* Threads are the users that call the API and the workers; the worker of  *)
(* a queue q is the thread q.  A critical section of tskq_lock never       *)
(* blocks and covers every access to what it protects, so it is one        *)
(* action; the lock of tps_singletons is held across pthread_join in       *)
(* spd_taskqueue_unreference, so it is a variable.                         *)
(*                                                                         *)
(* A call that returns an error before it takes a lock (an empty name, a   *)
(* missing argument, no memory for the task) changes nothing and is left   *)
(* to stuttering.                                                          *)
(*                                                                         *)
(* A definition that stands before another one and is used nowhere is that *)
(* other with a mistake in it; the properties are tried against these.     *)
(***************************************************************************)
EXTENDS Integers, Sequences, FiniteSets

CONSTANTS
  Users,         \* threads that call the API
  Queues,        \* the taskqueue objects that can be allocated, and their workers
  Names,         \* taskqueue names
  Tasks,         \* the tasks that can be allocated
  Nil,           \* "no thread", "no queue", "no task", "no name"
  Faults,        \* the failures that may happen: \subseteq {"stats", "thread", "link", "relink"}
  HandlerCalls   \* what a task handler may call: \subseteq {"push", "registry", "self"}

Threads == Users \cup Queues

ASSUME ConstantsAssumption ==
  /\ Users \cap Queues = {} /\ Names \cap Queues = {}
  /\ Nil \notin Threads \cup Names \cup Tasks
  /\ IsFiniteSet(Threads)

VARIABLES
  \* struct spd_taskqueue, by object
  status,     \* "unused", "live" or "freed": the object's memory
  name,
  refs,       \* ref_counter of the object
  run,        \* poll_thread_run
  queue,      \* tps_queue
  size,       \* tps_queue_size
  processed,  \* stats->task_processed_count
  maxq,       \* stats->max_qsize
  \* the worker's program counter and local variables
  wpc, wtask, wsize,
  \* the registry
  linked,     \* objects linked in tps_singletons
  owner,      \* owner of the lock of tps_singletons
  \* API calls in progress, by thread
  pc, arg, hand,
  \* references handed out by spd_taskqueue_get and not yet given back
  holders,
  \* history: what each queue accepted, what its worker executed, how many it
  \* purged, how many it began after poll_thread_run was cleared, tasks allocated
  log, ran, dropped, late, used

objVars == <<status, name, refs, run>>
listVars == <<queue, size>>
statVars == <<processed, maxq>>
workerVars == <<wpc, wtask, wsize>>
regVars == <<linked, owner>>
callVars == <<pc, arg, hand>>
histVars == <<log, ran, dropped, late, used>>
vars == <<objVars, listVars, statVars, workerVars, regVars, callVars,
          holders, histVars>>

----------------------------------------------------------------------------
(* spd_taskqueue_init leaves an empty container. *)
Init ==
  /\ status = [q \in Queues |-> "unused"]
  /\ name = [q \in Queues |-> Nil]
  /\ refs = [q \in Queues |-> 0]
  /\ run = [q \in Queues |-> FALSE]
  /\ queue = [q \in Queues |-> <<>>]
  /\ size = [q \in Queues |-> 0]
  /\ processed = [q \in Queues |-> 0]
  /\ maxq = [q \in Queues |-> 0]
  /\ wpc = [q \in Queues |-> "none"]
  /\ wtask = [q \in Queues |-> Nil]
  /\ wsize = [q \in Queues |-> 0]
  /\ linked = {}
  /\ owner = Nil
  /\ pc = [th \in Threads |-> "idle"]
  /\ arg = [th \in Threads |-> Nil]
  /\ hand = [th \in Threads |-> Nil]
  /\ holders = [q \in Queues |-> {}]
  /\ log = [q \in Queues |-> <<>>]
  /\ ran = [q \in Queues |-> <<>>]
  /\ dropped = [q \in Queues |-> 0]
  /\ late = [q \in Queues |-> 0]
  /\ used = {}

----------------------------------------------------------------------------
(* Shared pieces of the code. *)

\* The insertion at the tail of the list and the count, under tskq_lock.
InsertAtHead(q, t) ==
  /\ queue' = [queue EXCEPT ![q] = <<t>> \o @]
  /\ size' = [size EXCEPT ![q] = @ + 1]
InsertUncounted(q, t) ==
  /\ queue' = [queue EXCEPT ![q] = Append(@, t)]
  /\ size' = size
Insert(q, t) ==
  /\ queue' = [queue EXCEPT ![q] = Append(@, t)]
  /\ size' = [size EXCEPT ![q] = @ + 1]

\* spd_cond_signal(&poll_cond): the worker is the only thread that waits on it.
SignalLost(q) == wpc' = wpc
Signal(q) == wpc' = [wpc EXCEPT ![q] = IF @ = "wait" THEN "woken" ELSE @]

\* tps_taskqueue_pop on a list that is not empty.
PopKeepsSize(q) ==
  /\ queue[q] # <<>>
  /\ queue' = [queue EXCEPT ![q] = Tail(@)]
  /\ size' = size
Pop(q) ==
  /\ queue[q] # <<>>
  /\ queue' = [queue EXCEPT ![q] = Tail(@)]
  /\ size' = [size EXCEPT ![q] = @ - 1]

\* A thread may enter the API when it is in no other call: a user at any time, a
\* worker while it executes a handler that makes such calls.
MayCall(th, what) ==
  /\ pc[th] = "idle"
  /\ \/ th \in Users
     \/ /\ th \in Queues
        /\ wpc[th] = "exec"
        /\ what \in HandlerCalls

Enter(th, where, what) ==
  /\ pc' = [pc EXCEPT ![th] = where]
  /\ arg' = [arg EXCEPT ![th] = what]

Return(th) ==
  /\ pc' = [pc EXCEPT ![th] = "idle"]
  /\ arg' = [arg EXCEPT ![th] = Nil]

\* The references an object should have: one per holder, one for the container.
RefsOwed(q) == Cardinality(holders[q]) + (IF q \in linked THEN 1 ELSE 0)

----------------------------------------------------------------------------
(* spd_taskqueue_get(n, TPS_REF_DEFAULT). *)

GetCall(th, n) ==
  /\ MayCall(th, "registry")
  /\ \A q \in Queues : th \in holders[q] => name[q] # n  \* at most one reference each
  /\ Enter(th, "get", n)
  /\ UNCHANGED <<objVars, listVars, statVars, workerVars, regVars, hand,
                 holders, histVars>>

\* What obj_find sees of the container.
RegisteredNone(n) == {}
Registered(n) == {q \in linked : name[q] = n}

\* obj_find returned an object and took a reference on it.
GetFound(th) ==
  /\ pc[th] = "get"
  /\ owner = Nil
  /\ \E q \in Registered(arg[th]) :
       /\ th \notin holders[q]
       /\ refs' = [refs EXCEPT ![q] = @ + 1]
       /\ holders' = [holders EXCEPT ![q] = @ \cup {th}]
  /\ Return(th)
  /\ UNCHANGED <<status, name, run, listVars, statVars, workerVars, regVars,
                 hand, histVars>>

\* TPS_REF_IF_EXISTS on a name that is not registered, or no memory for the object.
GetNothing(th) ==
  /\ pc[th] = "get"
  /\ owner = Nil
  /\ Registered(arg[th]) = {}
  /\ Return(th)
  /\ UNCHANGED <<objVars, listVars, statVars, workerVars, regVars, hand,
                 holders, histVars>>

\* A new object as obj_alloc and the assignments that follow leave it, with r
\* references and its worker at w.
NewObject(q, n, r, w) ==
  /\ status[q] = "unused"
  /\ status' = [status EXCEPT ![q] = "live"]
  /\ name' = [name EXCEPT ![q] = n]
  /\ refs' = [refs EXCEPT ![q] = r]
  /\ wpc' = [wpc EXCEPT ![q] = w]
  /\ UNCHANGED <<listVars, statVars, wtask, wsize, hand, histVars>>

\* The path that registers the object.  pthread_create reports an error by a
\* positive number, so the test "< 0" never sees it: the queue is registered
\* all the same, without a worker.
GetCreated(th) ==
  /\ pc[th] = "get"
  /\ owner = Nil
  /\ Registered(arg[th]) = {}
  /\ \E q \in Queues, w \in {"top"} \cup (IF "thread" \in Faults THEN {"none"} ELSE {}) :
       /\ NewObject(q, arg[th], 2, w)
       /\ run' = [run EXCEPT ![q] = TRUE]
       /\ linked' = linked \cup {q}
       /\ holders' = [holders EXCEPT ![q] = {th}]
  /\ Return(th)
  /\ UNCHANGED owner

\* No memory for stats or for the name: obj_ref(p, -1) runs the destructor after
\* the container's lock was released, on an object that has no worker.
GetNoStats(th) ==
  /\ "stats" \in Faults
  /\ pc[th] = "get"
  /\ owner = Nil
  /\ Registered(arg[th]) = {}
  /\ \E q \in Queues :
       /\ NewObject(q, arg[th], 0, "none")
       /\ Enter(th, "destroy", q)
  /\ UNCHANGED <<run, regVars, holders>>

\* obj_link failed: the same, on an object whose worker has been started.
GetNotLinked(th) ==
  /\ "link" \in Faults
  /\ pc[th] = "get"
  /\ owner = Nil
  /\ Registered(arg[th]) = {}
  /\ \E q \in Queues :
       /\ NewObject(q, arg[th], 0, "top")
       /\ run' = [run EXCEPT ![q] = TRUE]
       /\ Enter(th, "destroy", q)
  /\ UNCHANGED <<regVars, holders>>

----------------------------------------------------------------------------
(* spd_taskqueue_unreference and the destructor it may run. *)

\* A handler that gives back the last reference of its own queue would join
\* itself; it is left to HandlerCalls = {"self"}.
UnreferenceCall(th, q) ==
  /\ MayCall(th, "registry")
  /\ th \in holders[q]
  /\ th = q => "self" \in HandlerCalls
  /\ Enter(th, "unref", q)
  /\ UNCHANGED <<objVars, listVars, statVars, workerVars, regVars, hand,
                 holders, histVars>>

\* The reference count after obj_unlink, which obj_ref(tps, -1) then returns.
AfterUnlinkBlind(q) == refs[q] - 1
AfterUnlink(q) == refs[q] - (IF q \in linked THEN 1 ELSE 0)

LastButOne(q) == AfterUnlink(q) <= 2
LastReference(q) == AfterUnlink(q) <= 1

\* Others hold references: the object is linked again, unless the memory for
\* its bucket entry is not there.
UnreferenceKeep(th) ==
  LET q == arg[th] IN
  /\ pc[th] = "unref"
  /\ owner = Nil
  /\ ~LastReference(q)
  /\ \/ /\ refs' = [refs EXCEPT ![q] = AfterUnlink(q)]
        /\ linked' = linked \cup {q}
     \/ /\ "relink" \in Faults
        /\ refs' = [refs EXCEPT ![q] = AfterUnlink(q) - 1]
        /\ linked' = linked \ {q}
  /\ holders' = [holders EXCEPT ![q] = @ \ {th}]
  /\ Return(th)
  /\ UNCHANGED <<status, name, run, listVars, statVars, workerVars, owner,
                 hand, histVars>>

\* The last reference: the destructor runs with the container locked.
UnreferenceLast(th) ==
  LET q == arg[th] IN
  /\ pc[th] = "unref"
  /\ owner = Nil
  /\ LastReference(q)
  /\ refs' = [refs EXCEPT ![q] = AfterUnlink(q) - 1]
  /\ linked' = linked \ {q}
  /\ owner' = th
  /\ holders' = [holders EXCEPT ![q] = @ \ {th}]
  /\ Enter(th, "destroy", q)
  /\ UNCHANGED <<status, name, run, listVars, statVars, workerVars,
                 hand, histVars>>

\* tps_taskqueue_destroy up to pthread_join.
DestroyStop(th) ==
  LET q == arg[th] IN
  /\ pc[th] = "destroy"
  /\ run' = [run EXCEPT ![q] = FALSE]
  /\ Signal(q)
  /\ pc' = [pc EXCEPT ![th] = "join"]
  /\ UNCHANGED <<status, name, refs, listVars, statVars, wtask, wsize, regVars,
                 arg, hand, holders, histVars>>

\* pthread_join returns when the worker has ended (or with EDEADLK at once, when
\* a thread joins itself); the object is freed and the container unlocked.  On an
\* object without a worker, poll_thread is 0 or SPD_PTHREADT_NULL and pthread_join
\* reads through it: the process dies there, and this thread takes no more steps.
JoinedEarly(th) == TRUE
Joined(th) == wpc[arg[th]] = "done" \/ arg[th] = th

DestroyFree(th) ==
  /\ pc[th] = "join"
  /\ Joined(th)
  /\ status' = [status EXCEPT ![arg[th]] = "freed"]
  /\ owner' = IF owner = th THEN Nil ELSE owner
  /\ Return(th)
  /\ UNCHANGED <<name, refs, run, listVars, statVars, workerVars, linked, hand,
                 holders, histVars>>

----------------------------------------------------------------------------
(* spd_taskqueue_push. *)

\* A caller owns a reference; a handler may also push to the queue that runs it.
MayPush(th, q) == th \in holders[q] \/ th = q

PushAlloc(th, q, t) ==
  /\ MayCall(th, "push")
  /\ MayPush(th, q)
  /\ t \notin used
  /\ used' = used \cup {t}
  /\ hand' = [hand EXCEPT ![th] = t]
  /\ Enter(th, "push", q)
  /\ UNCHANGED <<objVars, listVars, statVars, workerVars, regVars, holders,
                 log, ran, dropped, late>>

PushInsert(th) ==
  LET q == arg[th]  t == hand[th] IN
  /\ pc[th] = "push"
  /\ Insert(q, t)
  /\ Signal(q)
  /\ log' = [log EXCEPT ![q] = Append(@, t)]
  /\ hand' = [hand EXCEPT ![th] = Nil]
  /\ Return(th)
  /\ UNCHANGED <<objVars, statVars, wtask, wsize, regVars, holders,
                 ran, dropped, late, used>>

----------------------------------------------------------------------------
(* tps_work_thread. *)

\* poll_thread_run, read at the head of the loop, under the lock and after the wait.
KeepRunningAlways(q) == TRUE
KeepRunning(q) == run[q]

\* while(tps->poll_thread_run), read without the lock.
WorkLoop(q) ==
  /\ wpc[q] = "top"
  /\ wpc' = [wpc EXCEPT ![q] = IF KeepRunning(q) THEN "lock" ELSE "purge"]
  /\ UNCHANGED <<objVars, listVars, statVars, wtask, wsize, regVars, callVars,
                 holders, histVars>>

\* The critical section, up to spd_cond_wait or to its end.  The depth is read
\* here and used after the task has run.
WorkLock(q) ==
  /\ wpc[q] = "lock"
  /\ \/ /\ ~KeepRunning(q)
        /\ wpc' = [wpc EXCEPT ![q] = "purge"]
        /\ wsize' = wsize
     \/ /\ KeepRunning(q)
        /\ wsize' = [wsize EXCEPT ![q] = size[q]]
        /\ wpc' = [wpc EXCEPT ![q] = IF size[q] = 0 THEN "wait" ELSE "pop"]
  /\ UNCHANGED <<objVars, listVars, statVars, wtask, regVars, callVars,
                 holders, histVars>>

\* spd_cond_wait returned, for a signal or spuriously.  There is no loop around
\* it: only poll_thread_run is looked at again.
WorkAwake(q) ==
  /\ wpc' = [wpc EXCEPT ![q] = IF KeepRunning(q) THEN "pop" ELSE "purge"]
  /\ UNCHANGED <<objVars, listVars, statVars, wtask, wsize, regVars, callVars,
                 holders, histVars>>

WorkWoken(q) == wpc[q] = "woken" /\ WorkAwake(q)
WorkSpurious(q) == wpc[q] = "wait" /\ WorkAwake(q)

\* tps_taskqueue_pop in a critical section of its own, and the call of the handler.
WorkPop(q) ==
  /\ wpc[q] = "pop"
  /\ Pop(q)
  /\ wtask' = [wtask EXCEPT ![q] = Head(queue[q])]
  /\ wpc' = [wpc EXCEPT ![q] = "exec"]
  /\ ran' = [ran EXCEPT ![q] = Append(@, Head(queue[q]))]
  /\ late' = [late EXCEPT ![q] = IF run[q] THEN @ ELSE @ + 1]
  /\ UNCHANGED <<objVars, statVars, wsize, regVars, callVars, holders,
                 log, dropped, used>>

\* The list was empty: "wtf ?" is logged and the loop goes on.
WorkPopNothing(q) ==
  /\ wpc[q] = "pop"
  /\ queue[q] = <<>>
  /\ wpc' = [wpc EXCEPT ![q] = "top"]
  /\ UNCHANGED <<objVars, listVars, statVars, wtask, wsize, regVars, callVars,
                 holders, histVars>>

\* The handler returns.
WorkExecuted(q) ==
  /\ wpc[q] = "exec"
  /\ pc[q] = "idle"
  /\ wpc' = [wpc EXCEPT ![q] = "stats"]
  /\ UNCHANGED <<objVars, listVars, statVars, wtask, wsize, regVars, callVars,
                 holders, histVars>>

\* The statistics, and tps_task_free.
WorkStats(q) ==
  /\ wpc[q] = "stats"
  /\ processed' = [processed EXCEPT ![q] = @ + 1]
  /\ maxq' = [maxq EXCEPT ![q] = IF wsize[q] > @ THEN wsize[q] ELSE @]
  /\ wtask' = [wtask EXCEPT ![q] = Nil]
  /\ wpc' = [wpc EXCEPT ![q] = "top"]
  /\ UNCHANGED <<objVars, listVars, wsize, regVars, callVars, holders,
                 histVars>>

\* The loop after the loop: tasks are popped and freed without being executed.
WorkPurge(q) ==
  /\ wpc[q] = "purge"
  /\ Pop(q)
  /\ dropped' = [dropped EXCEPT ![q] = @ + 1]
  /\ UNCHANGED <<objVars, statVars, workerVars, regVars, callVars, holders,
                 log, ran, late, used>>

WorkEnd(q) ==
  /\ wpc[q] = "purge"
  /\ queue[q] = <<>>
  /\ wpc' = [wpc EXCEPT ![q] = "done"]
  /\ UNCHANGED <<objVars, listVars, statVars, wtask, wsize, regVars, callVars,
                 holders, histVars>>

----------------------------------------------------------------------------
\* What a thread that has entered the API does without being asked again.
InCall(th) ==
  \/ GetFound(th) \/ GetNothing(th) \/ GetCreated(th) \/ GetNoStats(th)
  \/ GetNotLinked(th)
  \/ UnreferenceKeep(th) \/ UnreferenceLast(th)
  \/ DestroyStop(th) \/ DestroyFree(th)
  \/ PushInsert(th)

Work(q) ==
  \/ WorkLoop(q) \/ WorkLock(q) \/ WorkWoken(q)
  \/ WorkPop(q) \/ WorkPopNothing(q) \/ WorkExecuted(q) \/ WorkStats(q)
  \/ WorkPurge(q) \/ WorkEnd(q)

Call(th) ==
  \/ \E n \in Names : GetCall(th, n)
  \/ \E q \in Queues : UnreferenceCall(th, q)
  \/ \E q \in Queues, t \in Tasks : PushAlloc(th, q, t)

Next ==
  \/ \E th \in Threads : Call(th) \/ InCall(th)
  \/ \E q \in Queues : Work(q) \/ WorkSpurious(q)

Spec == Init /\ [][Next]_vars

(* The system schedules every thread that can run, a critical section is      *)
(* short, and a handler returns unless a call of its own blocks.  No thread   *)
(* is obliged to call the API, no wakeup is promised without a signal, and a  *)
(* mutex need not be handed over in order: a thread that waits for the        *)
(* container's lock may find it taken again and again.                        *)
Fairness ==
  /\ \A th \in Threads : WF_vars(InCall(th))
  /\ \A q \in Queues : WF_vars(Work(q))

LiveSpec == Spec /\ Fairness

----------------------------------------------------------------------------
(* Properties. *)

WorkerPCs == {"none", "top", "lock", "wait", "woken", "pop", "exec", "stats", "purge", "done"}
CallPCs == {"idle", "get", "unref", "destroy", "join", "push"}

\* Every variable keeps the type its declaration gives it in taskqueue.c.
TypeOK ==
  /\ status \in [Queues -> {"unused", "live", "freed"}]
  /\ name \in [Queues -> Names \cup {Nil}]
  /\ refs \in [Queues -> Int]
  /\ run \in [Queues -> BOOLEAN]
  /\ queue \in [Queues -> Seq(Tasks)]
  /\ size \in [Queues -> Nat]
  /\ processed \in [Queues -> Nat]
  /\ maxq \in [Queues -> Nat]
  /\ wpc \in [Queues -> WorkerPCs]
  /\ wtask \in [Queues -> Tasks \cup {Nil}]
  /\ wsize \in [Queues -> Nat]
  /\ linked \subseteq Queues
  /\ owner \in Threads \cup {Nil}
  /\ pc \in [Threads -> CallPCs]
  /\ arg \in [Threads -> Queues \cup Names \cup {Nil}]
  /\ hand \in [Threads -> Tasks \cup {Nil}]
  /\ holders \in [Queues -> SUBSET Threads]
  /\ log \in [Queues -> Seq(Tasks)]
  /\ ran \in [Queues -> Seq(Tasks)]
  /\ dropped \in [Queues -> Nat]
  /\ late \in [Queues -> Nat]
  /\ used \subseteq Tasks

\* The reference count is exact through every unlink, decrement and relink of
\* spd_taskqueue_unreference and every failure of spd_taskqueue_get: one
\* reference for each holder and one for the container.
ReferencesCounted == \A q \in Queues : refs[q] = RefsOwed(q)

\* When tps_taskqueue_destroy returns and the object is freed, nobody can touch
\* it any more: its worker has ended, nobody holds it or is in a call on it, the
\* container has forgotten it, and no task is left in its list.
FreedIsUnreachable ==
  \A q \in Queues : status[q] = "freed" =>
    /\ wpc[q] = "done"
    /\ holders[q] = {} /\ q \notin linked
    /\ queue[q] = <<>>
    /\ \A th \in Threads : pc[th] # "idle" => arg[th] # q

\* A worker that sleeps in spd_cond_wait has nothing to do: no task waits in its
\* list and it has not been told to stop, whatever was pushed or destroyed
\* between the test of the depth and the wait.
NoLostWakeup ==
  \A q \in Queues : wpc[q] = "wait" => queue[q] = <<>> /\ run[q]

\* "wtf ? %d tasks in the queue, but we pop blank tasks" is never logged with a
\* positive number: the depth read in one critical section still describes the
\* list when the pop takes the lock again.
DepthStillHolds ==
  \A q \in Queues : wpc[q] = "pop" /\ wsize[q] > 0 => queue[q] # <<>>

\* Tasks are executed in the order they were pushed, each at most once, and the
\* list holds exactly those accepted, not executed and not purged.
TasksInOrder ==
  \A q \in Queues :
    /\ Len(log[q]) = Len(ran[q]) + dropped[q] + Len(queue[q])
    /\ \A i \in 1 .. Len(ran[q]) : ran[q][i] = log[q][i]
    /\ \A i \in 1 .. Len(queue[q]) : queue[q][i] = log[q][Len(ran[q]) + dropped[q] + i]

\* A taskqueue is a named singleton (taskqueue.h:18): the container never holds
\* two objects of one name, as long as obj_link finds memory when an object is
\* linked again.
SingletonPerName ==
  \A p, q \in linked : name[p] = name[q] => p = q

\* The queues keep the promise of TaskQueueSpec: FIFO execution, at most once,
\* one task at most begun after poll_thread_run was cleared, nothing purged
\* before.
Phase(q) ==
  IF status[q] = "unused" THEN "absent" ELSE IF run[q] THEN "open" ELSE "closed"
Phases == [q \in Queues |-> Phase(q)]
Promise == INSTANCE TaskQueueSpec WITH phase <- Phases
KeepsPromise == Promise!Spec

\* Nobody loses work on a queue he still holds: tasks are purged, and the worker
\* is told to stop, only once the reference count has reached zero.
PurgedOnlyUnreferenced ==
  [][\A q \in Queues :
       /\ dropped'[q] # dropped[q] => refs[q] = 0
       /\ run[q] /\ ~run'[q] => refs[q] = 0]_vars

\* taskqueue.h:31-33: tasks waiting in the list when the reference count reaches
\* zero are purged without being processed.
NeverProcessedUnreferenced ==
  [][\A q \in Queues : ran'[q] # ran[q] => refs[q] > 0]_vars

\* Every task that was pushed is executed, or purged because the queue was given
\* up: a signal is never lost and a sleeping worker never forgotten.
Settled(q, n) == Len(ran[q]) + dropped[q] >= n
EveryTaskSettles ==
  \A q \in Queues : \A n \in 1 .. Cardinality(Tasks) :
    Len(log[q]) >= n ~> Settled(q, n)

\* spd_taskqueue_unreference returns (taskqueue.h:70-76) also when it destroys the
\* queue and waits for the end of its worker with the container locked.
DestroyReturns ==
  \A th \in Threads : pc[th] \in {"destroy", "join"} ~> pc[th] = "idle"
=============================================================================
