--------------------------- MODULE TaskQueueSpec ---------------------------
(***************************************************************************)
(* What a task queue promises to the modules that share it, without locks, *)
(* threads or reference counts (src/src/taskqueue.h:15-34): tasks run one  *)
(* at a time in the order they were accepted, each at most once; when the  *)
(* queue is closed at most one more task is begun, and the rest is dropped.*)
(***************************************************************************)
EXTENDS Naturals, Sequences

CONSTANTS Queues, Tasks

VARIABLES
  phase,    \* "absent", "open" or "closed", by queue
  log,      \* the tasks accepted, in order
  ran,      \* the tasks begun, in order
  dropped,  \* how many were dropped
  late      \* how many were begun after the queue was closed

vars == <<phase, log, ran, dropped, late>>

Init ==
  /\ phase = [q \in Queues |-> "absent"]
  /\ log = [q \in Queues |-> <<>>]
  /\ ran = [q \in Queues |-> <<>>]
  /\ dropped = [q \in Queues |-> 0]
  /\ late = [q \in Queues |-> 0]

\* A queue may be closed as it is made: its creation failed halfway.
Create(q) ==
  /\ phase[q] = "absent"
  /\ \E p \in {"open", "closed"} : phase' = [phase EXCEPT ![q] = p]
  /\ UNCHANGED <<log, ran, dropped, late>>

Close(q) ==
  /\ phase[q] = "open"
  /\ phase' = [phase EXCEPT ![q] = "closed"]
  /\ UNCHANGED <<log, ran, dropped, late>>

\* A task is accepted by one queue, once.
Accept(q, t) ==
  /\ phase[q] # "absent"
  /\ \A p \in Queues : \A i \in 1 .. Len(log[p]) : log[p][i] # t
  /\ log' = [log EXCEPT ![q] = Append(@, t)]
  /\ UNCHANGED <<phase, ran, dropped, late>>

Pending(q) == Len(ran[q]) + dropped[q] < Len(log[q])

Run(q) ==
  /\ Pending(q)
  /\ dropped[q] = 0
  /\ ran' = [ran EXCEPT ![q] = Append(@, log[q][Len(ran[q]) + 1])]
  /\ \/ phase[q] = "open" /\ UNCHANGED late
     \/ /\ phase[q] = "closed"
        /\ late[q] = 0
        /\ late' = [late EXCEPT ![q] = 1]
  /\ UNCHANGED <<phase, log, dropped>>

Drop(q) ==
  /\ phase[q] = "closed"
  /\ Pending(q)
  /\ dropped' = [dropped EXCEPT ![q] = @ + 1]
  /\ UNCHANGED <<phase, log, ran, late>>

Next ==
  \E q \in Queues :
    \/ Create(q) \/ Close(q) \/ Run(q) \/ Drop(q)
    \/ \E t \in Tasks : Accept(q, t)

Spec == Init /\ [][Next]_vars
=============================================================================
