------------------------------ MODULE Engines ------------------------------
(***************************************************************************)
(* The engines of src/src/config.c: a list linked through the engines      *)
(* themselves, which modules register and deregister under config_lock,    *)
(* and loads, which look for an engine there before they read a file.      *)
(*                                                                         *)
(* Nothing fills config_maps, which says which engine a file has:          *)
(* append_mapping has no caller.  So a load finds no engine and takes the   *)
(* one for text.                                                           *)
(*                                                                         *)
(* A definition that stands before another one and is used nowhere is that *)
(* other with a mistake in it; the properties are tried against these.     *)
(***************************************************************************)
EXTENDS Integers, Sequences, SequencesExt, FiniteSets

CONSTANTS
  EngineSet,
  NoEngine,
  Callers,     \* threads
  MaxEngineCalls

VARIABLES
  first,       \* config_engine_list
  after,       \* next, by engine: an engine that is taken out keeps it
  config_lock, \* the thread that has it for ever, or NoEngine
  call,        \* by thread: "idle", "find" (a load waits for the lock), "stuck"
  engineCalls,
  \* history
  registered,  \* the engines registered and not deregistered, in order
  dragged      \* an engine was registered again that still led on to another

vars == <<first, after, config_lock, call, engineCalls, registered, dragged>>

Init ==
  /\ first = NoEngine
  /\ after = [e \in EngineSet |-> NoEngine]
  /\ config_lock = NoEngine
  /\ call = [t \in Callers |-> "idle"]
  /\ engineCalls = 0
  /\ registered = <<>> /\ dragged = FALSE

\* What a loop over the list passes until it stops somewhere: each engine is the head or
\* the next of the one before.  As far as they matter walks pass no engine twice.
Walks ==
  {w \in UNION {[1 .. n -> EngineSet] : n \in 0 .. Cardinality(EngineSet)} :
     \A i \in DOMAIN w : w[i] = IF i = 1 THEN first ELSE after[w[i - 1]]}

\* A loop that comes to NULL; in a list that leads back into itself none does.
Ends(w) == NoEngine = IF w = <<>> THEN first ELSE after[w[Len(w)]]
Endless == \A w \in Walks : ~Ends(w)
Way == CHOOSE w \in Walks : Ends(w)

Calls(t) ==
  /\ call[t] = "idle"
  /\ engineCalls < MaxEngineCalls
  /\ engineCalls' = engineCalls + 1

\* The thread looks for the end of an endless list and keeps the lock.
Sticks(t) ==
  /\ call' = [call EXCEPT ![t] = "stuck"]
  /\ config_lock' = t
  /\ UNCHANGED <<first, after, registered, dragged>>

Append1(e) ==
  IF first = NoEngine THEN first' = e /\ after' = after
  ELSE first' = first /\ after' = [after EXCEPT ![Last(Way)] = e]

\* spd_config_engine_register, of an engine that is not registered.
Register(t, e) ==
  /\ Calls(t) /\ config_lock = NoEngine
  /\ e \notin Range(registered)
  /\ IF first # NoEngine /\ Endless THEN Sticks(t)
     ELSE /\ Append1(e)
          /\ registered' = Append(registered, e)
          /\ dragged' = (dragged \/ after[e] # NoEngine)
          /\ UNCHANGED <<config_lock, call>>

\* spd_config_engine_deregister; of a list without end it may not come to the end.
WalksTo(e) ==
  {w \in Walks : w # <<>> /\ \A i \in DOMAIN w : w[i] = e <=> i = Len(w)}
Found(e) == WalksTo(e) # {}
Before(e) ==
  LET w == CHOOSE w \in WalksTo(e) : TRUE
  IN  IF Len(w) = 1 THEN NoEngine ELSE w[Len(w) - 1]

TakeOutFromHead(e) ==
  /\ first' = after[e]
  /\ after' = after
TakeOut(e) ==
  IF Before(e) = NoEngine THEN first' = after[e] /\ after' = after
  ELSE first' = first /\ after' = [after EXCEPT ![Before(e)] = after[e]]

Deregister(t, e) ==
  /\ Calls(t) /\ config_lock = NoEngine
  /\ IF ~Found(e) /\ Endless THEN Sticks(t)
     ELSE /\ IF Found(e) THEN TakeOut(e) ELSE UNCHANGED <<first, after>>
          /\ registered' = RemoveFirst(registered, e)
          /\ UNCHANGED <<config_lock, call, dragged>>

\* spd_config_internal_load: config_engine_list is tested without the lock, which a load
\* takes only if there are engines.
Load(t) ==
  /\ Calls(t) /\ first # NoEngine
  /\ call' = [call EXCEPT ![t] = "find"]
  /\ UNCHANGED <<first, after, config_lock, registered, dragged>>

\* find_engine, of the file and then of "global".
FindEngine(t) ==
  /\ call[t] = "find" /\ config_lock = NoEngine
  /\ call' = [call EXCEPT ![t] = "idle"]
  /\ UNCHANGED <<first, after, config_lock, engineCalls, registered, dragged>>

Next ==
  \E t \in Callers :
    \/ \E e \in EngineSet : Register(t, e) \/ Deregister(t, e)
    \/ Load(t) \/ FindEngine(t)

Spec == Init /\ [][Next]_vars

----------------------------------------------------------------------------
(* Properties. *)

\* The list is that of the engines registered, in their order, and nobody keeps the lock
\* for ever, unless an engine that was taken out from before another one was registered
\* again: it drags along what followed it, and the list leads back into itself
\* (config.c:1101-1138).
EnginesListed ==
  \/ dragged
  \/ /\ ~Endless /\ Way = registered
     /\ config_lock = NoEngine

=============================================================================
