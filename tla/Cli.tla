-------------------------------- MODULE Cli --------------------------------
(***************************************************************************)
(* The registry of commands of src/src/cli.c while threads execute         *)
(* commands and register and unregister entries.                           *)
(*                                                                         *)
(* The registry's lock is a POSIX read-write lock.  Readers keep it inside *)
(* one action only.  A writer that asks for the lock again gets EDEADLK,   *)
(* which nobody tests, goes on, and unlocks at the end what an earlier     *)
(* call has left locked: spd_cli_register returns without unlocking when   *)
(* it succeeds.                                                            *)
(*                                                                         *)
(* A definition that stands before another one and is used nowhere is that *)
(* other with a mistake in it; the properties are tried against these.     *)
(***************************************************************************)
EXTENDS CliMatch, FiniteSets

CONSTANTS
  Threads, NoThread,
  Commands,   \* \subseteq Seq(Words): the command lines that are typed
  Walks,      \* {TRUE}, or {TRUE, FALSE} when a build may lose what cli_next returns
  CliFaults,  \* \subseteq {"memory"}
  MaxRegs     \* bound: calls of spd_cli_register and spd_cli_unregister

ASSUME CliAssumption ==
  /\ IsFiniteSet(Threads) /\ NoThread \notin Threads
  /\ Commands \subseteq Seq(Words)
  /\ Walks \subseteq BOOLEAN
  /\ MaxRegs \in Nat

VARIABLES
  walks,      \* cli_next has no return statement: whether its callers see the list
  registry,   \* the listed entries, in order
  writer,     \* the thread that has the lock for writing
  inuse,      \* by entry
  call,       \* by thread: its place in a call, and the command or entry it is about
  regs,
  late,       \* history: threads that found an entry another one was about to remove
  dead        \* the process has ended

registryVars == <<walks, registry, writer, inuse, regs, late>>
cliVars == <<registryVars, call, dead>>

Idle == [at |-> "idle", cmd |-> <<>>, entry |-> NoEntry]

\* All but the number of calls of the registry.
CliInit ==
  /\ walks \in Walks
  /\ registry = <<>> /\ writer = NoThread
  /\ inuse = [e \in Entries |-> 0]
  /\ call = [t \in Threads |-> Idle]
  /\ late = {} /\ dead = FALSE

In(t, at) == ~dead /\ call[t].at = at
GoIdle(t) == call' = [call EXCEPT ![t] = Idle]
Lockable(t) == writer \in {NoThread, t}
Unlock == writer' = NoThread

\* What a walk along the list finds.
Find(cmds, type) == IF walks THEN FindCli(registry, cmds, type) ELSE NoEntry

----------------------------------------------------------------------------
(* spd_cli_command_full.                                                   *)

\* A line without a word is ignored.
Execute(t, cmd) ==
  /\ In(t, "idle")
  /\ call' = [call EXCEPT ![t] =
                IF cmd = <<>> THEN Idle
                ELSE [at |-> "find", cmd |-> cmd, entry |-> NoEntry]]
  /\ UNCHANGED <<registryVars, dead>>

Found(t, e) ==
  /\ call' = [call EXCEPT ![t].at = "handler", ![t].entry = e]
  /\ inuse' = [inuse EXCEPT ![e] = @ + 1]

FindIt(t) ==
  /\ In(t, "find")
  /\ Lockable(t) /\ Unlock
  /\ LET e == Find(Line(call[t].cmd), 0) IN
     /\ IF e = NoEntry
        THEN call' = [call EXCEPT ![t].at = "unknown"] /\ UNCHANGED inuse
        ELSE Found(t, e)
     /\ late' = IF \E u \in Threads : call[u].at = "unlist" /\ call[u].entry = e
                THEN late \cup {t} ELSE late
  /\ UNCHANGED <<walks, registry, regs, dead>>

\* find_best takes the array of words for a string, so that its first "word" is the low
\* byte of a pointer: the message is sent if that byte is zero, else the process ends.
Unknown(t) ==
  /\ In(t, "unknown")
  /\ Lockable(t) /\ Unlock
  /\ GoIdle(t)
  /\ dead' \in BOOLEAN
  /\ UNCHANGED <<walks, registry, inuse, regs, late>>

\* The handler has returned.
Handled(t) ==
  /\ In(t, "handler")
  /\ inuse' = [inuse EXCEPT ![call[t].entry] = @ - 1]
  /\ late' = late \ {t}
  /\ GoIdle(t)
  /\ UNCHANGED <<walks, registry, writer, regs, dead>>

----------------------------------------------------------------------------
(* spd_cli_register and spd_cli_unregister.                                *)

Listed(e) == e \in Range(registry)

\* An entry is registered by one thread at a time, and not while it is listed, unless
\* the registry recognises it by its plain words.
Call(t, at, e) ==
  /\ In(t, "idle") /\ regs < MaxRegs
  /\ regs' = regs + 1
  /\ call' = [call EXCEPT ![t].at = at, ![t].entry = e]

Register(t, e) ==
  /\ \A u \in Threads : call[u].entry = e => call[u].at = "handler"
  /\ Listed(e) => walks /\ \A i \in DOMAIN Pattern[e] : Pattern[e][i].kind = "word"
  /\ Call(t, "register", e)
  /\ UNCHANGED <<walks, registry, writer, inuse, late, dead>>

\* Only the failures unlock: a thread that has registered keeps the lock.
RegisterUntested(t) ==
  /\ In(t, "register") /\ Lockable(t)
  /\ registry' = Insert(registry, call[t].entry)
  /\ writer' = t
  /\ GoIdle(t)
  /\ UNCHANGED <<walks, inuse, regs, late, dead>>
RegisterIt(t) ==
  /\ In(t, "register") /\ Lockable(t)
  /\ LET e == call[t].entry IN
     \/ /\ Find(Pattern[e], 1) = NoEntry
        /\ registry' = Insert(registry, e)
        /\ writer' = t
     \/ /\ Find(Pattern[e], 1) # NoEntry \/ "memory" \in CliFaults
        /\ UNCHANGED registry
        /\ Unlock
  /\ GoIdle(t)
  /\ UNCHANGED <<walks, inuse, regs, late, dead>>

\* inuse is tested before the lock is taken.
UnregisterUntested(t, e) ==
  Call(t, "unlist", e) /\ UNCHANGED <<walks, registry, writer, inuse, late, dead>>
Unregister(t, e) ==
  /\ inuse[e] = 0
  /\ \A u \in Threads : call[u].entry = e => call[u].at = "handler"
  /\ Call(t, "unlist", e)
  /\ UNCHANGED <<walks, registry, writer, inuse, late, dead>>

UnregisterRefused(t, e) ==
  /\ inuse[e] > 0
  /\ In(t, "idle") /\ regs < MaxRegs
  /\ regs' = regs + 1
  /\ UNCHANGED <<walks, registry, writer, inuse, late, dead, call>>

\* SPD_RWLIST_REMOVE takes out the first element it finds to be the one.
TakeOut(list, e) ==
  LET at == {i \in DOMAIN list : list[i] = e}
  IN  IF at = {} THEN list ELSE RemoveAt(list, Min(at))

\* The entry leaves the list, and its strings are freed.
UnregisterIt(t) ==
  /\ In(t, "unlist") /\ Lockable(t)
  /\ registry' = TakeOut(registry, call[t].entry)
  /\ Unlock
  /\ GoIdle(t)
  /\ UNCHANGED <<walks, inuse, regs, late, dead>>

Caller(t) == FindIt(t) \/ Unknown(t) \/ Handled(t) \/ RegisterIt(t) \/ UnregisterIt(t)

Registrar(t) == \E e \in Entries : Register(t, e) \/ Unregister(t, e) \/ UnregisterRefused(t, e)

----------------------------------------------------------------------------
(* Properties.                                                             *)

CliTypeOK ==
  /\ walks \in BOOLEAN /\ dead \in BOOLEAN
  /\ registry \in Seq(Entries) /\ writer \in Threads \cup {NoThread}
  /\ inuse \in [Entries -> Nat] /\ regs \in 0 .. MaxRegs /\ late \subseteq Threads
  /\ call \in [Threads -> [at : {"idle", "find", "unknown", "handler", "register", "unlist"},
                           cmd : Commands \cup {<<>>}, entry : Entries \cup {NoEntry}]]

\* An entry that is being executed is counted, and it stays registered, except when the
\* command was found after an unregistration had seen no use and before it took the lock
\* (cli.c:260).
HandlersCounted ==
  /\ \A e \in Entries :
       inuse[e] = Cardinality({t \in Threads : call[t].at = "handler" /\ call[t].entry = e})
  /\ \A t \in Threads : call[t].at = "handler" /\ ~Listed(call[t].entry) => t \in late

\* Whoever types the plain words of a registered command executes that command, whatever
\* patterns are registered besides and in whatever order entries came and went: the order
\* of the registry keeps a pattern behind the plain commands it covers, and a command that
\* a registered pattern covers is refused (cli.c:300-320).
ListedIsFound ==
  walks => \A e \in Range(registry) :
    (\A i \in DOMAIN Pattern[e] : Pattern[e][i].kind = "word")
      => FindCli(registry, Pattern[e], 0) = e

=============================================================================
