----------------------------- MODULE MCConsole -----------------------------
(* Instances of Console for TLC: a command, one that it begins, and a pattern that covers both. *)
EXTENDS Console

MCWords == {"core", "show", "stop"}
MCRank == [w \in MCWords |-> CASE w = "core" -> 1 [] w = "show" -> 2 [] w = "stop" -> 3]
MCPattern == [e \in {"shows", "anys"} |->
  IF e = "shows" THEN <<Plain("core"), Plain("show")>>
  ELSE <<Plain("core"), Pat("any", <<>>)>>]
MCOffers == [e \in Entries |-> <<>>]
MCCommands == {<<"core", "show">>, <<"stop">>}
MCThreads == Slots \cup Registrars
MCPrefixes == {}

\* In turn: calls of the registry with one client who types; two clients who only come and
\* go, and are announced; more clients than slots at once; one client who types in a build whose
\* lists cannot be walked.
First == CHOOSE c \in Clients : TRUE
AllBut(S) == Clients \ S
MCInit ==
  \/ InitWith(0, AllBut({First}), {}, {}) /\ walks /\ ~verbose
  \/ InitWith(MaxRegs, {First}, {}, Clients) /\ walks /\ verbose
  \/ InitWith(MaxRegs, {}, Clients, Clients) /\ walks /\ ~verbose
  \/ InitWith(MaxRegs, AllBut({First}), {}, {}) /\ ~walks /\ ~verbose
MCSpec == MCInit /\ [][Next]_vars /\ Fairness

=============================================================================
