----------------------------- MODULE TestEngine -----------------------------
(***************************************************************************)
(* src/src/test_engine.c: tests are registered in a list sorted by         *)
(* category, and a run calls those it is asked for and counts the results. *)
(* The list's lock is held for the whole run, and for ever if no test ran. *)
(*                                                                         *)
(* A test's callback leaves the list alone; times and texts are left out.  *)
(* A definition that stands before another one and is used nowhere is that *)
(* other with a mistake in it.                                             *)
(***************************************************************************)
EXTENDS Integers, Sequences, SequencesExt, FiniteSets

CONSTANTS
  Threads,
  Tests,       \* callbacks, each with a name of its own, by which it is known here
  Names,       \* \subseteq Tests: those a run may be given
  Category,    \* by test: a path, as a sequence of words
  Rank,        \* by category: its place in the order of strings
  MaxTests,    \* bound: registrations in the list
  MaxCalls     \* bound: registrations and runs

VARIABLES
  list,        \* spd_test_list: the callbacks with their last results
  lock,        \* the recursive lock of the list: its owner, once for each time it was taken
  run,         \* the run: its thread, arguments, place in the list and whether a test ran
  results,     \* last_results
  report,      \* history: the list, the arguments, the places of the tests that were called
               \* and the results when the last run returned
  calls

vars == <<list, lock, run, results, report, calls>>

NotRun == "not run"   Pass == "pass"   Failed == "failed"
NoResults == [tests |-> 0, passed |-> 0, failed |-> 0, lastPassed |-> 0, lastFailed |-> 0]
Null == "null"   Empty == ""
NoRun == [by |-> {}, i |-> 0, category |-> <<>>, name |-> Null]
NoReport == [list |-> <<>>, category |-> <<>>, name |-> Null, ran |-> {}, results |-> NoResults]

Init ==
  /\ list = <<>> /\ lock = <<>> /\ run = NoRun
  /\ results = NoResults /\ report = NoReport /\ calls = 0

CanLock(t) == Range(lock) \subseteq {t}
Called == calls < MaxCalls /\ calls' = calls + 1

\* The callback has said what it is, and the memory was there.  The result is -1 all the
\* same.  A callback may be registered again.
RegisterUnlocked(t, cb) ==
  /\ run.by # {t} /\ Len(list) < MaxTests
  /\ LET less == SelectInSeq(list, LAMBDA x : Rank[Category[x.cb]] >= Rank[Category[cb]])
     IN  list' = InsertAt(list, IF less = 0 THEN Len(list) + 1 ELSE less,
                          [cb |-> cb, result |-> NotRun])
  /\ Called /\ UNCHANGED <<lock, run, results, report>>
Register(t, cb) ==
  /\ CanLock(t) /\ run.by # {t} /\ Len(list) < MaxTests
  /\ LET less == SelectInSeq(list, LAMBDA x : Rank[Category[x.cb]] >= Rank[Category[cb]])
     IN  list' = InsertAt(list, IF less = 0 THEN Len(list) + 1 ELSE less,
                          [cb |-> cb, result |-> NotRun])
  /\ Called /\ UNCHANGED <<lock, run, results, report>>

\* The first of that callback.
Unregister(t, cb) ==
  /\ CanLock(t) /\ run.by # {t}
  /\ LET i == SelectInSeq(list, LAMBDA x : x.cb = cb)
     IN  list' = IF i = 0 THEN list ELSE RemoveAt(list, i)
  /\ Called /\ UNCHANGED <<lock, run, results, report>>

\* A name without a category is ignored, and with one it is the category that counts; a
\* category without a name asks for a test of that category whose name is empty, which none is.
InCategory(cb) == IsPrefix(run.category, Category[cb])
Wanted(cb) == run.category = <<>> \/ (run.name \notin {Null, Empty} /\ InCategory(cb))

\* Each test of the category is then compared with a name that is not there, and there the
\* program ends.
Compares(cb) == run.category # <<>> /\ run.name = Null /\ InCategory(cb)

Run(t) ==
  /\ CanLock(t) /\ run.by = {}
  /\ lock' = Append(lock, t)
  /\ results' = NoResults
  /\ \E category \in {<<>>} \cup {SubSeq(Category[cb], 1, 1) : cb \in Tests},
        name \in {Null, Empty} \cup Names :
       run' = [by |-> {t}, i |-> 1, category |-> category, name |-> name]
  /\ Called /\ UNCHANGED <<list, report>>

One(b) == IF b THEN 1 ELSE 0

\* What the counters become when a test whose result is r has been looked at.
Counted(res, ran, r) ==
  [tests |-> res.tests + 1,
   passed |-> res.passed + One(r = Pass), failed |-> res.failed + One(r = Failed),
   lastPassed |-> res.lastPassed + One(ran /\ r = Pass),
   lastFailed |-> res.lastFailed + One(ran /\ r = Failed)]

\* A callback that says it did not run is set to failed: "=" stands for "==".
RunOne(t) ==
  /\ run.by = {t} /\ run.i <= Len(list) /\ ~Compares(list[run.i].cb)
  /\ \E r \in {NotRun, Pass, Failed} :
       LET want == Wanted(list[run.i].cb)
           got == IF ~want THEN list[run.i].result ELSE IF r = NotRun THEN Failed ELSE r
       IN  /\ list' = [list EXCEPT ![run.i].result = got]
           /\ results' = Counted(results, want, got)
  /\ run' = [run EXCEPT !.i = @ + 1]
  /\ UNCHANGED <<lock, report, calls>>

RunReturns(t) ==
  /\ run.by = {t} /\ run.i > Len(list)
  /\ lock' = IF results.lastPassed + results.lastFailed = 0 THEN lock ELSE Front(lock)
  /\ report' = [list |-> list, category |-> run.category, name |-> run.name, results |-> results,
                ran |-> {i \in DOMAIN list : Wanted(list[i].cb)}]
  /\ run' = NoRun
  /\ UNCHANGED <<list, results, calls>>

Next ==
  \/ \E t \in Threads, cb \in Tests : Register(t, cb) \/ Unregister(t, cb)
  \/ \E t \in Threads : Run(t) \/ RunOne(t) \/ RunReturns(t)

Spec == Init /\ [][Next]_vars

----------------------------------------------------------------------------
With(r) == {i \in DOMAIN report.list : report.list[i].result = r}

\* The numbers of a report are those of the tests in the list when the run returned, though
\* other threads register and unregister tests meanwhile, and of the tests it was asked for
\* those that passed or failed in this run; and the list stays sorted (test_engine.c:186-315).
TestsAddUp ==
  /\ report.results =
       [tests |-> Len(report.list),
        passed |-> Cardinality(With(Pass)), failed |-> Cardinality(With(Failed)),
        lastPassed |-> Cardinality(With(Pass) \cap report.ran),
        lastFailed |-> Cardinality(With(Failed) \cap report.ran)]
  /\ \A i \in 2 .. Len(list) : Rank[Category[list[i - 1].cb]] <= Rank[Category[list[i].cb]]

=============================================================================
