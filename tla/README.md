# A verification project for spider

spider (`src/`) is a toolkit in C: task queues, reference-counted objects and hash
containers, an embedded key-value store, a TCP engine, a command line with remote
consoles, a logger, a configuration reader, and the lists, strings and helpers they are
built from.  This directory models the program in TLA+, checks the models with TLC on
small instances, and proves with TLAPS, for every instance, what matters most about each
component that has a state of its own.

Run everything from this directory:

    tlc -workers 2 -config MCTaskQueue.cfg MCTaskQueue      # and so on, see "Runs"
    tlapm TaskQueueProofs.tla                               # and so on, see "Proofs"

## 1. Inventory

`src/src/Makefile.am` builds `spider.c threadprivdata.c utils.c strings.c logger.c
config.c thread.c socket.c poll.c tcp_engine.c str.c obj.c io.c taskqueue.c cli.c
internal_db.c test_engine.c`.  `scheduler.c`, `fsm.c`, `fdevent.c`, `tcpserver.c`,
`syslog.c`, `tinyhttp.c` and `tinyNet/` are not built (some do not compile), and `doc/`
is a collection of papers and standards.  Mutexes are recursive (`lock.h:55,190-201`);
the registry of commands, the log chains and the verbosers have read-write locks.

| component | state | operations | interacts with |
|---|---|---|---|
| **task queues** `taskqueue.c` | the registry `tps_singletons` (a container); per queue a list, its length, `poll_thread_run`, statistics, a worker thread | `spd_taskqueue_get`, `_unreference`, `_push`, the worker, the destructor | objects and containers; the handlers of its users |
| **objects, containers** `obj.c`, `obj.h` | a reference count and a lock by object; buckets of versioned entries, `version`, `elements`; iterators that remember bucket, version and entry | `obj_ref`, `obj_link`, `_unlink`, `_find`, `_callback` with flags, `obj_iterator_*` | every user of containers |
| **internal database** `internal_db.c` | one sqlite connection with prepared statements, `dblock`, `dbcond`, `doexit`, the thread `dbsync_thread` | put, get, del, deltree, gettree; begin, commit, rollback; init, uninit | sqlite; the file `/tmp/spddb.db` |
| **TCP engine** `tcp_engine.c` | a descriptor (`oldaddr`, `server_fd`, `master`), the accepting thread, a detached thread by session | server start, stop, accept loop; client create and start | the process's file descriptors, thread cancellation |
| **CLI** `cli.c` | a sorted list of entries with `inuse` counts | register, unregister, find, complete, execute | consoles call it, handlers call it back |
| **consoles** `spider.c` | `consoles[128]`, a listening socket, a pair of sockets by console | listener, console thread, fan-out of log lines | CLI, logger |
| **start of the program** `spider.c` | the paths of the socket and of the pid file | `main`: configuration, `spd_tryconn`, background, domain server, logger, loop; `spider -k` | other starts of the program |
| **logger** `logger.c` | list of log chains with masks, list of verbosers | `spd_log`, `spd_verbose`, (un)register, init | everybody; it calls the consoles |
| **configuration** `config.c`, `config.h` | lists of sections and variables with `last`, `current`, `last_browse`; list of engines | append, retrieve, update, delete, browse, load, save; engine register, deregister | files |
| **list macros** `linkedlist.h` | heads, links | insert, remove, append, the loop that removes | every component with a list |
| **test engine** `test_engine.c` | list of tests, totals | register, unregister, run | the tests |
| **growing strings** `threadprivdata.c`, `str.c`, `str.h` | text, `len`, `used`, `offset` | build, append, truncate, reset | consoles, test engine |
| **timed writes** `utils.c`, `poll.c` | the caller's time and bytes left | `spd_timeout_write`, `spd_timeoutf_write`, `spd_waitfor_pollout` | files that do not block |
| **addresses** `socket.c`, `socket.h` | `struct spd_sockaddr` | compare, map IPv6 to IPv4, ports, split host and port | TCP engine |
| **text, time** `strings.c`, `times.h`, `utils.c` | none of their own | strip, split, copy, join, colours, directories; sums and differences of times | everybody |
| **I/O contexts** `io.c` | arrays of poll records | add, change, remove, wait | nobody: a context cannot be created, see section 6 |
| **wrappers** `thread.c`, `lock.h`, `options.h` | none of their own | | everybody |

What is hard, and what makes each component correct:

* **task queues.**  Two critical sections per turn of the worker, a condition variable,
  and a destructor that joins the worker under the registry's lock while its handler may
  call the API.  Correct means: FIFO execution, at most once; no lost wakeup; a task is
  purged only after the last reference has gone; nobody can reach a freed queue; one
  queue per name; destruction ends.
* **objects, containers.**  Iterators walk without the lock and rely on versions that
  increase along a bucket; flags of a callback decide what becomes of a reference.
  Correct means: reference counts are exact, nothing freed is reachable, and the promise
  of `obj.h:654-663` on what an iteration may miss or repeat.
* **internal database.**  Writes go into a transaction that a thread commits once a
  second and on a signal that may find nobody.  Correct means: the file is a prefix of
  the accepted writes whatever fails, what was committed stays, writes are eventually
  committed, and exit returns.
* **TCP engine.**  A thread is cancelled while it holds connections, and numbers of
  files are reused at once.  Correct means: nobody closes or polls another's file, no
  connection is left to nobody, a call returns, who waits is served.
* **CLI and consoles.**  An entry may be unregistered while a console looks it up; slots
  are filled by one thread, emptied by another and read by every thread that logs,
  without a lock.  Correct means: an executed command is counted and listed; files and
  slots have one owner; a line goes to the console it is meant for; a client who hangs up
  gives his slot back.
* **start of the program.**  Nothing keeps a second start from taking the socket and the
  pid file of the first.  Correct means: the last start serves, one of several that race
  serves, and `-k` signals no process but the start that wrote the number, while that lives.
* **logger.**  Threads, a signal handler and the start of the logger share the chains.
  Correct means: a line is on every chain that takes its level and on no other, once, and
  whole unless a part of it could not be made or written.
* **configuration, lists.**  Pointers to the last, current and last used elements must
  survive each removal and insertion.  Correct means: they implement sequences; what is
  saved can be read again; a crash leaves a file.
* **the rest.**  Boundaries: a string that must grow while it is written, a time that
  runs out, a buffer that is full, a comment in a comment.

`PROJECT.json` lists the hazards one by one, each at its line, with the properties that
cover it.

## 2. Modules

| module | models | lines of the code |
|---|---|---|
| `TaskQueueSpec` | what a task queue promises, without locks or threads | `taskqueue.h:15-34` |
| `TaskQueue` | the implementation | `taskqueue.c` |
| `MCTaskQueue` | symmetry for TLC | |
| `TaskQueueProofs` | theorems about `TaskQueue`: its worker and list, its reference counts, registry and destruction, and that it implements `TaskQueueSpec` | |
| `ObjContainer` | objects, container, iterators | `obj.c`, `obj.h` |
| `MCObjContainer` | hash functions and symmetry | |
| `ObjContainerProofs` | theorems about `ObjContainer` | |
| `InternalDb` | database, its thread, its end | `internal_db.c` |
| `InternalDbProofs` | theorems about it | |
| `TcpServer` | server side of the TCP engine | `tcp_engine.c` |
| `TcpServerProofs` | theorems about it | |
| `CliMatch` | splitting, finding, ordering, completing: functions | `cli.c` |
| `Cli` | the registry while threads execute, register and unregister; extends `CliMatch` | `cli.c` |
| `Console` | listener, slots, console threads, fan-out; extends `Cli` | `spider.c` |
| `MCConsole` | commands and initial states for TLC | |
| `ConsoleProofs` | theorems about `CliMatch`, `Cli` and `Console` | |
| `Sections` | what a configuration promises: a sequence of sections | `config.c`, as its callers see it |
| `Config` | the lists in memory, reading and saving; refines `Sections` | `config.c` |
| `ConfigSave` | a save as what it does to the directory | `config.c` |
| `Engines` | the list of configuration engines | `config.c` |
| `Lists` | what the list macros promise | `linkedlist.h` |
| `LinkedList` | heads, links and the loop; refines `Lists` | `linkedlist.h` |
| `Logger` | chains, verbosers, threads that log | `logger.c` |
| `TestEngine` | list of tests, runs, reports | `test_engine.c` |
| `DynStr` | growing strings | `threadprivdata.c`, `str.c`, `str.h` |
| `TimedWrite` | timed writes over poll | `utils.c`, `poll.c` |
| `TcpClient` | client side of the TCP engine | `tcp_engine.c` |
| `Startup` | starts of the program | `spider.c` |
| `Text`, `CliWords`, `Addresses`, `Clock` | functions on characters, on words typed, on addresses and on times, each tried against what it is for | `config.c`, `socket.c`, `strings.c`, `utils.c`, `cli.c`, `times.h` |
| `Basics` | lemmas about numbers and sequences that the proofs share | |
| `MCLibraries` | instances of the components from `Config` on, which share nothing | |
| `PartProofs` | theorems about `Logger`, `LinkedList` and `TestEngine`, each by itself | |
| `LibraryProofs` | theorems about the components of `MCLibraries` | |

In each module a definition that nothing uses and that stands just before another one is
that other with a mistake (a dropped guard, a missing reset, a swapped order).  The
properties are tried against these mistakes: for each property that holds there is one with
which it fails.

**Grain.**  A critical section that cannot block is one action, because every access to
the data it protects is under the same lock.  Where a lock is kept across a blocking call
(the registry's lock across `pthread_join`, the chains' lock across the writes of a line)
or is not taken at all (`obj_link`, the slots of the consoles), the lock is a variable or
the operation is cut into its steps.

**Composition.**  `Console` extends `Cli`, which extends `CliMatch`: a console's thread
takes the steps of the registry as a caller of it.  `MCLibraries` has one initial state
for each component that shares no state with the others; the variable `of` says whose
steps a behaviour takes, and the properties are those of that component.

### TaskQueue

The variables carry the names of the struct's fields where they have one: `run` is
`poll_thread_run`, `queue` and `size` are `tps_queue` and `tps_queue_size`, `processed`
and `maxq` the statistics, `linked` and `owner` the registry and the owner of its lock;
`refs` the counter in the object header.  `wpc`, `wtask`, `wsize` are the worker's place
and local variables, `pc`, `arg`, `hand` those of API calls.

Actions: `GetCall`, `GetFound`, `GetNothing`, `GetCreated`, `GetNoStats`, `GetNotLinked`
(`spd_taskqueue_get` and its failures); `UnreferenceCall`, `UnreferenceKeep`,
`UnreferenceLast`, `DestroyStop`, `DestroyFree`; `PushAlloc`, `PushInsert`; and the
worker's `WorkLoop`, `WorkLock`, `WorkAwake`, `WorkPop`, `WorkPopNothing`,
`WorkExecuted`, `WorkStats`, `WorkPurge`, `WorkEnd`.  A handler is whatever
`HandlerCalls` allows it to call: pushes (`"push"`), the registry (`"registry"`), its own
queue's destruction (`"self"`).  `Faults` says which failures may happen.

The module appears to its users as `TaskQueueSpec` under the mapping `Promise`: a queue
is absent while its object is unused, open while `poll_thread_run` is set, closed after.
`KeepsPromise` is that refinement, checked by TLC and proved.

The code says of the purge that waiting tasks are purged without being processed
(`taskqueue.h:31-33`).  `TaskQueueSpec` states what the code keeps: at most one more.

Two things the model keeps because the code does them: `spd_pthread_create` is tested for
`< 0` though errors are positive (a queue without a worker, the fault `"thread"`), and an
object whose second link fails lives on unregistered (the fault `"relink"`), after which
a second queue of its name can be made; `SingletonPerName` is checked without that fault.
A handler that drops the last reference of its own queue would join itself; `"self"` is
therefore not in any passing run.  `max_qsize` (described at `taskqueue.c:42` as a
maximum) is modelled as the code computes it.

### ObjContainer

An entry is a record of version and object; a bucket is a sequence of entries.  `it` is
the iterator's struct, `cur` the object it returned last, `multi` the result of a callback
with `OBJ_MULTIPLE`.  `LinkVersion`, `LinkInsert`, `LinkRef` are the three steps of
`obj_link`, which never locks (`!flags & OBJ_NOLOCK` is 0).  `CallerLocks` says whether
its callers lock the container around it, as `taskqueue.c` does.  If they do not, the
insertion is a data race as well; the model then keeps only outcomes in which the list
stays intact.  `Without` is what a traversal that takes out some entries leaves of a bucket,
`Found` what one that collects finds, `FirstOf` the entry a search stops at.

`life` is that of the container itself.  `DestroyContainer` is its destructor, which
empties the buckets and drops the references; it runs when the last reference on the
container goes.  `obj_iterator_destory` drops a reference on the iterator and not on the
container, against `obj.h:783`, so that a container once iterated is `"pinned"` and never
destroyed; it also writes through a pointer that `spd_safe_free` has cleared when the
iterator was allocated.  `IterDestroy` and `MultiDestroy` model the effects on the objects.
Not modelled: `OBJ_CONTINUE`, which no caller uses; wrap-around of the version.

### InternalDb

`mem` is what the connection sees, `disk` what the file has, `txn` whether a transaction
is open, `ready` which statements are prepared; `spc` is the place of
`dbsync_thread_loop`, `upc` that of the program between `spddb_init` and the end of the
process.  The history `log` holds the writes accepted and not yet lost; `synced` says how
many of them are in the file.  sqlite is external: inside a transaction, writes reach
`mem`, COMMIT copies it, ROLLBACK and the end of the process undo it; outside, each
statement is its own transaction.  A spurious wakeup of the condition variable is a step
of its own (`SyncSpurious`).

`SpddbInit` may fail at the database, the table, a statement or the thread.
`SpddbInitAgain` is a second call: it finds the connection open, creates no table,
prepares nothing and succeeds if it can start the thread, so that later writes may find no
statement and change nothing.

What the properties say exactly: `FileIsPrefix`, that failures undo a suffix of the
accepted writes.  `InStep` joins the type of the variables, the pairing of BEGIN with
COMMIT or ROLLBACK, and that the only writes a waiting thread leaves uncommitted are those
made while it slept, whose signal found nobody.  `NothingForgotten` says that a write
settles, that is, comes into the file or is undone by a ROLLBACK or the end of the process,
with the premise that the thread does not wait for ever (somebody writes again), and that `spddb_uninit` returns, with the premise that the thread has come to its first
wait: if `doexit` is set and signalled before, `pthread_join` may wait for ever.

`GetTree` is the set of results `spd_db_gettree` may have.

### TcpServer, TcpClient

The table of files is explicit in both: a system call gives out the lowest free number,
and the rest of the program opens and closes files too, so that a number closed too early
soon means something else.  `strange` records that somebody closed a number that was not
his file.  The accepting thread is cancelled only where POSIX has a cancellation point: in
`poll`, in `accept`, and where it logs and closes a connection it could make no session
for; not between a successful accept and the new thread.

Calls with a descriptor left over from a start that shut a server down and started no
other are excluded (`Usable`): `master` then names a thread that has been joined, and
`server_fd` perhaps a closed number, and cancelling or joining it again is undefined.
This is a hazard of the code, listed as such.

`OwnFilesOnly` joins the type, that no number of another is closed, and that the accepting
thread accepts on its own socket.  `ConnectionsHeld`: an accepted connection has exactly
one thread that knows its number, cancellation or not, except for those it could make no
session for.

`TcpClient` has one descriptor and one session at a time, as an application uses it.
`client_create` closes the number in `server_fd` when it makes another session, although
the session's owner has closed it already, or `fdopen`'s failure path has; the history
`behind` marks those cases, and `ClientsKeepTheirs` says that there are no others.  A
client that could not connect keeps `oldaddr` and is refused the next time
(`tcp_engine.c:40`).  `StreamFails` is the failure of `fdopen`.  The failure of
`setvbuf` (line 110), after which the code closes the number twice, is not modelled: on an
open stream and without a buffer the call has nothing to fail at.

### CliMatch, Cli, CliWords

A registry is a sequence of entries; a pattern is a sequence of words, alternatives
(`{a|b}`), options (`[a|b]`) and `%`.  `FindCli` is `find_cli` with its modes, `Insert`
the order in which `__spd_cli_register` keeps the list, `Complete` the offers of
`spd_cli_generator`, `ParseArgs` the splitting of a line.  `CliWords` tries them:
what completion offers are just the continuations of some registered command, with the
exceptions the code makes (a handler's own offers are not counted, `cli.c:573`, and an
optional last word is completed though it was not typed last, `cli.c:558`), and
`parse_args` takes a quoted line apart, up to its limit, where the last argument is cut.

`Cli` has the registry's lock.  `__spd_cli_register` returns without unlocking when it
succeeds (`cli.c:334`): the thread keeps the lock for writing, nobody else can execute a
command, until a later call of that thread unlocks it.  `Unregister` tests `inuse` before
it takes the lock (`cli.c:260`); `late` marks the consoles that find the entry in between,
and `HandlersCounted` says that no other executes an unlisted entry.  An unknown command
goes to `find_best`, which follows a pointer as a string: the process may end (`Unknown`).
`cli_next` has no return statement; `walks` says whether the build returns the element all
the same.  `TakeOut` is `SPD_LIST_REMOVE`, which unlinks the first element it finds.

### Console

`con` is `consoles[]` (`fd` and the pair `p`), `serve` the threads of the consoles,
`listen` the listener, `fan` each thread's place in the fan-out of a line.  The listener
scans for a slot with `fd < 0`, makes the pair, takes the slot and starts the thread, each
in a step of its own, with the failures of accept, socketpair and thread creation; the
thread greets, polls, reads, executes, forwards; at the end it announces, then closes
`fd`, `p[0]`, `p[1]` and clears `fd` last (`spider.c:445-448`).  A line is written to a
slot in two steps, a test of `fd` and a write to `p[1]`, without a lock.  SIGPIPE ends the
process (`dead`).  The table of files is as in `TcpServer`.

`LinesStayHome` has the exception the code deserves: a line may go to another's file
only if the console it was meant for is being closed.  `SlotReturned` has the premise that
nobody keeps the registry locked for ever.

### Sections, Config, ConfigSave, Engines

`Sections` is the sequence of sections with their variables that a user of `config.h`
thinks of.  `Config` has cells with next pointers, `root`, `last`, `current` and
`last_browse`, and refines it (`SectionsKept`).  What a user can notice besides is in the
record: variables added by `spd_variable_update` do not move `category->last` and are cut
off by the next append (`config.c:478`), counted as `loose`.  A file is a sequence of
lines; a header may have the options `!`, `+` and a base to inherit from.  `SeenAndSaved`:
browsing shows each section that is no template; a save that is loaded again gives the
same contents, and the same answers about options.  `Retrieve` gives what
`spd_variable_retrive` returns: given a section, it is the variable's name (`config.c:197`),
where `config.h:153` and `config.h:219` promise its value.  The property says nothing of
which of the two it is.

`ConfigSave` is the order of the system calls of `config_text_file_save`, each of which may
fail or be the last before a crash.  `FileSurvives` excepts two losses the code does not
guard against: a failing `link` after the `unlink`, and a full disk.

`Engines`: an engine that is taken out keeps its next pointer; registered again it drags
what followed it, and the list leads back into itself (`dragged`).  `EnginesListed` says
that nothing else breaks the list or keeps `config_lock`.  Since `append_mapping` has no
caller, a load finds no engine.

### Lists, LinkedList

`LinkedList` has the macros of `linkedlist.h` with their pointers; `iter` holds
`__list_prev`, `__new_prev` and `__list_next` of the safe loop.  `ListsAreSequences` is
the refinement of `Lists`: lists are sequences and the loop visits what was there when it
began, once and in order, whatever it removes or inserts at its place.  It also says that
the last entry of a head is the last of its list (`LastIsLast`) and that an entry put in by
its rank goes behind the lesser ones at the front (`SortsIn`), which a step of `Lists` alone,
with its entries put in anywhere, would not show.

### Logger, TestEngine

A call of `spd_log` or `spd_verbose` is a stack of frames by thread, since SIGINT and
SIGTERM interrupt a thread anywhere and their handler logs (`spider.c:585`).  A line is
a header and a text, two writes under the chains' lock.  Either may be lost: what `fputs`
and `fflush` return is not looked at (`logger.c:328-356`), and the text may not be made for
want of memory.  `cut` has, for each line, the chains on which a part of it was lost.  A
failed text takes the call's buffer away (`"gone"`); the next chain that takes the line
would use it, for which there is no step, as that ends the program.  A line without any
buffer is `"lost"`.

`LinesDelivered` says that what is on the chains is whole but for the lost parts, each line
once and only where it belongs.  It excepts behaviours in which the handler interrupted a
thread that was writing: the chains' lock is a read-write lock whose owner, asking again, is
told so (EDEADLK, which is not looked at) and goes on, so that the line comes in between, and
the handler's unlock gives the lock away.  Levels' numbers are used as bits
(`logger.c:228`), which `DefaultMark` keeps.

`TestEngine` has the recursive lock of the list as a sequence of its owner: a run that
called no test returns with the lock taken (`test_engine.c:300-302`).  The arguments of a
run are a category and a name, either of which may be missing, as `test_engine.h:70-73`
allows.  A name without a category is ignored, so that every test runs; with both, it is the
category that counts, since the modes are swapped (`test_engine.c:245-251`); with a category
alone the run compares each test of it with a name that is NULL.  That is undefined: there
`Compares` holds and the run has no further step, with the list locked.  `=` for `==` at 282
makes every result but a pass a failure.

### DynStr, TimedWrite

A text is a sequence of marks, one for each character, and a buffer of `len` holds `len - 1`.
The helper of `spd_dynamic_str` ends without a return, and where it cannot grow, `len`
says more than the memory it has, after which the string is used no more (`Usable`).

`spd_str_make_space` has its test inverted (`str.h:202`): it makes no space and says that it
is done.  `spd_str`'s helper then goes on for ever (`"loops"`).  The one that copies a part of
a text (`str.c:84-124`) takes the answer for an extension, and copies on past the end of the
buffer (`"overrun"`), where its comment at 113 says that it ends the buffer; a limit ends
it only while it is more than three from the end.  `spd_str_truncate` to a length past the
buffer writes there too.  After either the string has no further step, as the memory of
others is gone; neither is guarded away.  A part set in a string that had another leaves
`used` too large, until a reset, an update or a truncation.

`StringsKept` says what holds of the calls before: a text is what was printed, cut at the
buffer's end or a limit only, and within the memory; nothing appended covers what there was.

`TimedWrite` has a clock finer than milliseconds, an interrupted poll that is called again
for the rest of the time, and writes that take a part.  The time that has passed is rounded
down twice, in the call and in the poll, so that the loop may end almost two milliseconds
late.  `spd_timeoutf_write` never counts what `fwrite` took.  After its loop it calls `fflush`
again and again as long as that fails with EAGAIN or EINTR (`utils.c:286-298`), whatever the
time: `FlushAgain`, which only the model's `FlushTicks` bounds.  The call may therefore last
for any time, against `utils.h:226`; `WriteSettles` bounds the loop of both calls, and the
whole of `spd_timeout_write` only.

### Startup

Each start is a process that goes through `main`: fork, pid file (unlink, open, write),
socket (unlink, bind, listen), loop.  `spd_tryconn` never sets `sun_family` and its result
is ignored, so that every start takes the path from the one that has it.  A process may
die at any moment and leaves its files.

Processes have numbers (`Pids`), which the system gives out again once a process has ended,
to a start or to a process of another program (`others`).  A file has the number that was
written last into it, and the history `author` knows by whom.  `spider -k` (`Kill`) signals
whatever process has that number now; a start only logs it, another program may end.
`missed` has the starts in whose place another process was signalled.  `StartsServe` says
what users can rely on nevertheless: a start that began alone last serves, and is reached by
`-k`, which then reaches nobody else (`LatestServes`); of those that race one serves
(`SomeoneServes`); and `-k` goes wrong only after the start that wrote the number has ended
(`OthersOnlyAfterDeath`), since nobody takes its number out of the file.

### Text, Addresses, Clock

Operators on short sequences of characters, on addresses and on times, each stated as the
code computes it and compared with a definition of what it is for: the comments of a
configuration file with their nesting (a stray `--;` makes it negative, `;----;` opens
none), host and port, stripping, quoting, copying, joining, colours, directories;
comparisons of addresses and the forms of IPv4 in IPv6; sums and differences of times.
Numbers keep their width where the code loses it: `spd_sockaddr_get_port` returns an
`unsigned char` (`socket.c:422`), against `socket.h:342-343`, so that a port of more than a
byte is cut; `ValuesAgree` is about those that fit.

## 3. Runs

| run | configuration | result |
|---|---|---|
| `taskqueue_safety` | `MCTaskQueue.cfg` | all eight properties hold, with every fault |
| `taskqueue_liveness` | `MCTaskQueueLive.cfg` | every task settles, destruction ends, one queue per name |
| `taskqueue_purge` | `MCTaskQueuePurge.cfg` | **violated**: a task executed after the last reference went |
| `taskqueue_handler_deadlock` | `MCTaskQueueHandler.cfg` | **violated**: a handler that needs the registry blocks the destruction for ever |
| `container_iteration` | `MCObjContainer.cfg` | holds when callers lock around `obj_link` |
| `container_unlocked_link` | `MCObjContainerUnlocked.cfg` | **violated**: without it, an iterator misses an entry |
| `db_batches` | `MCInternalDb.cfg` | holds, with every fault |
| `db_gettree` | `MCInternalDbTree.cfg` | **violated**: the tree of a family is empty |
| `tcp_server` | `MCTcpServer.cfg` | holds, with every fault |
| `tcp_server_restart` | `MCTcpServerRestart.cfg` | **violated**: stopped and started again with the same address, nothing listens |
| `consoles` | `MCConsole.cfg` | files, slots, lines, commands and slots' return hold, with every failure |
| `libraries` | `MCLibraries.cfg` | each component that shares nothing with the others keeps its property; what is typed, compared and converted comes out as it was meant |

The five violated properties state what a comment of the code promises; `PROJECT.json`
quotes each.  Elsewhere the models keep to the code where it differs from its headers, and
the properties leave out what does not hold: options (`config.h:153`), the time of a write to
a stream (`utils.h:226`), parts of a text at the end of a buffer (`str.c:113`), a test run by
its name (`test_engine.h:70`), ports (`socket.h:342`).  Section 2 says how.

### Bounds

* Task queues: three threads that call the API (two for liveness) and two objects of one name, so that a
  queue is destroyed while another thread makes, shares or fills its successor; two tasks
  are enough for an order and for one to wait while the other runs.  References are
  counted, never compared with a limit, so more holders add no new case.
* Containers: two threads, one of which iterates, and two objects in two buckets.  Six
  versions are enough to link both objects, remove one before, at and behind the
  iterator, and link it again.  The violation needs one bucket.
* Database: two families of one key (`deltree` of one, of a family and of everything
  differ), three writes, so that a batch can hold two and a third come after it, two runs
  of the program.
* TCP server: two addresses and the null address, three calls (start, restart, stop), two
  connections, three numbers: the socket and two connections fill the table, so that
  accept fails for want of a number.
* Consoles: two slots and three clients, seven numbers, which is one more than two
  consoles need.  Everything at once is too much for TLC; the four initial states of
  `MCConsole` take in turn: calls of the registry with a client who types; two clients who
  come and go and are announced; more clients than slots; a build in which the registry
  cannot be walked.  Two entries, a command and a pattern that covers it; three calls of
  the registry.
* Configuration: up to three sections and four variables, four calls on an empty
  configuration, two on one from a file with a section and a template: enough for an update,
  an append that cuts it off and what is seen afterwards, and for a deletion of the first,
  the middle and the last.
* Lists: four entries in two lists, two of which sort alike.
* Logger: two threads, a verboser, three chains (file, console, syslog), two lines of two
  levels, of which any part may be lost.  Test engine: three tests in two categories and a
  subcategory, runs with and without a category and a name, four calls.
* Growing strings: a buffer of eight; three calls with texts of 0, 1, 3 and 8 characters and
  limits of none, 3, 9 and the buffer's size: each text fits, fits just not, or comes past the
  end after another.  Timed writes: two bytes in three milliseconds of three ticks, and four
  ticks of waiting for a stream (`FlushTicks`).
* Engines: three engines, two threads, five calls: an engine taken out from the middle,
  registered again, and what the next caller meets.
* TCP client: two peers, three numbers, three sessions.  Starts: two, with all failures
  and three numbers of processes, so that a number can go to the other start or to another
  program's process while the third is taken.
* Text, words, addresses, times: strings of up to two letters and a few marks, nesting to
  three, lines of two words, bytes of two bits, a second of nine microseconds: each
  function has its boundary inside.

`MaxWrites`, `MaxStarts`, `MaxCalls`, `MaxVersion`, `MaxRegs`, `MaxOps`, `MaxLines`, `MaxTests`,
`MaxTestCalls`, `MaxStrCalls`, `MaxEngineCalls`, `MaxSockets`, `FlushTicks` and the sets `Tasks`,
`Clients`, `Starts` bound histories only; the guards that use them stop the clients, never
the component's own threads.  `MaxSections`, `MaxVariables` bound memory.  Deadlock is not
checked: when the bounds are used up, nothing is left to do; that the threads get there is
what the liveness properties say.

### Fairness

Weak fairness on each thread's own steps: the system schedules every thread that can run,
and no critical section blocks.  It is not assumed that anybody calls the API, writes to
the database, connects, types, hangs up or finishes a session, that a wakeup comes without
a signal, or that a contended mutex is handed over in order.  A sleep ends and a `poll`
returns when something is ready.

## 4. Proofs

Every theorem holds for all values of the constants that satisfy the assumption of its
module (`ConstantsAssumption`; `PatternsAssumption`, `CliAssumption` and
`ConsoleAssumption` for the consoles; for `MCLibraries` that times, lengths and numbers
are natural numbers, that the values standing for nothing are none of the rest, and that
engines and the entries of lists are finitely many), and for behaviours of any length.  Some theorems have
a further hypothesis, named below.  Each
proof rests on an inductive invariant, a conjunction of named parts, which TLC checked on
the runs' instances before it was proved; there is a lemma for each action, or for a group
of actions that disturb the invariant alike.

**`TaskQueueProofs`** (`TypeCorrect`, `NoWakeupIsLost`, `PopFindsTask`, `FifoOrder`), for any
`Faults` and `HandlerCalls`.  The hazards are the worker that has read a depth of zero and
is about to wait, and the depth that is read in one critical section and relied on in the
next.  The invariant is `TypeOK` and `CallsOK`, a call in progress has arguments its path
uses; `SizeIsLength`, without which a depth of zero would not mean an empty list;
`WaitsOnEmpty`; and `PurgesLast`: tasks are purged only once the worker executes no more.
Without the last `TasksInOrder` is not inductive, as a task popped after a purge would not
be the next in the order of acceptance.

**`TaskQueueProofs`**, also (`ReferencesAreCounted`, `PurgesOnlyUnreferenced`,
`FreedIsNeverReached`, `OneQueuePerName`).  `RefInv` says who has the references
(`ReferencesCounted`), that a queue not yet allocated has none (`UnusedUntouched`), that
callers hold what they are called with (`CallersHold`), that the destructor runs once
(`DestroyedOnce`), and what a queue that is being destroyed has left (`StoppedIsGivenUp`,
`WorkersCall`, `DoneIsEmpty`).  `FreedIsNeverReached` assumes that handlers do not drop the
last reference on their own queue (`"self" \notin HandlerCalls`): one that does is the
deadlock of the run `taskqueue_handler`.  `OneQueuePerName` assumes that no memory is
missing at the wrong time (`"relink" \notin Faults`).

**`TaskQueueProofs`**, `PromiseKept`: `TaskQueue` implements `TaskQueueSpec`, step by
step, under the refinement mapping the module states.  `PromiseInv` adds that a task comes
late only at the end of a list, and that a task just created is in none.

**`ObjContainerProofs`**, if `CallerLocks`, that is, if the callers of `obj_link` lock the
container; without it the run `container_unlocked_link` has the counterexample.

* `OrderInv` is for `VersionsAlwaysIncrease` (which no run states, since `EachOnce` and the
  iterators rest on it), `EachOnceAlways`, `PointerAlwaysLive`.  Versions
  increase along a bucket because who links has the lock (`LinkersLock`) and a version once
  taken is newer than all that is there (`Newest`).  An iterator misses nothing because it
  has seen, or is excused from, all entries behind it and none before it (`SeenBehind`);
  `NextEntry` is proved to be the least entry not behind the iterator (`NextIs`).
* `RefInv` is for `ReferencesAlwaysExact` and `FreedNeverReachable`: the references on each
  object (`References`) are those of its holders, of the iterators that stand on it, of the
  places of results and of the entries, less the links that have not come to their
  reference.  That a count never goes below zero needs `LinkedIsThere`: such a link has its
  entry in the container.  That no freed object is found again needs `ArgsAreHeld`, who links
  an object holds it, and `DeadIsAway`, which follows from the sum: without references there
  is nobody to come upon the object.

Traversals are recursive functions.  That they have values at all, and what `Without` and
`Found` return, is proved by the least number for which it would fail (`LeastNumber` and
`JoinedIs` in `Basics`), since the library's induction theorems cannot be used.

**`InternalDbProofs`** (`FileIsPrefixAlways`, `InStepAlways`, `CommittedStaysAlways`).  The file
is what a prefix of the operations makes of it: `TransactionsPaired` (begin and commit
alternate), `NothingOpen`, `DownIsIdle` and `LeftIsAsleep`, what the committing thread may be
doing when the database is closed and when it has left.

**`TcpServerProofs`** (`OwnFilesOnlyAlways`, `ConnectionsHeldAlways`).  A descriptor is a number,
which the system gives out again as soon as it is closed.  `NoStrangerClosed`, that nobody
closes one of another, follows from whose it is at each moment: the accepting thread's
(`ThreadHasSocket`, `SocketIsOurs`), a session's in progress (`HandsAreOurs`), each of one
owner (`OneNumber`), with one thread for a session (`OneSession`).

**`ConsoleProofs`** has three results.

* `HandlersAreCounted` and `ListedAlwaysFound`, from `RegistryInv`: entries in use are counted
  by the calls in progress, those late are known, and the list is in order (`InOrder`).  The
  order of commands is transitive, and a command that covers another begins with its words and
  comes after it; so the search that stops at the first match finds every command that is
  listed.
* `FilesAlwaysOwned`, from `ConInv`: the file of a console is the one its holder knows, whether
  the listener, a console thread or the list of consoles.
* `LinesAlwaysStayHome`: a line goes to a descriptor of a console that has asked for it and has
  not been given to another since (`LinesAimed`, `AimKept`).

**`LibraryProofs`** is about behaviours of `MCSpec`, whose steps are those of one component
at a time.  The constants of the components are arbitrary; the tables that `MCLibraries`
defines (the categories of three tests, the sections of logger.conf) are as they stand there.

* `FileAlwaysSurvives`: `SaveInv` says at each place of a save what the file, the temporary
  file and the user's old text may be.
* `WriteAlwaysSettles`: `WriteInv` bounds the clock by what the call and the poll have yet to
  wait (`ClockBounded`); two roundings down are less than two milliseconds.  For a stream the
  bound is on when it is first asked to write out (`flushStart`), as the call has none.
* `ClientsAlwaysKeepTheirs`: of the client's sockets only the last is open, and under the number
  in `server_fd`, unless it was closed behind the client's back (`ClientInv`).
* `StringsAlwaysKept`: the text is a prefix of what was printed and fits its buffer, and the
  memory is as large as `len` says unless the string is one that is used no more (`StrInv`).
  Every call is allowed in every state a string can be used in; that one has looped or has
  written past the buffer is in its `state`, and the property ends there.
* `StartsAlwaysServe`: the path is with the start that bound it last, and while one start is
  alone no other disturbs it (`PathTaken`, `AloneUndisturbed`); the numbers of living processes
  differ (`NumbersDiffer`), and what is in a file is the number of the start that wrote it
  (`NumbersWritten`), which is that of another process only if this start has ended.
* `EnginesAlwaysListed`: `Linked` says that the links lead through the engines registered, each
  once, and end.  That the list has one walk only is proved by the least place at which a walk
  and the sequence differ.  None of this is inductive once an engine was registered again that
  still led on to another (`dragged`), which is the exception `EnginesListed` makes.
* `LinesAlwaysDelivered`: the theorem of `PartProofs` about the logger, for the logger.conf of
  `MCLibraries` and for none; it takes what is proved there of every value of `Confs` through an
  instance.
* `TestsAlwaysAddUp` and `ListsAlwaysSequences`: the theorems of `PartProofs` about the test
  engine and the linked lists, through the same instance.

**`PartProofs`** has the three longest proofs of these, apart from the other components, so that
each step has few variables and definitions about it.

* `LinesAlwaysArrive`, for any logger.conf whose sections are numbered by their lines
  (`ConfsNumbered`).  The hazard is that a line is written to many chains in two parts each while
  other threads log, verbosers come and go and handlers interrupt.  The invariant `LogStrong`
  holds as long as no handler has interrupted a thread that was writing: the place a call has
  come to says which chains have its line, which do not yet and which has half of it
  (`OnChains`); a chain behind that place has the line once and whole, or one part of it at most
  if the other was lost (`Settled`), and the one at that place has the header unless that was
  lost (`Half`); only the thread that has the lock is between a header and its text (`Position`,
  `WholeMark`), so that no other's mark comes between; a line is in one call at most
  (`OneFrame`); and a line has been heard by the verbosers before the one its call has come to
  (`HeardBy`).
* `ListsStaySequences`, for any heads, any ranks and any finite set of entries (`LinksKnown`).
  The hazard is a macro that changes a list while a loop stands in it with pointers it has read
  before.  The invariant `LinkInv` says that there are sequences, one for each head, with each
  entry once and in one of them only, along which the pointers lead from `first` to `last` and
  end, and that an entry in none of them points nowhere (`Leads`); and that the loop is at a
  place of its list, standing on its entry or just behind the one it has taken out (`IterAt`).
  What is not said in a macro's code, that an entry put in is in no list, is what `Leads` needs
  of the callers.  `WalkIs` shows that following the pointers gives that sequence and no other,
  by the least place at which they would differ; `PutsAt`, `TakesAt` and `MovesAt` are what it
  is to put an entry into such a list, to take one out and to put a whole list into another, and
  each macro is one of them.
* `ReportsAddUp`, for any tests, names and threads and any order of categories (`RanksKnown`).
  The hazard is a run that calls tests and adds up entry by entry while others register and
  unregister.  The invariant `TestInv` says that the counters are those of the entries looked at
  so far (`RunAdds`), that the runner has the lock, so that nobody changes the list meanwhile
  (`RunLocked`), that the last report was right (`ReportAdds`), and that an insertion keeps the
  list sorted (`Sorted`).

Only model-checked:

* every liveness property: they need ENABLED and fairness, which TLAPS 1.4.5 has not;
* the refinement `SectionsKept`, and `SeenAndSaved`: the functions they are about are recursive
  over data, and what such a function computes for every input needs induction over it;
* `LinesAgree`, for the same reason, and `ValuesAgree`: they compare functions of an input with
  what they are for, and nothing in them moves.

## 5. Plan

The model is complete as planned: every component of the build that keeps state and can
run has its module.  What is left is to prove more where TLC alone speaks: the refinement of
`Sections`, whose mapping follows the pointers of sections and of the variables in each.

## 6. Not modelled

* `io.c`: `spd_io_context_create` has `if(...);` before `return NULL` (line 50), so that
  no context ever exists; nothing calls it.
* `scheduler.c`, `fsm.c`, `fdevent.c`, `tcpserver.c`, `syslog.c`, `tinyhttp.c`,
  `tinyNet/`, `tests/`: not in the build, and some do not compile.
* What no code reaches: `OBJ_CONTINUE`, `append_mapping`, the functions to run at exit
  (registered by nobody, run by nobody), the binary search and the sort of `spider.c`.
* `#include` in a configuration is parsed and ignored, since its call is commented out.
* The rotation of log files after SIGXFSZ, which calls itself without end
  (`logger.c:361`); no signal of that kind comes.
* Undefined behaviour that would make every later state arbitrary: a handler that destroys
  its own queue (`taskqueue.c:331`), a second join of the same thread
  (`tcp_engine.c:254`), reading a file into a section that was freed (`config.c:501`).  The
  models let nobody do these things; the hazards are listed.  In three places the models go
  up to it and stop there: a test compared with a name that is NULL (`test_engine.c:265`), a
  part or a truncation that writes past the end of a string (`str.c:94-124`, `str.h:183`), and a
  log line whose buffer is gone (`logger.c:330`).
* The pointers `spd_sockaddr_cmp_addr` leaves uninitialised for IPv6, and the text that
  `spd_sockaddr_tostring_fmt` makes of an address: its test for the null address is inverted
  (`socket.c:36`), so that every address that is not null becomes the empty text and only a
  null one goes on to `getnameinfo`, against `socket.h:126-148`.
* Wrappers of system calls, name resolution, hashes, random numbers, formatting and the
  wording of commands' output: no state that the properties speak of.
* The buffers of `spd_db_get` and `spd_db_put` (`get` refuses the key of 255 characters
  that `put` stores, `internal_db.c:184`), the prefix on the stack that an earlier
  `gettree` leaves bound (293), and the return value of `deltree` (358).
