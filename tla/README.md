# Formal models of launch_cpp

TLA+ models of launch_cpp, the launch system in this repository, with TLC runs
and TLAPS proofs. The models are read from the C++ code (commit at hand, paths
relative to the repository's root); the documents in `docs/` are used only
where a run confronts what they say with what the code does.

`PROJECT.json` lists the components, the runs, for every definition the lines
it stands for, for every property a mutant of the code that breaks it, the
hazards, and the disagreements found. Run a model with
`tlc -config MCThreadPool.cfg MCThreadPool`, a proof with `tlapm ThreadPoolProofs.tla`.

## 1. The system

A launch file (YAML, or C++ calls) becomes a *launch description*, a list of
*actions*. `LaunchService::run()` visits the descriptions; visiting an action
checks its condition and executes it. Actions declare and set *launch
configurations* in the *launch context*, nest (groups, timers, includes) or start
processes. Texts in them are *substitutions*, which look into the context, the
environment or the file system when the action is executed. `ExecuteProcess` starts a process directly (fork/exec) or, with
`enable_safety`, through an OS abstraction layer with an executor, a watchdog
and a resource monitor. Beside this there are parts nobody in the repository
connects yet: a thread pool, a dependency manager, an event queue and an event
dispatcher. They are tested and documented as parts of the system.

| component | state | operations | what makes it correct |
|---|---|---|---|
| thread pool (`src/thread_pool.cpp`) | `status_` (atomic), `task_queue_` under `queue_mutex_`, condition variable, worker threads | `submit`, `shutdown`, destructor, `worker_thread` | accepted tasks run once, in order; nobody sleeps beside a task; a stopped pool is drained; shutdown returns |
| launch service (`src/launch_service.cpp`) | `status_`, `shutdown_requested_`, `descriptions_` under a mutex, the context | `include_launch_description`, `run`, `shutdown` | one runner; what was included is launched, in order; the status never goes back; nothing starts once stopped |
| actions, conditions, substitutions, context (`src/actions/`, `src/conditions/`, `src/substitutions/`, `src/launch_context_impl.hpp`) | launch configurations | `visit`, `execute`, `evaluate`, `perform` | the effects are those of the tree read from left to right; arguments beat defaults; the first error ends it |
| dependency resolver and manager (`include/launch_cpp/safety/dependency_resolver.hpp`, `src/dependency_manager.cpp`) | graph, colours, path, in-degrees; processes and their lists | `resolve`, `add_process`, `execute_all`, `is_ready` | the order is topological; a refusal has its reason; execution keeps to the order and stops at the first failure |
| watchdog (`src/safety/posix_watchdog.cpp`) | node table under `nodes_mutex_`, `running_` (atomic), a thread | register, unregister, heartbeat, `start`, `stop`, the thread's checks | no false alarm; one report per silence; none after `stop()`; none forgotten |
| execute process (`src/actions/execute_process.cpp`, `src/safety/posix_process_executor.cpp`) | `process_`, `process_id_`, options; the OS's processes | `execute` with retries, `terminate`, `kill`, `shutdown`, `send_signal`, `is_running`, the destructor | a stop leaves no zombie; no live process is out of reach; retries are those of the library's own policy; the watchdog watches what runs |
| event queue (`include/launch_cpp/event_queue.hpp`) | queue under a mutex, condition variable | `push`, `try_pop`, `wait_and_pop`, `clear` | each event to one thread, in order; nobody sleeps over an event; a wait ends at its deadline |
| event dispatcher and handlers (`include/launch_cpp/event_dispatcher.hpp`) | list of handlers under a mutex | register, unregister, clear, dispatch | each handler that matches is called, in order; an error ends the dispatch and frees the mutex; an unregistered handler is not running |
| resource monitor (`src/safety/posix_resource_monitor.cpp`) | callbacks, a thread; reads `/proc` | `are_resources_available`, usage, limits | no process is started on a machine that has not enough |
| YAML parser and builder (`src/yaml_parser.cpp`) | none; of one call, a stream that four functions share | `parse`, `build` | what is read and built is what the file says |
| retry policy (`include/launch_cpp/safety/retry_policy.hpp`) | attempt, of one call | `execute` | retries what may be retried, no oftener than configured, with growing delays |
| command line (`src/main.cpp`), command builder | the service it makes | `main`, `escape_argument` | the processes of the file run, word for word; the exit code says whether all did |
| node action, singleton, OSAL interface and mock, errors and results | none, or of one call | | see section 6 |

How they interact: `main` has the file parsed and built and calls the service;
the service calls the actions on the thread that runs; actions share the
context; `ExecuteProcess` calls the executor (system calls), registers with the
watchdog and asks the resource monitor. While `execute()` waits for a process,
only another thread can stop that process, so two threads meet in one
`ExecuteProcess`. The pool, the watchdog and the event queue have threads of
their own.

What is hard: flags that are read outside the mutex of the data they guard
(pool, watchdog, service); condition variables notified without the mutex;
two threads waiting for one pid; a parser whose functions take turns on one stream; a clock read before a lock; a search and a sort
whose data structures must agree; errors in the middle of a nest of calls;
timeouts, retries and a SIGTERM that is ignored. `PROJECT.json` lists each
such hazard at its line.

## 2. The modules

| module | models | runs |
|---|---|---|
| `TaskPool` | abstract: what a pool promises its callers | (property of `ThreadPool`) |
| `ThreadPool` | the pool, step by step between the points where another thread can interfere | `thread_pool`, `thread_pool_lost_wakeup`, `thread_pool_lost_task` |
| `QueueFacts`, `ThreadPoolProofs` | lemmas on sequences; the proofs about `ThreadPool` | |
| `Substitutions` | what each substitution gives in a context | through `LaunchActions`, `CommandLine` |
| `LaunchActions` | EXTENDS `Substitutions`: context, conditions and actions, as a list of what the nested calls still have to do | through `LaunchService` |
| `LaunchService` | EXTENDS `LaunchActions`: the service and the threads that call it; its properties that need no recursion | `launch_service`, `launch_service_stopped` |
| `LaunchMeaning` | reference: the effect of descriptions by recursion on the tree, and the properties that compare with it | |
| `LaunchServiceProofs` | the proofs about `LaunchService`, and that it does what the reference says | |
| `DependencyResolver` | the search for a cycle and Kahn's algorithm, one turn of a loop a step | through `DependencyManager` |
| `DependencyManager` | EXTENDS the resolver: the table of processes, `execute_all()` | `startup_order`, `startup_order_repeated` |
| `StartupOrder` | what a cycle is (a set of nodes each of which depends on one of them) and the properties of the two | |
| `StartupOrderProofs` | the proofs about resolver and manager | |
| `Watchdog` | node table, thread, `start`/`stop` | `watchdog` |
| `WatchdogProofs` | the proofs about it | |
| `ProcessExecutor` | processes and the executor's calls on them | through `ExecuteProcess` |
| `ResourceMonitor` | what a look at `/proc` lets it say | through `ExecuteProcess` |
| `RetryPolicy` | `RetryPolicy` and `NoRetryPolicy`, with their delays | (property of `ExecuteProcess`) |
| `ExecuteProcess` | EXTENDS `ProcessExecutor`, `ResourceMonitor`: one action and a second thread that stops its processes | `execute_process` |
| `ExecuteProcessProofs` | the proofs about it, and that it implements `RetryPolicy` | |
| `EventQueue` | the queue and its waiting threads | through `EventLoop` |
| `EventDispatcher` | the handlers and `dispatch()`, with the mutex it holds | through `EventLoop` |
| `EventLoop` | EXTENDS both: threads that take an event and dispatch it | `event_loop` |
| `EventLoopProofs` | the proofs about the queue alone, and about queue and dispatcher together | |
| `YamlParser` | the four parsing functions as one recursive function on calls | through `LaunchFile` |
| `LaunchFile` | EXTENDS `YamlParser`: the builder; how a file is written down and what it means | through `CommandLine` |
| `CommandBuilder` | quoting, on classes of characters | through `CommandLine` |
| `CommandLine` | EXTENDS the last three and `Substitutions`: `main()` with a launch file | `launch_file`, `launch_file_dependencies` |
| `CommandLineProofs` | that a file is parsed, built and launched as it is meant | |

`MC*.tla` instantiate a module for TLC, `MC*.cfg` give the constants. A definition whose
comment begins "Mutant of" is no part of a model: it is the form a plausible bug
would give the definition named, kept to show that the properties notice.

State and actions, where the correspondence is not one to one:

* **ThreadPool.** `submit()` is three actions (`SubmitCheck` reads `status_`
  without the mutex, `SubmitPush` is the critical section, `SubmitNotify` follows
  it), `shutdown()` three, the worker's wait two (`WorkerFindsNothing`,
  `WorkerBlock`), because the status and the notification are not under the
  mutex. `Waiting` is the condition variable's set of sleepers. `early` and
  `outcome` are what the caller knows of a task. Tasks may submit tasks.
* **LaunchActions.** `agenda` is the nest of calls, flattened: executing a group
  puts its children at the front, executing an include its arguments, one item for
  each (one whose expression is null is passed over), and then the file. An error empties it and sets `failed`, which is
  what returning the error through every level does. Groups, timers and
  descriptions differ in whether they call a child's `visit()` or its `execute()`.
* **LaunchService.** A thread's `pc` says where in `run()` or `shutdown()` it is;
  one action is one atomic operation of the code or one action executed.
* **DependencyResolver.** `path` and `colour` are the DFS's; the order of the
  unordered maps is a choice, `Sorted` gives the order in which names are sorted.
* **Watchdog.** Time is the age of each last heartbeat, and `elapsed` what the
  check computed from the clock it read before it got the mutex; a heartbeat
  that comes between makes it negative. `start()` and `stop()` are called by one
  thread at a time.
* **ProcessExecutor, ExecuteProcess.** A process is a pid that is unused, alive, ended (a zombie)
  or reaped; `waitpid` and `kill` are what they do to that. `options` is chosen
  at the start. An attempt fails because the monitor refuses (`Refused`) or
  `fork()` does (`ForkFails`); each look at `/proc` finds any of `Readings`.
  `delay` is what the next sleep takes, with the width of `uint32_t` as `Width`.
  `leaked` and `stopped` are history.
  `fork()`, the store of the handle and the registration with the watchdog are one step
  of an attempt: a stop that comes between them finds no process or the one before, and
  does what it would have done just before the step, so nothing is lost by it.
* **EventDispatcher, EventLoop.** `dispatch()` holds the mutex (`holder`) while
  handlers run, so a call of one is two steps and the other calls wait; a
  consumer takes an event with the queue's actions and gives it to the
  dispatcher's. `called` is history: the positions, and the handlers, of the calls. The loop is that of `docs/architecture.md`; the code has the parts.
* **EventQueue.** Events are numbered by their push. `late` is that the absolute
  deadline of a wait has passed; a notification may go to a thread that is late.
* **YamlParser, LaunchFile.** A stream is a list of lines and a position, which
  each function returns with its value; a line that is put back is a position
  that is not advanced. `Parser(t)` is what every call gives: a call is a
  function's name, a line and an indentation, and a loop's next turn is a call
  further down. `Text` writes a file as its author may lay it out,
  `MeantValue` and `MeantDescription` say what it means without looking at lines.
  The two actions are the two calls in `from_yaml_file()`. A string is a value;
  the constant `Refers` says which of them are substitutions.
* **CommandLine.** `Load` is the two actions of `LaunchFile` with the exits of
  `main()`; the run has one action for each kind of action a file can have.
  `Spelling` gives a string its characters when a command is made of it.
  A process whose output is the screen is waited for within its step; there is no other
  thread.

## 3. The runs, and what they show

| run | instance | properties |
|---|---|---|
| `thread_pool` | 2 workers, 2 callers, 3 tasks; 36,184 states | `TypeOK`, `ExactlyOnce`, `WorkConserving`, `DrainedWhenStopped`, `EarlyTaskRuns`, `ImplementsTaskPool` hold |
| `thread_pool_lost_wakeup` | same | `ShutdownReturns` is violated |
| `thread_pool_lost_task` | same | `AcceptedTasksRan` is violated |
| `launch_service` | 2 threads, 2 descriptions of 12 actions, 1 included file, up to 3 inclusions; 36,708 states | `StartedAsMeant`, `AcceptedIsLaunched`, `ArgumentsWin`, `OneRunner`, `StatusMovesOn`, `OneStopper`, `StoppedUnlessOvertaken`, `RunReturns` hold |
| `launch_service_stopped` | same | `NothingStartsOnceStopped` is violated |
| `startup_order` | every graph on 3 names with lists of up to 2; 143,940 states | `OrderIsStartable`, `VerdictIsRight`, `CircularPathIsACycle`, `ExecutedInOrder`, `Returns` hold |
| `startup_order_repeated` | same | `AcyclicIsResolved` is violated |
| `watchdog` | 2 nodes, timeouts of 1 and 2 ticks; 5,680 states | `TypeOK`, `NoFalseAlarm`, `OneReportPerSilence`, `QuietOnceStopped`, `SilenceIsNoticed`, `StopReturns` hold |
| `execute_process` | 3 pids, up to 3 executions, all options, retries 0 to 2, delays on both sides of the width; 142,854 states | `TypeOK`, `StoppedIsGone`, `NothingOutOfReach`, `WatchesItsOwn`, `ImplementsRetryPolicy`, `ExecuteReturns`, `StopReturns` hold |
| `event_loop` | 2 threads that take events, 3 events of 2 kinds, 2 handlers and the null pointer; 72,320 states | `NobodySleepsOverAnEvent`, `DeliveredOnceInOrder`, `CalledAsRegistered`, `WaitReturns`, `TakenIsDispatched` hold |
| `launch_file` | the program with all files of up to 3 of 10 entities in 20 layouts with lists in block style, 1 with lists in brackets; 146,156 states | `ParsedAsWritten`, `BuiltAsWritten`, `LaunchedAsWritten` hold |
| `launch_file_dependencies` | the plainest layout | `DependenciesStartFirst` is violated |

Each property is explained where it is defined. The ones that carry most:

* `ImplementsTaskPool`: the pool refines `TaskPool`, with `Close` at the
  exchange in `shutdown()` and `Halt` at the store of `K_STOPPED`. `EarlyTaskRuns`
  needs no luck with wake-ups although `submit()` notifies after unlocking and
  `shutdown()` without the mutex.
* `StartedAsMeant`: at every moment, whatever other threads do, the processes
  started are the beginning of what `Meaning` computes by recursion.
* `VerdictIsRight`, `OrderIsStartable`, `CircularPathIsACycle`: the resolver
  against what a topological order and a cycle are, for every graph in bounds.
* `ArgumentsWin`: the last text that an inclusion gives for a configuration is what
  the included file's processes get. Were
  arguments set as `declare` sets a default, only where nothing is configured, what an
  earlier action configured would win.
* `OneStopper`, `StoppedUnlessOvertaken`: the service is SHUTTING_DOWN exactly while one
  thread shuts it down, so a `run()` that fails leaves it where it can still be shut
  down, and one that is to stop when idle leaves it STOPPED or in another thread's
  hands. The comments of `run()` promise more, that it is shut down before `run()`
  returns, with no exception for another `shutdown()` that is faster (section 7).
* `NoFalseAlarm`: holds because the difference of the times is signed; with an
  unsigned one (the mutant) a late lock would raise an alarm at once.
* `StoppedIsGone`: two threads reap one pid and either may get ECHILD.
* `ImplementsRetryPolicy`: the loop in `ExecuteProcess`, which counts retries,
  refines the library's `RetryPolicy`, which counts attempts and which it does not
  use: the same number of attempts, the same delays, the same verdict.
* `CalledAsRegistered`: a dispatch calls what was registered when it began,
  whatever other threads register meanwhile, and who has unregistered a handler
  may destroy it.
* `TakenIsDispatched`: an event that has left the queue is in one thread's hands
  only; a dispatch that ends early must give the mutex back, or every other
  thread's event is lost with it.
* `LaunchedAsWritten`: the composition. A word of a command goes from the file
  through the parser, the builder, the configurations declared further up and
  the quoting to `execvp()`. Words are compared once the quotes that
  `escape_argument()` adds are off; that nobody takes them off is in section 7.
  It is claimed of files on which the code and the documents agree: whose order suits
  `depends_on` (`OrderedInFile`), and that take no variable from the environment
  (`NoneFromEnvironment`). `MeantWord` looks a variable up as the documents say.
* `DependenciesStartFirst`: what the documents say of the other orders, and the code
  does not do.
* `ParsedAsWritten`: an entity, a list in it, the list of entities and the file
  end at the same line, and each function must leave it to the next. It is
  claimed for the layouts in `Supported`; the others are in the run too, and what
  goes wrong with them is in section 7.

Bounds, and why they are enough. Two workers and two callers are the least with
which wake-ups can go to the wrong thread; three tasks let one be queued, one
run and one be submitted by a task (the theorems of section 5 remove the bound).
Two threads are what the service's races need, each exchange being lost by one
of them; the third inclusion lets one come before, one between and one after
`run()` takes its copy. Three names give self-loops, two- and three-cycles, paths
that lead to a cycle, diamonds short of one node, missing names and repeated
ones; `Sorted` fixes the order of names, and all graphs on them are initial
choices. Two timeouts and ages up to one beyond the longer make nodes late
separately and together. Three executions let a process be replaced twice, and
three pids give each a process; `attempts` is bounded by the options. `Width` is 4
and the delays are 2, 2 and 4 with a multiplier of 2, so that the last does not
fit. Three events and two waiters let an event be taken from under a woken thread
and another come, and one thread dispatch while the other holds an event; two
places in the list let a handler be there twice, before or behind another, or
beside the null pointer. The ten entities put lists first, last and in the middle of an entity,
leave keys out, and have numbers, unknown types and no type; three of them make each
follow each. One process depends on two others and one of these on the other, so that
one order of the three suits and five do not; of two variables the environment has
one, which may be configured as well, or not. One configuration is spelt with a
quote, a space and a backslash. `MaxExecutes`, `MaxDescriptions`, `MaxDependencies`, `MaxEvents`, `MaxHandlers` are bounds
of the models and not of the code; `MaxAge` merges ages no comparison tells apart.

Deadlock is checked except in the `ExecuteProcess` run, where the action may
have been executed as often as the bound allows and every process be gone, and in
those of `CommandLine`, which ends when the program exits. In
the `ThreadPool` model a state always has a further call or none is pending.

## 4. Fairness

Threads that are inside a call are scheduled (weak fairness of their steps);
nobody has to make a call. A thread that waits for a mutex gets it in the end;
for `SubmitPush`, whose mutex is free again and again but not always, that is
strong fairness, which the kernel's mutexes give in practice and the standard
does not promise. Sleeps and timeouts end, which `std::this_thread::sleep_for`
and `wait_until` do. In `EventLoop` the mutex of the dispatcher is the second that
is taken again and again (strong fairness of `Start`), and a handler that is
called is assumed to return; without that nothing could be said. No spurious wake-up, no process's exit and no heartbeat is
ever promised; in `LaunchService` a process that is waited for is assumed to
end, which is said there, and in `ExecuteProcess` it is not.

## 5. What is proved

For every value of the constants that the named assumptions admit; TLC evaluates
these assumptions in the runs. Each proof module has one inductive invariant (or
two, where components meet); its conjuncts are explained where they are defined.
What a run checks on its instance was checked before it was proved, the
strengthenings included.

**`ThreadPoolProofs`**: any finite sets of workers (not empty) and callers, any set
of tasks. `TypeCorrect`, `TasksRunExactlyOnce` (`ExactlyOnce`), `StoppedMeansDrained`
(`DrainedWhenStopped`), `NoIdleWorker` (`WorkConserving`), `Implementation`
(`ImplementsTaskPool`).
The invariant is `IInv == TypeOK /\ Control /\ Custody /\ ExactlyOnce /\ Draining`.
`ExactlyOnce` alone is not inductive: that a pushed task is
new to the queue needs that a `submit()` holds a task nobody else holds and
that is nowhere in the pool until it pushes it (`Custody`), which needs that
where a thread is and what it holds agree (`Control`). `DrainedWhenStopped` needs
`Draining`: a worker leaves only from a queue without early tasks, and since the
status is no longer `RUNNING` then, none can come after. `Implementation` maps
each action to a step of `TaskPool` or to a stutter, using `IInv`: that `Halt`'s
conditions hold when the joins have returned is `Draining`. `WorkConserving` is
inductive relative to `IInv`; its steps count the awake and the notifying
threads, with the library's facts on cardinalities. `QueueFacts`
says what `Append`, `Head` and `Tail` do to the set of a queue's members and to
its injectivity.

**`WatchdogProofs`**: any nodes, any finite set of timeouts (not empty).
`TypeCorrect`, `SilenceReportedOnce` (`OneReportPerSilence`), `StopLeavesNoThread`
(`QuietOnceStopped`), `AlarmsAreTrue` (the action property `NoFalseAlarm`).
`QuietOnceStopped` needs `Handover`: `running_` and the thread's handle agree
except inside `start()` and `stop()`, and the thread ends for `stop()` alone.
`NoFalseAlarm` needs `ReadEarlier`: what the check computes from a clock it read
before it had the mutex is never longer than the silence, since time only adds to
the silence and a heartbeat takes as much from the one as from the other. That
ages may stop at `MaxAge`, one beyond the longest timeout, is proved too: there is
a longest (`LargestExists`), and a node of that age is late.

**`LaunchServiceProofs`**: any set of threads, any descriptions and files, any table of
actions whose entries are the code's.
`RunIsExclusive` (`OneRunner`), `StatusIsMonotonic` (the action property
`StatusMovesOn`), `TextArgumentsWin` (`ArgumentsWin`), `AcceptedIsTakenUp`. The first
two rest on `WonOnce`: the exchange in `run()` is won once because the status never
returns to `IDLE`, and until the winner returns nobody else is inside. `TextArgumentsWin`
needs to know what is still to be done: a deciding argument stands on the agenda,
or is configured already, before anything only its inclusion starts
(`ArgumentsFirst`), and between the two are only items that leave a configuration
that has a value as it is (`Harmless`): arguments for others, null ones, declarations,
processes. This is where it matters that a file's own `set` or include may
overwrite it; `OnlyIncludedBy` excludes these. `AcceptedIsTakenUp`
is the half of `AcceptedIsLaunched` that needs no recursion: when `run()`
returns 0, all that had been included when its exchange was won is in its copy,
in order, and the copy was visited to its end with no error. `ShutdownInOneHand`
(`OneStopper`) and `StoppedOrBeingStopped` (`StoppedUnlessOvertaken`) rest on `Handed`,
which adds to the first property that a `run()` which has returned 0 and was to stop has
found the exchange won: the status is then SHUTTING_DOWN, in one thread's hands, or STOPPED.

And that the service does what `LaunchMeaning` says, groups and timers nested to any depth:
`StartedIsMeant` (`StartedAsMeant`), `AcceptedAreLaunched` (`AcceptedIsLaunched`), and
`CourseInvariance`, on which both rest: the invariant `OnCourse` says that the effect so
far, followed by what the agenda and then the descriptions left still do, is the meaning
of the whole copy. `StartedAsMeant` alone is not inductive, for it says nothing of what is
to come. Each action of the service takes the head off the agenda and either does it or
puts its parts in front, and `HeadExecutes` and `HeadUnfolds` say that neither changes the
end. Three things come before that. That the reference means anything: `Executed` is a
recursive function on the actions, and that one function satisfies its equation
(`ExecutedSolves`) needs that nesting has an end, which is the last part of
`LaunchActionsAssumption`: an action is given those it holds when it is constructed and
they cannot be changed, so no action holds itself, however deep. The library's induction theorems
cannot be used, so these arguments look for the lowest action at which two solutions
differ (`SolvesOnce`), or that has none (`SolvesAll`), and refute it. That the code's
loops over values give what the reference defines by positions (`WordsLoop`,
`ValueSame`, `TruthSame`). And that nothing that was started is ever taken back (`ExecutedGrows`),
from which follows that what was started so far is the beginning of the meaning, and
that what the copy has beyond the accepted descriptions comes after them (`BeginsIsPrefix`).

**`ExecuteProcessProofs`**: any pids, options, delays, and width. `TypeCorrect`,
`StoppedProcessIsGone` (`StoppedIsGone`), `ProcessIsHeld` (`NothingOutOfReach`),
`WatchIsGivenUp` (`WatchesItsOwn`), `RetriesAsThePolicy` (`ImplementsRetryPolicy`).
The invariant adds to the properties `Ownership` (which of `process_` and
`process_id_` names the process, when they agree, and that what else is alive was
replaced) and `Stopping` (a stop is of a process that is there, and returns when it is
reaped, by whom ever). `RetriesAsThePolicy` has one hypothesis beside the
assumptions, `PlainDelaysFit`: with no multiplier a delay is below `Width`, that is
2^32 milliseconds. `RetryPolicy` converts a delay that is not multiplied too and
`ExecuteProcess` does not, so beyond it the two differ; every option set of
the run fulfils it.

**`EventLoopProofs`**: any finite set of consumers, any handlers, kinds
and bounds. `TypeCorrect`, `DeliveredInOrder` (`DeliveredOnceInOrder`), `NobodySleepsOver`
(`NobodySleepsOverAnEvent`), `CallsAsRegistered` (`CalledAsRegistered`), all of them of `LoopSpec`, the
queue and the dispatcher together; the first three are proved of the queue's own
steps, and each step of the loop is one of these or leaves the queue alone (`LoopStepOfQueue`).
`DeliveredOnceInOrder` is restated of elements instead of positions (`Delivery`) and
needs that nothing is in anybody's hands that was not pushed (`Numbered`), or a new
event might not be the latest. `NobodySleepsOverAnEvent` is inductive relative
to these; its steps count the awake. `CalledAsRegistered` needs that who dispatches
holds the mutex and meanwhile the list is what it was (`Holding`), and that the calls
made are those due so far, in order (`Calls`).

**`CommandLineProofs`**: any words and keys, any files of any number of entities, fields
and words in the layouts of `Supported`, strings of any characters. `ReadAsWritten`
(`ParsedAsWritten`), `BuildAsWritten` (`BuiltAsWritten`), `LaunchAsWritten` (`LaunchedAsWritten`).
The assumptions are that the files are of this form with no key twice in an entity
(`LaunchFileAssumption`), that no word stands for the text of a whole line, and that a
substitution names what there is (`CommandLineAssumption`).
`LaunchAsWritten` has the premises of its property; of the two on the file the proof
needs only `NoneFromEnvironment`, since the order of the file is what the code keeps.
The invariants, `FileInv` and `LaunchInv`, are short, for the work is in what one step
computes. `ParsesAsMeant` has two parts. That the parser means anything: each function
looks at calls further down only (`TurnReads`), so what they give can be had line by line
from the end of the text (`OneLineMore`) and the recursive function satisfies its equations
(`ParserReads`). Then a text is taken apart: wherever a list, a field, an entity, the
entities occur in a text, reading from there gives what is meant, followed by what reading
gives from where that part ends (`ElementsRead`, `FieldAndRead`, `FieldsRead`, `EntityRead`,
`EntitiesRead`). What makes this hard in the code is that a part is left at two places,
behind it or behind the comment that follows; `Resume` says that both go on alike.
Here the comment between a key and its list, and the key behind a nested object,
are seen to be lost: the lemmas are false of them, and `Supported` names them.
`BuildsAsMeant` compares what the builder finds in the objects with the words of the
entities. `EscapeUndone` says that reading what `escape_argument()` has written, from the
first quote to the one without a backslash, gives back the argument, for every string
but the empty one, which does not validate. `LaunchedAsWritten` is not inductive, for it
compares with the end; `AsMeant` says that configurations and commands are those meant of
the actions visited so far, and `CourseGrows` that commands are only added.

**`StartupOrderProofs`**: any names, graphs, and bounds. `StartableAlways` (`OrderIsStartable`),
`VerdictsAreRight` (`VerdictIsRight`), `CyclesAreCycles` (`CircularPathIsACycle`), `ExecutedAlwaysInOrder`
(`ExecutedInOrder`). The invariant of the search (`Path`, `Colored`) is that of depth-first
search: the path is made of dependencies, each open call has only black ones
behind it, black depends on black alone, and no set of black nodes is a cycle.
That a node turning black keeps the last is the step from path to colours
(`ReturnStep`). The invariant of the sort (`Sorting`) says what an in-degree counts: what the list is longer
than the dependencies taken up already are many. A list that repeats a name keeps its
node from zero, for ever, which is why `VerdictIsRight` names it as a third reason and
`startup_order_repeated` finds a violation. That there is no
fourth is `LeftOutRepeats`: if no list repeats a name and the queue is empty, every
node left out depends on another that is, and the nodes left out are a cycle,
which the search would have found. `ExecutedInOrder`
is inductive with `ManagerInv`: what was resolved is what was added, and what is
executed is a resolution that succeeded.

**Only model-checked.** Liveness (`EarlyTaskRuns`, `RunReturns`, `Returns`,
`SilenceIsNoticed`, `StopReturns`, `ExecuteReturns`, `WaitReturns`, `TakenIsDispatched`),
for the provers have neither fairness nor `ENABLED`. The five runs that find a
violation are counterexamples and need no proof.

## 6. Not modelled, or not fully

* Undefined or excluded: a pool of no threads, tasks that throw, `shutdown()`
  from within a task, callbacks that call the watchdog back (they would lock a
  mutex their own thread holds).
* `ExecuteProcess`: return codes, the setters, reuse of pids.
  `process_` and `process_id_` are read and written by two threads without
  synchronisation; the model gives each access one value.
* A handler that calls the dispatcher that calls it: it would wait for its own
  thread, in every run.
* What the environment, the file system and a command's output hold changes
  nothing while the program runs: they are constants of `Substitutions`.
* The list of event handlers in the context (filled, never read), and
  `set_environment_variable()`, which the library does not call.
* Of a launch file, characters: tabs, quotes, colons within words, which words are
  numbers. The key `description`, which only carries text. What `output` does, that
  `execute()` waits for the process, is among the options in `ExecuteProcess`.
* `ResourceMonitor`: the use of memory by one process, `set_resource_limits()`
  (section 7), and the thread for threshold callbacks, which nothing registers.
* `RetryPolicy`: `FixedRetryPolicy`, a helper for tests.
* `CommandBuilder`: `build()` has no definition; the checks of names have no caller.
* `Watchdog`: `start()` and `stop()` called by two threads at once, for which
  the code is not made (section 7).
* `NodeAction` is declared and not defined (and its header cannot be compiled,
  section 7), `Singleton` not instantiated, the OSAL header a set of interfaces,
  errors and results value types.

## 7. Where code and documents disagree

Shown by runs: shutdown's wake-up may be lost and `shutdown()` hang
(`thread_pool.cpp:69`); an accepted task may never run (`:49`); a service that is
STOPPED goes on starting processes (`launch_service.cpp:286`); a dependency that
is listed twice is unresolvable (`dependency_resolver.hpp:319`); `depends_on` in a launch
file has no effect (`yaml_parser.cpp:591`).

Read from the code and noted without a run: `run()` may return with 0 before the
service is shut down (`launch_service.cpp:279`, against the `@post` at `:124`);
`$(var name)` does not look into the environment (`variable_substitution.hpp:81`, against
`docs/functional_spec.md:215-218`); a list in brackets, as the README writes commands,
is a string inside an entity and the command is empty (`yaml_parser.cpp:321`); the key after a nested object, and a
list with a comment between it and its key, are lost (`yaml_parser.cpp:366`, `:295`);
entities of other types than two are passed over silently (`:626`), and so are
words of a command that are numbers (`:567`); `start()` racing `stop()` ends the
program or leaves a thread (`posix_watchdog.cpp:244`); a zombie is "running"
(`posix_process_executor.cpp:260`) and the return code of a safe process is always
-1 (`execute_process.cpp:506`); `execute_all()` calls every failure cyclic and
does not wait for readiness; `terminate()` without safety sends no SIGKILL; nobody
feeds or answers the watchdog; arguments are quoted for a shell that is not there (`execute_process.cpp:135`);
text around `$(var name)` is lost (`yaml_parser.cpp:642`); the safety
options in a launch file and arguments on the command line have no effect
(`:561`, `main.cpp:74`); nobody sets the current launch file; the
destructor leaves its process running and stops a watchdog that may be shared
(`execute_process.cpp:84`); the delays of retries overflow (`:377`);
`FixedRetryPolicy(0)` succeeds without an attempt; a policy that gives up returns
`kMaxRetriesExceeded` and not the last error (`retry_policy.hpp:177`), the exponent in a delay
is one less than the attempt (`:212`, against `docs/functional_spec.md:307`),
and of the errors that may be retried two never occur (`execute_process.cpp:355`, against
`docs/functional_spec.md:157-158`); two `ErrorCode`s in one namespace
(`retry_policy.hpp:31`); memory limits hit the launcher, and a load of 0.8 on any
number of processors stops it (`posix_resource_monitor.cpp:228`, `:209`).

## 8. Plan

Done: the five core subsystems; the event queue and the dispatcher with the loop
between them; the way from a launch file to the processes; retries, delays and the
monitor in `ExecuteProcess` and the policy it implements; substitutions; every
invariant, action property and refinement the runs check is proved. Left:

1. `RetryPolicy` on its own: that its delays do not shrink while they fit, and that
   a policy that gives up has made all its attempts.
2. The other layouts of a file, each with what the parser makes of it instead.
