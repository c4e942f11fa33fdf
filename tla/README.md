# A TLA+ model of adc

adc is a decompiler and binary analyzer for x86 executables: a core library
(`src/src/db`, `src/src/dc`), front ends for file formats (`src/src/front`), a Qt
user interface (`src/src/uiqt5`) and a batch mode. This directory holds TLA+
modules of its concurrent and stateful parts, TLC configurations that
model-check them, and TLAPS proofs of theorems about them. Paths below are
relative to the root of the repository.

## 1. Inventory

| component | state | operations | interacts with |
|---|---|---|---|
| Circular vector (`src/shared/circvec.h`) | buffer, capacity, `mHead`, `mTail`; no count | push and pop at both ends, growth by doubling, cleanup, iteration | holds the to-do list |
| To-do list (`src/db/anlzbin.h`, `.cpp`) | a circular vector of tasks, the sets `mSet` and `mSetF` of their addresses | `pushTask`, `popTaskFront`, `process` | commands executed by `process` push more tasks |
| Event loop, commands, project, script (`src/db/main.cpp`, `script.cpp`) | the event queue, `mpProject`, `mpScript`, the debug (step) mode | `processEvent`, the commands, `OnIdle`, `OnBusy`, `CloseProject` | events posted by the GUI thread and by itself |
| Analyzer stack (`src/db/proj.cpp`, `proj.h`, `anlz.h`) | analyzers, each with a stop flag and its own work | push, pop, `execAnalyzer`, `checkAnalyzerStatus` | driven by the event loop; its stop flag is written by the GUI thread |
| GUI notifications and buttons (`src/db/ui_main.cpp`, `src/uiqt5/ADBMainWin.cpp`) | status shown, enabled buttons | Continue, Pause, Stop, command line | posts commands and `EVENT_ANLZ_RESUME` |
| Project lock and blocking messages (`src/db/main.h`, `src/uiqt5/sx/SxGUI.cpp`) | `mxProject`, a semaphore per message, the models of the views | `lockProjectRead/Write`, `SendEvent`, `PostEvent`, paint events | ties the core thread and the GUI thread; the tasks window goes round it |
| Decompiler pipeline (`src/dc/ana_main.cpp`, `ana_pcode.cpp`, `ana_branch.cpp`, `flow.cpp`, `ana_post.cpp`) | the stages left; the body of the function: paths of operations, jumps, levels of the stack; its status | generate the body, analyse it again, `runOnce`, decompile, purge | an analyzer on the stack; pushes none |
| Expressions (`src/dc/expr_simpl.cpp`) | one tree, rewritten in place | the four loops of `Simplify()` and their rules | called by every stage |
| Other decompiler data (`src/dc/expr.cpp`, `info_func.cpp`, ...) | operations, declarations, types | the later stages of the pipeline | called by the pipeline |
| Binary database (`src/db/info_module.cpp`, ...) | segments, labels, references, fields | commands | called by commands and analyzers |
| Intrusive containers (`src/shared/sbtree2.h`) | a size balanced tree linked through its elements, a sentinel with its ends | insert, take, rebind, clear, searches by key, by rank and by iterator | used by the database's maps |
| Save and load (`src/db/save.cpp`, `src/dc/save_ex.cpp`) | none of its own | serialisation | creates a project or none |
| Debugger (`src/db/debug.cpp`) | - | cannot run at this commit | - |
| Front ends (`src/front`) | none | loaders and decoders, pure functions of file contents | called by `new` and by sweeps |
| Qt widgets (`src/uiqt5`) | windows | painting, dialogs | messages of the core |
| `utils/` | - | third-party programs | - |

There are two threads. The *core thread* runs `Main_t`: one queue of events, one
event at a time; when the queue is empty, `OnIdle` decides what comes next. The
*GUI thread* runs Qt. The threads meet in six places: events posted to the
core thread; messages posted to the GUI (`PostEvent`); messages the core thread
waits for (`SendEvent`); the lock `mxProject`; the project, which the tasks window
reads without that lock; and the stop flag of the topmost analyzer and the step
mode, which the GUI thread writes with no lock at all.

What is hard here:

* *Liveness by hand.* Nothing drives an analysis but the one
  `EVENT_ANLZ_PROCESS` that `OnIdle` posts when everything else is done. Each
  path of `checkAnalyzerStatus` and `CheckEvents` has to post exactly one event,
  or tell the user why none comes.
* *Clicks race the core thread.* Stop, Pause and Continue act on whatever
  analyzer is on top when they arrive, and the project may be closed meanwhile.
* *Waiting on each other.* A blocking message sent with the lock held, to a
  thread that may be waiting for that lock.
* *Views that outlive their project.* Models hold pointers into the project;
  they are taken away and given back by messages.
* *Redundant state.* The sets beside the to-do list, the flags in place of a
  count in the circular vector, parent links, sizes and the ends of a tree, the
  map of paths beside the tree of paths.
* *Interrupted work.* A call of a function nobody has described throws out of
  the middle of an instruction; what was added is rolled back by a count, the
  user answers, and the work is taken up again, in a body that may have been
  split in the meantime.
* *Rewriting to a fixed point.* Rules are applied until none fits: nothing bounds
  the number of turns but the rules themselves.

What makes each component correct: the circular vector is a double-ended queue;
the to-do list is a queue in which a request is turned away only when a pending
one covers it, and loses no task; the event loop makes one step at a time, plays
a script line only after the analysis of the line before, never sleeps without
the GUI knowing why, and ends in the batch mode; its asserts hold; no window
shows a project that is gone; both threads end when the user closes the
window; the tree is an ordered list, whose searches agree; a body holds each
reachable instruction once and control goes in it where it goes in the code; the
levels of the stack agree or an error is raised and stays; simplifying keeps the
meaning and ends.

## 2. Modules

| module | what it is |
|---|---|
| `Deque` | abstract: a double-ended queue |
| `CircularVector` | `CircularVector_t` as operators on a record; `Contents` is its sequence of elements |
| `CircVec` | one vector under every sequence of operations; implements `Deque` |
| `CircularVector_proofs`, `CircVec_proofs` | lemmas on the operators; type correctness, growth and the refinement |
| `TaskQueue` | abstract: a queue of requests that accepts no covered one |
| `TaskList` | `TaskList_t` and the loop of `BinaryAnalyzer_t::process`, on `CircularVector`; implements `TaskQueue` |
| `TaskList_proofs` | type correctness, agreement of the sets with the vector, the refinement, refusals |
| `Controller` | `Main_t`, the analyzer stack, the script and the buttons of the GUI |
| `Controller_proofs` | type correctness, the explained sleep, the clean exit; for the batch mode single steps and waiting scripts; the asserts, with and without users |
| `GuiSync` | the lock, the blocking messages, the models of the views and the windows that are not told of a closing |
| `GuiSync_proofs` | type correctness, no stale paint under the lock, the tree's assert |
| `OrderedList` | abstract: a list ordered by key, with an iterator as each answer |
| `SBTree` | `sbtree_t` on a set of nodes; implements `OrderedList` |
| `ExprSimpl` | `Simplify()` with its rules for signed integer terms |
| `PathTree` | the body of a function as operators on a record: paths, the path map, gotos |
| `Disassembly` | abstract: what the generation of a body promises |
| `Decompiler` | the decompiler of one function, with its user, on `PathTree`; implements `Disassembly` |
| `PathTree_proofs` | induction for recursive functions; lemmas on the operators: what splitting, inserting, redirecting and removing do to the paths |
| `Decompiler_proofs` | type correctness, the status, errors, the order of the paths, the refinement |
| `Levels_proofs` | the levels of the stack agree in a generated body; control goes in it where it goes in the code |
| `MC...` | the constants of the configurations |

### CircularVector and CircVec

The state is the record `[buf, cap, head, tail]`, named after `mBuf`,
`mCapacity`, `mHead` and `mTail`; `null` is the vector without a buffer. Every
method is an operator and every operator an action of `CircVec`, whose client
keeps the preconditions of `TaskList_t` (no pop of an empty vector). `expand`
copies the leading chunk of a wrapped vector behind the old end as the code
does. `push_front` does not recognise the vector that was emptied, so `CircVec`
uses it on a non-empty vector only; nothing in the repository calls it.

### TaskList

`PushCode` and `PushFunc` are `pushTask`; they are disabled where the code
returns false, which is where its test (`refused`) says so and nowhere else. The
refinement of `TaskQueue`, a safety specification, cannot say that the list ever
accepts anything; `RefusedOnlyIfCovered` does, of that test. `Process` is
`popTaskFront` up to the execution of the command,
`Finish` its end, whatever the outcome, `Destroy` the end of the analyzer. The
command in execution may push any task in between. A task is its address and
whether it is a "makefunc". The list serves one module (the code keys its sets by
the address alone).

### Controller

One action per event taken from the queue (`Take...`), one for the step an
analyzer makes (`Process`), and the branches of `OnIdle` (`Idle...`, then
`Announce`, because `OnIdle` tests the stop flag twice and the GUI thread may
write it in between). An analyzer is its kind, its stop flag and the number of
tasks or stages it has left. The stages of the decompiler differ only in whether
they end the pipeline, raise a fault or find new work, and are one number here.
A command that touches neither the project nor an analyzer nor the script is
`TakeOther`. `Click` and `ClickSetsFlag` are the two halves of `resumeAnalysis`
on the GUI thread: the test, and the use of what was tested.

The event loop itself (`qx` library) is a submodule that is not in the
repository. From how it is used: events are handled in the order of posting,
`OnIdle` is called once when the queue has run empty, `OnBusy` when an event
ends a wait.

A failed assert ends the program; `failed` tells which one.

### GuiSync

Projects are numbers, so that a view of an earlier one can be told from a view
of the present one. `core` and `gui` are the places of the two threads.
`CloseProject` is `Execute` (which sends the blocking
`UIMSG_PROJECT_ABOUT_TO_CLOSE`), `CloseLock`, `SendPriorRemoved` once per file
with the lock held, `DestroyProject`, `CloseUnlock`. A load or a new project is
`MakeLock`, `Make`; any other command or step of an analyzer is `WorkLock`,
`Work`; `checkUiEvents` is `RefreshLock`, `Refresh`, `Flushed`. On the other side,
`Receive...` handle the messages in order; `Paint`, `LockRead`, `UnlockRead` are
a paint event of the file tree or a page, which may come at any time, also while
`setReturnCode` lets pending events run before it wakes the core thread. The tree
and the pages lose their models when a project is about to close. Two permanent
windows do not hear of it:

* the Blocks window (`AskBlocks`, `DumpBlocks`): a key in a source page, or Return
  in its line edit as long as it has a name (`blocks`), has `DumpBlocks` look for a
  function, under the read lock;
* the tasks window, a plain `QListView` that paints with no lock: `count()` tests
  for a project (`TestTasks`), calls `project()` (`FetchTasks`) and follows it
  (`FollowTasks`), twice, and `data()` once more on the strength of the same test.
  A step of the core thread may fall anywhere in between. What follows a destroyed
  project may crash or go on.

A failed assert ends the program; `failed` tells which one.

The lock class is not in the repository either. The model uses one property of
it: a reader and a writer exclude each other. The core thread here is the only
one to take it for writing, the GUI thread for reading. A damaged project file makes
`LoadFromFile` destroy what it has read; this is `Make` without success.

### SBTree and OrderedList

The state is the tree as the code has it (`parent`, two children and `size` for
each node, and a sentinel whose parent is the root and whose children are the two
ends) and the iterator the last operation returned. `Insert` and `InsertUnique`
are `insert` and `insert_unique` (through `lower_bound` and the insertion with a
hint), `Take` is `take()` with a forward and a reverse iterator, which asks for the
neighbour before it restructures the tree, `Rebind` the move of a node in memory,
`Clear` the deallocation of all. `Erase` and `Maintain` are `sbt_erase_` and
`sbt_maintain_` with their rotations, link by link. The two sides, which the code
writes as template parameters, are `"L"` and `"R"`.

### ExprSimpl

One step is one turn of a loop of `Simplify()`: the first node of the walk that a
rule fits is rewritten, and the walk starts again at the root. Each `Simplify...`
function of the code is an operator of its name, which lists the rules in the
order of the source (`??`: the next one if none has fitted) and gives the set of
the results, empty if none fits. `phase` is the loop. Numbers wrap at `Width` bits, as the
`int` of `value_t` does at 32.

### PathTree, Decompiler and Disassembly

The function is a sequence of instructions: plain ones that move the stack by a
fixed amount or set it, calls, jumps, conditional jumps, returns. The body is one
record (`PathTree` lists its fields): the paths in their order, their operations,
the target of each jump, the path map `mPathMap` with its gaps, which exists
during generation only.

`Decompiler` has one action for each way an instruction is generated
(`RunInto` code generated before, `CallUnknown`, `Straight`, `Jump`, `Return`), one
for taking up a task of `m_stack` (`StartTask`, which rolls an interrupted
instruction back), and three for the second form of the first stage, the walk of
`ReAnalyzeStage_t` over the flow (`Drop` a path analysed before, `Analyze` one up
to the call that interrupts it, `FlowDone`). `LaterStage` and `FinalStage` are the
rest of the pipeline, `Finish` and `Stop` destroy the decompiler. The user
decompiles, decompiles again, purges the body, answers a question
(`SupplyStub`), goes on (`Resume`) or stops. `status` and `purge` are the function's
flags as `SetFuncStatus` (never lower) and the returns write them.

Where the code reads freed or null memory next (a path destroyed while the map
still holds it; a null target), or does not return (jumps in a circle), `broken` becomes true and nothing is said from
there on. `cut` marks a body whose generation was stopped: nothing in the code
tells it from a whole one, and the next decompilation analyses it as it is.

`Disassembly` promises: instructions are taken from the code the function can
reach, and the body is handed on only when nothing reachable is missing, or the
user stopped it. The refinement maps `found` to the instructions whose last
operation is in a live path and which no task is going to roll back.

## 3. Runs

| run | what it asks | distinct states |
|---|---|---|
| `circvec` | the vector implements the queue, grows only when full | 2 elements, 5 entries, so capacities 0, 1, 2, 4, 8 |
| `tasklist` | sets, dead slots, refusals, refinement, every task processed | 3 addresses: up to 6 tasks, capacity 8, wrapped |
| `controller_batch` | asserts, one step at a time, the script waits, the program ends with nothing left | about 1,600 |
| `controller_gui` | asserts fail on account of the user only; sleep is explained; analysis and script proceed | about 691,000 |
| `controller_stall` | *violated*: a sleep is announced, the step mode being switched | to the first violation |
| `guisync` | no stale paint under the lock, the tree's assert, an end, a failed assert or the one deadlock | about 17,000 |
| `guisync_deadlock` | *violated*: the program ends when the window is closed | about 17,000 |
| `sbtree` | links, searches, refinement of the list, balance | 9 nodes, 8 keys |
| `expr` | meaning kept, order kept by later loops, an end | some thousand expressions |
| `expr_endless` | *violated*: an end, for the sum with the least number | one expression |
| `decompiler` | paths tile the code, control goes where it goes, levels agree, status, errors, refinement, an end | about 366,000 |
| `decompiler_swap` | *violated*: control goes where it goes in the code | one function |

*Bounds.* For `circvec`, five elements make the vector grow three times with
its elements wrapped, and leave it emptied at every capacity. For `tasklist`,
the sets bound the list by themselves: no bound is added. For `Controller`:
`MaxTasks` and `MaxWork` bound what an analyzer finds, 2 or 3 suffice for
"more left", "the last", "none"; `MaxCommands = 1` lets one typed command of
every kind fall between any two steps of the program, and its two script lines
push analyzers while others are under way; `MaxClicks = 2` lets a click, or a
switch of the step mode, overtake the effect of another. Two larger instances have
been run once without becoming configurations: two commands with one click and one
switch (1,912,269 distinct states), and two commands with no click and one switch (154,116);
the four properties of `controller_gui` hold there too. With two commands the clause
on `project` in `AssertsNeedUser` meets its second way to fail. For `GuiSync`: two projects let a view of the first meet
the second; three commands suffice to open, replace and close; three GUI events
to open a page, show the blocks of a function and ask for them again while closing,
or to paint after having opened a page; one file per project, since
a second only repeats the message.

For `sbtree`, seven nodes are the fewest with which a removal can lose the balance
(section 4); nine leave room for trees that are rotated, also twice, beneath
their root on both sides. Two nodes with one key tell the order of equal keys. For `expr`, the
families in `MCExprSimpl` hold, for each translated rule, trees it fits and
neighbours it does not fit; eight bits make the additions of the family
`Wrapping` overflow. Four valuations tell the meanings apart.

For `decompiler`, a function has five instructions, which is what a loop with a
branch in it, a return and a call take; every arrangement of jumps is taken,
within `Varied`: one call, no straight instruction and no return twice. Three
stages are a first, a last and one between. `Plain` leaves out four shapes of
jumps to jumps in which the code leaves defined behaviour or does what section 4
lists. The callee removes nothing (`Cleanups = {0}`). Two
larger instances have been run once without becoming configurations: functions of
four instructions with every straight instruction any number of times and
`Cleanups = {0, 1}` (600,037 distinct states), and functions of five without the
demand for a plain return (1.4 million); the same properties hold.

*Fairness.* `Controller`: the loop of the core thread goes on while it has
events, and the GUI thread takes its messages and ends the click it has begun.
The user need not do anything. `TaskList`: the event loop calls `process` as
long as tasks are left, and a command ends. `GuiSync`: each thread goes on when
it can; weak fairness for the lock is enough, as the number of paint events is
bounded: a mutex that lets a stream of readers pass for ever is not excluded by
the code, but a stream of paint events for ever is not a behaviour of Qt. The
tasks window goes on with a paint it has begun. No
fairness for the user or for paint events. `SBTree` needs none. `ExprSimpl`: the
loops go on. `Decompiler`: the core thread runs while it has work, a pause ends,
and a user who is asked again and again for what a function removes from the
stack answers at some time (`SF_vars(SupplyStub)`: the question is open in pauses
only); stopping, purging and decompiling again are never owed. The weak fairness
of `Core` is written with its enabling condition, `CoreReady`, for TLC evaluates
`ENABLED Core` in each state very slowly; that the two agree was checked as an
invariant on functions of four instructions.

*Deadlock check.* On for the containers and `decompiler_swap`. Off for `Controller`
and `GuiSync`, which may stop: the program exits, or sleeps until a user comes;
for `ExprSimpl`, which ends; and for `decompiler`, which ends where the code
would read freed memory.

*Step mode.* Its switching is what `controller_stall` is about: `OnIdle` tests
for it twice. `controller_gui` checks that nothing else goes wrong with it:
`SleepIsExplained` and `AnalysisProceeds` except a step mode that has been
switched off, and nothing more.

*Mutants.* Every property of a passing run has in `PROJECT.json` a mutant: a
definition changed as a plausible bug would change the code (a slot not
cleared, a flag not tested, an event posted twice or never, a lock not
released, a view not told), under which TLC finds the property violated. The
mutated definitions stand before the originals.

## 4. Findings

Each of these is the violated property of a run, with the trace TLC prints.

1. `controller_stall`, `main.cpp:693`: `OnIdle` tests the stop request twice; with
   the step mode switched off in between the program sleeps with an analysis
   unfinished and Continue disabled.
2. `guisync_deadlock`, `main.cpp:790`: `closeProject` sends blocking messages with
   the write lock held. The Blocks window is not told that the project is about to
   close; Return in it, between the answer to that message and the first of those
   of `closeProject`, waits for the read lock (`ui_main_ex.cpp:1251`), and each
   thread for the other. `EndsOrDeadlocks` in `guisync` says that, of what is
   modelled, there is no other way to stop for good (but for a failed assert), and no
   other window in it. The Blocks window stands for others that ask the core for
   something under the lock (the code window, the dialog for prototypes).
3. `expr_endless`, `expr_simpl.cpp:769`: `CHS3` turns `a + -n` into `a - n`, `NEG1`
   turns it back when n is negative. The least number is its own negative:
   `Simplify()` does not end. `SUB1` has the test that `CHS3` lacks.
4. `decompiler_swap`, `ana_branch.cpp:1375`: `AdjustGoto2` turns
   `if (A) goto L1; goto L2; L1:` into `if (!A) goto L2; goto L1; L1:` without
   looking whether something else refers to the path of the second jump. In
   `1: if (A) goto 3; 2: goto 4; 3: ...; 4: if (B) goto 2; 5: return` the jump at 4
   leads to 3 from then on.

Met while modelling, with no run of their own:

* `ui_main.cpp:1139`: the tasks window paints with no lock. Between `hasProject()` and
  `project()` the core thread may destroy the project: the assert of `project()`
  (`main.cpp:991`) fails on the GUI thread, or, a step later, the window follows a
  destroyed project. `ADCTasksView`, whose `paintEvent` takes the lock, is never used.
  With the constants of `guisync`, TLC reaches `failed = "tasks"` and
  `failed = "freed"`.
* `ui_main_ex.cpp:1278`: `DumpBlocks` tests `hasProject()` only when it is given no name.
  The Blocks window keeps the name and its enabled toolbar when the project is closed;
  Return then fails the assert of `project()` (`failed = "blocks"`, with no race).
* `main.cpp:1074`: `LoadProject` announces a project that did not load. The file tree
  gets a model, is not told to drop it (`CloseProject` returns early without a project),
  and `slotProjectNew` asserts at the next project: with `LoadsFail = TRUE`,
  `TreeAssert` is violated.
* `circvec.h:197`: `begin()` = `end()` in a full vector, `end()` out of reach in an
  emptied one; `writeToDoList` iterates that way, and with one task the list shown
  is empty.
* With a user, asserts can fail, each for its own reason (`AssertsNeedUser` in
  `controller_gui` says which): a resume request calls `process()` of an analyzer
  that has finished and waits to be popped (`main.cpp:1243`); a script line inside a
  script (`main.cpp:491`); a click that races the closing of the project, or a second
  command that closes it between a `dc` and the resumption this asks for
  (`main.cpp:1244`); a decompiler started before a delayed `postformat`.
* `sbtree2.h:1689`: removing a node with two children whose neighbour lies deeper
  down has the wrong side maintained; `BalanceKept` names this one removal.
* `sbtree2.h:1798`: a cleared intrusive tree keeps its ends; `begin()` names a node
  that was taken out.
* `expr_simpl.cpp:1466`: a sum is divided part by part as soon as one part can be:
  `(a + (b + 4)) / 4` becomes `a/4 + (b/4 + 1)`. `Sound` therefore counts a
  valuation only where every division is exact.
* `ana_main.cpp:52`: the walk over the flow ends at a path that is not there
  (a jump out of the function) with other paths still on its stack; they reach the
  later stages unanalysed, and the error of `ReAnalyzePath` (lines 802-806) is never
  reached. Example, decompiled twice: `1: if (A) goto 4; 2: ...; 3: return; 4: call;
  5: goto elsewhere`. `Plain` has no branching function with a jump out of it.
* A path that is joined to the one before it (`CheckDanglingPath`) stays in
  `mPathMap`; the next lookup of its address reads freed memory (`broken`). `Plain`
  has no jump to a jump that may be joined this way.
* Jumps in a circle with nothing between them keep `__traceGoto` running for ever:
  the body is `broken` from there on. `Plain` has none.
* A stopped generation leaves a partial body that the next decompilation takes for
  a whole one (`cut`).
* `decompile -purge` raises the status and cannot lower it: after an error the
  next generation aborts however sound the code is.
* A path that was resumed after an interruption is not marked as analysed; another
  way into it overwrites its levels unchecked (`redone`).

## 5. Proofs

TLC checks the instances above; TLAPS proves the following for every set of
elements or addresses and, for the vector, every bound.

* `CircVec_proofs!TypeCorrect` (and with it the assert of `empty0()`), `GrowsWhenFull`, `Refinement`. The inductive
  invariant is `IsVector`: the vector has no buffer, or `mHead` is 0 and `mTail`
  the capacity (emptied), or both are slots. "Head and tail are slots or the
  capacity" is not inductive: in an emptied vector `mHead` has to be known to be 0,
  or the next push would leave a hole. The refinement rests on lemmas of `CircularVector_proofs`,
  one per operation, that say what it does to `Contents`; the one about
  `expand` splits on whether the elements are wrapped.
* `TaskList_proofs!TypeCorrect`, `SetsAgree`, `Refinement`. `SetsMatchQueue` is
  inductive only together with `TypeOK` and with the fact that the elements of the
  vector are tasks and no blanks. The lemmas about the vector are cited, not
  proved again. The refinement shows first in, first out, and that no covered
  request is accepted; that one is turned away only when covered it does not, for a
  list that refuses everything refines `TaskQueue`, too.
* `TaskList_proofs!RefusalsAreCovered` shows this of the test in `pushTaskBack`: from the
  agreement of the sets with the vector, an address that makes it refuse has its
  task in the list.
* `TaskList_proofs!NoTaskLeftBehind` (a slot outside the vector holds no task) needs
  the free slots told from the ends of the vector alone, which is what a pop, a
  push and `expand` change; the elements do not come into it.
* `Controller_proofs!TypeCorrect`. Its content is in the dependent parts: an
  analyzer is on the stack only while there is a project, and the core thread is
  in `process()` only with an analyzer on the stack, though the commands close
  the project, the GUI thread writes to the top of the stack and `OnIdle` drops
  analyzers in between. It is inductive as it stands: an event that opens a
  script names one (`Event`), which is what keeps the lines of `mpScript`
  commands. The `*Keeps` lemmas take the step's five parts one by one.
* `Controller_proofs!SleepExplained`. What the core thread has last told the GUI is
  decided in `OnIdle` and told in `Announce`, one or two steps later, while the
  GUI thread receives, clicks and switches. `SleepInv` says what holds in
  between: in `"announce"` with an empty queue a pause has been asked for, or the
  step mode has been switched off since; and while the program waits, the last
  word is right. It holds for the GUI and the batch mode alike.
* `Controller_proofs!ExitIsClean`: each of the three ends of `OnIdle` that exit has
  dropped the analyzers and the script.
* `Controller_proofs!StepsAreSingle` and `ScriptsWait` assume the batch mode
  (`Batch`: no GUI, lines of scripts that are commands, a command line that asks
  for no command of the project but through a script). The invariant `AloneInv`
  says of the whole queue what the properties say of its head: at most one step;
  a line waits for the analyzers to be gone, and nothing in front of it pushes
  one. Without that last part a `preformat` in front of a line would break it.
* `Controller_proofs!NoAssertFails` assumes `FlatBatch`, the batch mode with scripts
  that neither run a script nor ask for formatting, and at most one script on the
  command line. `SafeInv` adds to `AloneInv` that every analyzer beneath the
  topmost has work left (so that the one OnIdle pops to can be stepped), that a
  step is alone in the queue unless the stack is empty, that a line that runs
  something has at most a step beside it, and that a request for formatting meets
  no decompiler. The scripts and the command line of `controller_batch` satisfy
  both assumptions.
* `Controller_proofs!AssertsFailByUsersOnly` drops the batch mode: the same scripts
  and command line (`FlatRequests`, which both passing runs satisfy), a GUI or none,
  and a user who types commands of the program (`Typing`) and clicks. Each assert
  has an invariant of its own, true as long as the user has kept away from what the
  property names. For `process()` it is `SafeInv`, which only a command or a click
  disturbs (`Unattended`): the step mode may be switched at any time. For
  `project()`, `OrderlyInv`, with no click and at most one command typed: a
  resumption in the queue has its project, and nothing in front of it closes that; a
  `dc`, which may ask for one, comes from a script and waits, or was typed and has
  nothing behind it that closes. For the script and the decompiler, `ApartInv`, with
  no command typed and any clicks: at most one script is open or asked for, and a
  request for formatting or closing meets no decompiler, in the queue or on the
  stack. They were first checked by TLC on the instance of `controller_gui` with
  two commands, one click and one switch (1.9 million states).
* `Decompiler_proofs!StatusAlwaysFits` and `ErrorsStay`, for any code and any number
  of stages. The invariant `Life` joins the status to the stage. Every step of the
  first stage is abstracted to what it does to the life of the decompiler
  (`Stays`: the status as it is, or an error), so that nothing about paths enters.
* `Decompiler_proofs!TypesHold`, `PathsAlwaysTile` and `AllCodeIsHandedOn`, for any
  function, without the restrictions of `MCDecompiler`. `PathsTile` is not inductive:
  that a path stays whole under a split depends on the map, the map on which path is
  open, and what has to be generated next on the tasks. The invariant `IInv` says of
  the body that the paths of the tree are runs which do not overlap and the others are
  empty (`Tiled`), and, while it is generated, that the map names exactly these paths,
  that a gap stands behind the end of a path, and that only the current path ends where
  nothing is known to begin (`Mapped`); that the current path ends where the next
  instruction goes, or in the call that the first task rolls back (`Rests`,
  `RollsOnce`); and that the tasks together with the next address are code the body
  leads to, and hold all of it that the body does not (`Covers`). When nothing is left,
  `Covers` becomes `Complete`, which is what `HandOn` of `Disassembly` asks. The lemmas of
  `PathTree_proofs` say what each operator does to a tiled body, one per operator;
  each action then is a `Step`: the invariant again, and at most one address found, one
  the body led to. `IInv` was first checked on every function of three instructions
  with `Cleanups = {0, 1}` (267,079 distinct states), the refinement on every function of
  four (4,399,721).
* `PathTree_proofs` begins with induction over the natural numbers, proved from the
  definition of a least element without the library's theorems, whose operator
  parameters the provers cannot instantiate: a set of numbers takes the place of the
  predicate. With it the recursive functions are reasoned about (`Kept`, `TraceGoto`,
  `Levels`).
* `Levels_proofs!LevelsAgree`: `Converges` for every body the decompiler has generated
  and not analysed again since (`~redo`), for any function whose jumps do not move the
  stack (`JumpsAreLevel`; no jump of x86 does, and the functions of `MCDecompiler`
  do not). That the levels agree cannot be
  said of the body under construction alone: a goto refers to a path that may still
  be empty, or is turned (`TraceGoto`, `AdjustGoto2`) to where another goto leads, whose
  level only a task still waiting will bring. So the invariant speaks of every
  assignment of levels to addresses that follows from what is there: what is generated
  has its own level, what waits has the level its task brings. `Levelled` says that
  under each of them every goto and every step to the next instruction leads from a
  level to the same level; `Shaped`, what that rests on (instructions in the body go on
  to one that is there, or is next, or waits; a task comes from a jump that was taken,
  or is the rest of a call). One lemma per action shows that it grades its body; the
  one test of the code, `CheckAlreadyAnalized` (`RunInto`), enters where a path runs into
  another and where a task finds its address generated. When no task is left, the assignment is
  unique and `Levelled` becomes `Settled`, from which `Converges` follows.
* `Levels_proofs!ControlGoesOn`: `SameFlow`, for any function under `FlowAssumed`, in
  every state: while the body is generated, after it, analysed again, stopped or resumed.
  `FlowAssumed` is the complement of finding 4 and of what section 7 leaves out: no jump
  leads to a jump or a return that stands behind a conditional jump (`NoneShared`: without it
  the property is false, run `decompiler_swap`), jumps do not go in circles (`NoCircles`: the
  code would not return), they lead to the function or out of it, and do not move the
  stack. The functions of `MCDecompiler` satisfy it. `SameFlow` asks where control gets to
  through any number of gotos, which one step may change for many paths at once; the
  invariant `Routed` speaks of one goto at a time. The goto of an instruction leads to
  the same place as the jump it belongs to (`Source`: its own, or the other one of an
  exchanged pair), and not further up in a numbering of the addresses that falls
  with every jump (`Same`, `Numbers`): that two gotos turned one after the other do not
  come to refer to each other. With the numbers `Leads` and `LeadsInBody`
  are shown to satisfy their equations (which a recursive definition does only if a
  solution exists), `TraceGoto` to stay among places that lead to the same one, and
  `SameFlow` follows by induction on them. `Shaped` enters where a conditional jump is
  exchanged with the path behind it: that path is the code that follows it. `Routed` was first checked by TLC on the functions of `MCDecompiler` (1,027,284
  distinct states).
* `GuiSync_proofs!TypeCorrect`, `NothingStale`, and, if no load fails,
  `TreeFreeIfFilesLoad`. The inductive invariant joins four things to the types:
  the handshake (a blocking message is the last one under way and, while the core
  thread is about to close, says so); models, and views but for the tasks
  window, belong to the present project or to none; between the answer to `UIMSG_PROJECT_ABOUT_TO_CLOSE` and
  the destruction of the project there is neither a model nor a message that
  brings one; after it there is no project. Without the third, a message "new
  project" still under way could give the tree a model of what is being
  destroyed. `NothingStale` is about what waits for the lock; for the tasks window it
  would be false (section 4). `AnnouncedOnce` is the invariant for the tree's assert: at most one
  announcement is under way, and only while the tree has no model.

Assumptions: `Elem` holds `Blank`; a slot is a task or blank; `Idle` is
neither; the bounds are natural numbers; the lines of the scripts, the
command line and what the user types are events (`EventsAssumption`); `Nil` and
`Null` are no nodes and keys are integers; the functions decompiled have `N`
instructions, and a pipeline at least two stages. TLC evaluates them in every run.

Model-checked only: liveness (`EveryTaskProcessed`, `Exits`, `AnalysisProceeds`,
`ScriptProceeds`, `EndsOrDeadlocks`, `Terminates`, `Ends`), which is out of the
prover's reach, and of the safety properties those of the
tree and of the simplifier, and `Converges` for a body that was analysed again. `SBTree` and `ExprSimpl` declare recursive
operators, and no theorem can be stated in a module that does. For the tree that is
not the only reason. `sbt_erase_` looks the sentinel's most-left and most-right up
below the node that took the erased one's place, after `sbt_erase_maintain_` has
rotated the tree (`sbtree2.h:1631`). This is right only while no rotation sends that
node down, so the last conjunct of `WellLinked` rests on how well the tree is balanced
along its two outer paths, and `BalanceKept` says that a removal may leave the tree
unbalanced. The runs find that conjunct true within their bounds; for a tree of any size
it is neither proved nor refuted.

## 6. Plan

Done: the containers and the to-do list, the controller, the lock and the
messages, the balanced tree, the simplifier for integers, the first stage of the
decompiler. Left, in the order of what they would add:

1. *GuiSync, second part*: the other reader without the lock (`GetToDoList`,
   `ui_main.cpp:907`), the race for the analyzer and its list within one project (the
   tasks window may follow an analyzer that has been popped), the other windows that
   ask for something at any time (code, prototypes) and the refresh of the dump on the
   GUI thread (1479).
2. *Decompiler*: switch tables and thunks, which add ways out of a path; several
   functions at once, one waiting for the stub of another.
3. *ExprSimpl*: unsigned and 64-bit numbers; conditions made of `and` (`CHECK`).
4. *TaskList* for two modules, where the sets no longer tell the requests apart.
5. *Proofs*: `StepsAreSingle` and `NoAssertFails` for scripts that
   run scripts, as far as they hold; `Converges` after a second analysis of a
   function that neither falls nor jumps out, where the walk visits every path; the tree, with its walks
   written as recursive functions.

## 7. Not modelled

Of the parts that are modelled:

* *To-do list*: the sweeps (instruction decoding, cross references) appear as the
  requests they make. The text of commands is abstracted to its kind and address;
  that the sweep's depth option is written as `-d <<` and never understood is
  noted under the hazards.
* *Tree*: emplacing, copying and slices, which allocate nodes.
* *Simplifier*: rules that ask for a type, a storage or the list of operations
  (pointers, reals, halves and fractions, fields, assignments, calls, indirect
  accesses, raw conditions), bitwise `and` and the checks made of it, unsigned and
  64-bit numbers, `SHR1` and the mode without reduction (`m_bNoReduce`). They rewrite by context that
  a single tree does not hold.
* *Decompiler*: switch tables, thunks, calls of the next address, the stack of the
  floating point unit, invalid instructions, functions whose callers clean up in
  another way, the data stage's flag. The stages between the first
  and the last are assumed to leave the flow as it was generated and only succeed
  or fail: each is a pass over expressions, which are not part of this model. The
  pauses of the step mode are in `Controller`.

Not at all: the debugger (its constructor asserts false at this commit, and
outside Windows its methods are empty); the binary database, save and load (one
thread, sequential, formats of files); front ends, instruction decoders and file
formats (pure functions of file contents, most of the lines of `src/src/front`);
types and declarations; painting and dialogs; `utils/` (the source of third-party
programs: PDB readers, `undname`, WinMerge, `dump_syms`).

Most of the lines of the repository are in these last. The mapped definitions
cover the concurrent and stateful core and two of its algorithms; what remains of
the core (the dumps, the stages over expressions and types) changes one data
structure in one thread, and has no interleaving, no failure and no order of
events for a model to explore, only large data.
