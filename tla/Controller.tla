----------------------------- MODULE Controller -----------------------------
(***************************************************************************)
(* Main_t (db/main.cpp) and the analyzer stack of Project_t (db/proj.cpp): *)
(* the core thread takes events from one queue, runs commands, keeps the   *)
(* project, lets the topmost analyzer make a step for every                *)
(* EVENT_ANLZ_PROCESS, and when the queue is empty decides in OnIdle what  *)
(* comes next: another step, the next line of the script, the end.  The    *)
(* GUI thread posts commands and, through resumeAnalysis, writes the stop  *)
(* flag of the topmost analyzer without a lock.                            *)
(*                                                                         *)
(* An assert of the code that fails ends the program: "failed" says where. *)
(* An analyzer is its kind, its stop flag and the number of tasks or       *)
(* stages it has left: "bin" is BinaryAnalyzer_t, "post" PostAnalysis_t,   *)
(* "dc" Decompiler_t.                                                      *)
(***************************************************************************)
EXTENDS Integers, Sequences

CONSTANTS
    Interactive,   \* is there a GUI (igui()), or is this the batch mode?
    Lines,         \* script name -> its lines, a sequence of commands
    Boot,          \* the events onCreate posts for the command line
    UserCommands,  \* the commands the user of the GUI can type
    MaxCommands,   \* bound on the commands typed
    MaxClicks,     \* bound on the clicks: Continue, Pause, Stop, step mode
    MaxToggles,    \* bound on the switches of the step mode among them
    MaxTasks,      \* bound on the tasks of one analyzer
    MaxWork        \* bound on the tasks found and the faults met, in all

ASSUME InteractiveAssumption == Interactive \in BOOLEAN

ASSUME BoundsAssumption ==
    {MaxCommands, MaxClicks, MaxToggles, MaxTasks, MaxWork} \subseteq Nat

Ops == {"new", "newadd", "open", "preformat", "postformat", "analyze", "dc",
        "dcfile", "script", "other"}

(* Commands of the project, unknown while there is none. *)
ProjectOps == {"preformat", "postformat", "analyze", "dc", "dcfile"}

Args == DOMAIN Lines \cup {"none"}

(* The commands, and what the core thread sends itself.  Two of them name  *)
(* a script.                                                               *)
Event ==
    {e \in [id : Ops \cup {"EVENT_SCRIPT", "EVENT_ANLZ_PROCESS", "EVENT_ANLZ_RESUME"},
            arg : Args] : e.id \in {"script", "EVENT_SCRIPT"} => e.arg \in DOMAIN Lines}

ASSUME EventsAssumption ==
    /\ Lines \in [DOMAIN Lines -> Seq(Event)]
    /\ Boot \in Seq(Event) /\ UserCommands \subseteq Event

event(id) == [id |-> id, arg |-> "none"]

StopFlag == {"ABORT", "RESET", "PAUSE"}

Status == {"running", "paused", "stopped"}

Analyzer == [kind : {"bin", "post", "dc"}, stopFlag : StopFlag, left : 0 .. MaxTasks]

VARIABLES
    queue,      \* the events of the core thread's loop
    mpProject,  \* is there a project?
    mAnlz,      \* its analyzers, the topmost last
    mpScript,   \* the script in progress, if any, and its lines to come
    debugMode,
    core,       \* where the core thread is: see the actions
    waiting,    \* it has called OnIdle and no event has come since
    toGui,      \* status notifications on their way to the GUI
    buttons,    \* the status the GUI shows, which enables its buttons
    click,      \* a resumeAnalysis under way on the GUI thread
    inputs,     \* commands, clicks and toggles so far
    work,       \* what is left of MaxWork
    failed      \* the assert that failed, or "no"

coreVars  == <<mpProject, mAnlz, mpScript, core, waiting, work>>
guiVars   == <<buttons, click, inputs, debugMode>>
vars == <<queue, toGui, coreVars, guiVars, failed>>

NoScript == [open |-> FALSE, lines |-> <<>>]

Init ==
    /\ queue = Boot
    /\ mpProject = FALSE
    /\ mAnlz = <<>>
    /\ mpScript = NoScript
    /\ debugMode \in {FALSE, Interactive}
    /\ core = "loop"
    /\ waiting = TRUE
    /\ toGui = <<>>
    /\ buttons = "stopped"
    /\ click = "no"
    /\ inputs = [commands |-> 0, clicks |-> 0, toggles |-> 0]
    /\ work = MaxWork
    /\ failed = "no"

-----------------------------------------------------------------------------
(* Notifications.  The GUI reads them in order; one equal to its           *)
(* predecessor changes nothing and is left out.                            *)
lastNotified == IF toGui = <<>> THEN buttons ELSE toGui[Len(toGui)]

notified(status) ==
    IF Interactive /\ lastNotified # status THEN Append(toGui, status) ELSE toGui

(* OnBusy: an event ends the waiting. *)
woken == IF waiting THEN notified("running") ELSE toGui

(* The analyzer stack. *)
analyzer == mAnlz[Len(mAnlz)]

hasAnalyzer == mpProject /\ mAnlz # <<>>

withTop(a) == [mAnlz EXCEPT ![Len(mAnlz)] = a]

popAnalizer == SubSeq(mAnlz, 1, Len(mAnlz) - 1)

decompilerOnTop == mAnlz # <<>> /\ analyzer.kind = "dc"

newAnalyzer(kind, n) == [kind |-> kind, stopFlag |-> "RESET", left |-> n]

(* k tasks for the binary analyzer: StartBinaryAnalizer makes one unless   *)
(* the topmost is one.                                                     *)
withTasks(s, k) ==
    IF k = 0 THEN s
    ELSE IF s # <<>> /\ s[Len(s)].kind = "bin"
         THEN [s EXCEPT ![Len(s)].left = @ + k]
         ELSE Append(s, newAnalyzer("bin", k))

CanAdd(s, k) ==
    /\ k =< work
    /\ withTasks(s, k)[Len(withTasks(s, k))].left =< MaxTasks

checkStopRequest ==
    IF ~hasAnalyzer \/ (analyzer.stopFlag = "RESET" /\ ~debugMode) THEN 0
    ELSE IF analyzer.stopFlag = "ABORT" \/ ~Interactive THEN -1
    ELSE 1

-----------------------------------------------------------------------------
(* processEvent2: the core thread takes the first event of the queue.      *)

Running == failed = "no" /\ core # "exited"

Take(id) ==
    /\ Running
    /\ core = "loop"
    /\ queue # <<>>
    /\ Head(queue).id = id
    /\ waiting' = FALSE
    /\ UNCHANGED guiVars

Keep == queue' = Tail(queue) /\ toGui' = woken

ThenPost(e) == queue' = Append(Tail(queue), e) /\ toGui' = woken

(* Mutant of TakeProcess: no test for an analyzer. *)
TakeProcessUntested ==
    /\ Take("EVENT_ANLZ_PROCESS")
    /\ Keep
    /\ core' = IF mpProject /\ (mAnlz = <<>> \/ analyzer.stopFlag = "RESET")
               THEN "process" ELSE "loop"
    /\ UNCHANGED <<mpProject, mAnlz, mpScript, work, failed>>

(* Mutant of TakeProcess: the step posts the next one itself, too. *)
TakeProcessReposts ==
    /\ Take("EVENT_ANLZ_PROCESS")
    /\ IF hasAnalyzer /\ analyzer.stopFlag = "RESET"
       THEN core' = "process" /\ ThenPost(event("EVENT_ANLZ_PROCESS"))
       ELSE core' = "loop" /\ Keep
    /\ UNCHANGED <<mpProject, mAnlz, mpScript, work, failed>>

(* execAnalyzer up to the test of the stop flag. *)
TakeProcess ==
    /\ Take("EVENT_ANLZ_PROCESS")
    /\ Keep
    /\ core' = IF hasAnalyzer /\ analyzer.stopFlag = "RESET" THEN "process" ELSE "loop"
    /\ UNCHANGED <<mpProject, mAnlz, mpScript, work, failed>>

(* OnAnlzReady, and then project(), which asserts that there is one. *)
TakeResume ==
    /\ Take("EVENT_ANLZ_RESUME")
    /\ queue' = Append(Tail(queue), event("EVENT_ANLZ_PROCESS"))
    /\ failed' = IF mpProject THEN "no" ELSE "project"
    /\ toGui' = IF hasAnalyzer THEN notified("running") ELSE woken
    /\ UNCHANGED <<mpProject, mAnlz, mpScript, core, work>>

(* OpenScript asserts that no script is in progress. *)
TakeEventScript ==
    /\ Take("EVENT_SCRIPT")
    /\ Keep
    /\ IF mpScript.open
       THEN failed' = "script" /\ UNCHANGED mpScript
       ELSE /\ mpScript' = [open |-> TRUE, lines |-> Lines[Head(queue).arg]]
            /\ UNCHANGED failed
    /\ UNCHANGED <<mpProject, mAnlz, core, work>>

(* CloseProject drops the analyzers and the project, whatever follows. *)
CloseProjectThen(isOpen) == mpProject' = isOpen /\ mAnlz' = <<>>

(* NewProject: the file may not be a module any front end knows. *)
TakeNew ==
    /\ Take("new")
    /\ \E ok \in BOOLEAN :
          /\ CloseProjectThen(ok)
          /\ IF ok THEN ThenPost(event("preformat")) ELSE Keep
    /\ UNCHANGED <<mpScript, core, work, failed>>

(* new -a: adds a module, and falls back to NewProject when it cannot. *)
TakeNewAdd ==
    /\ Take("newadd")
    /\ \E added, ok \in BOOLEAN :
          /\ added => mpProject
          /\ IF added THEN UNCHANGED <<mpProject, mAnlz>> ELSE CloseProjectThen(ok)
          /\ IF added \/ ok THEN ThenPost(event("preformat")) ELSE Keep
    /\ UNCHANGED <<mpScript, core, work, failed>>

(* LoadProject: no file, or one that does not load, leaves no project. *)
TakeOpen ==
    /\ Take("open")
    /\ \E ok \in BOOLEAN : CloseProjectThen(ok)
    /\ Keep
    /\ UNCHANGED <<mpScript, core, work, failed>>

(* The front end formats the module: it finds entry points, and asks for   *)
(* the decompiler's formatting.                                            *)
TakePreformat ==
    /\ Take("preformat")
    /\ mpProject
    /\ \E k \in 0 .. work : /\ k > 0 => CanAdd(mAnlz, k)
                            /\ mAnlz' = withTasks(mAnlz, k)
                            /\ work' = work - k
    /\ Keep \/ ThenPost(event("postformat"))
    /\ UNCHANGED <<mpProject, mpScript, core, failed>>

(* postformat: nothing when the module has no decompiler data (a project   *)
(* opened since the request); asserts that no decompiler is on top.        *)
TakePostformat ==
    /\ Take("postformat")
    /\ mpProject
    /\ Keep
    /\ \/ UNCHANGED <<mAnlz, failed>>
       \/ /\ decompilerOnTop
          /\ failed' = "decompiler"
          /\ UNCHANGED mAnlz
       \/ /\ ~decompilerOnTop
          /\ mAnlz' = Append(mAnlz, newAnalyzer("post", MaxTasks))
          /\ UNCHANGED failed
    /\ UNCHANGED <<mpProject, mpScript, core, work>>

(* makecode, makefunc and the like: the sweep leaves tasks for later. *)
TakeAnalyze ==
    /\ Take("analyze")
    /\ mpProject
    /\ \E k \in 0 .. work : /\ k > 0 => CanAdd(mAnlz, k)
                            /\ mAnlz' = withTasks(mAnlz, k)
                            /\ work' = work - k
    /\ Keep
    /\ UNCHANGED <<mpProject, mpScript, core, failed>>

(* decompile: resumes an analysis in progress, or starts one. *)
TakeDc ==
    /\ Take("dc")
    /\ mpProject
    /\ IF mAnlz # <<>>
       THEN /\ mAnlz' = withTop([analyzer EXCEPT !.stopFlag = "RESET"])
            /\ ThenPost(event("EVENT_ANLZ_RESUME"))
       ELSE /\ mAnlz' \in {mAnlz, <<newAnalyzer("dc", MaxTasks)>>}
            /\ Keep
    /\ UNCHANGED <<mpProject, mpScript, core, work, failed>>

(* dcfile: a line for every function of the file, ahead of the script, or  *)
(* nothing when the context has no file.                                   *)
TakeDcFile ==
    /\ Take("dcfile")
    /\ mpProject
    /\ Keep
    /\ \/ UNCHANGED mpScript
       \/ \E n \in 0 .. 2 :
             mpScript' = [open |-> TRUE, lines |-> [i \in 1 .. n |-> event("dc")] \o mpScript.lines]
    /\ UNCHANGED <<mpProject, mAnlz, core, work, failed>>

TakeScript ==
    /\ Take("script")
    /\ ThenPost([id |-> "EVENT_SCRIPT", arg |-> Head(queue).arg])
    /\ UNCHANGED <<mpProject, mAnlz, mpScript, core, work, failed>>

(* Any other command, and a command of the project without a project. *)
TakeOther ==
    /\ \/ Take("other")
       \/ ~mpProject /\ \E id \in ProjectOps : Take(id)
    /\ Keep
    /\ UNCHANGED <<mpProject, mAnlz, mpScript, core, work, failed>>

TakeEvent ==
    \/ TakeProcess \/ TakeResume \/ TakeEventScript
    \/ TakeNew \/ TakeNewAdd \/ TakeOpen \/ TakePreformat \/ TakePostformat
    \/ TakeAnalyze \/ TakeDc \/ TakeDcFile \/ TakeScript \/ TakeOther

-----------------------------------------------------------------------------
(* IAnalyzer::process of the topmost analyzer, under the write lock.  The  *)
(* GUI may have written the stop flag since it was tested.                 *)

AtProcess(kind) ==
    /\ Running
    /\ core = "process"
    /\ analyzer.kind = kind
    /\ core' = "loop"
    /\ UNCHANGED <<queue, toGui, mpProject, mpScript, waiting, guiVars>>

(* One task, which may find more; process() asserts that there is one. *)
ProcessBin ==
    /\ AtProcess("bin")
    /\ IF analyzer.left = 0
       THEN failed' = "process" /\ UNCHANGED <<mAnlz, work>>
       ELSE /\ \E k \in 0 .. work :
                  /\ analyzer.left - 1 + k =< MaxTasks
                  /\ mAnlz' = withTop([analyzer EXCEPT !.left = @ - 1 + k])
                  /\ work' = work - k
            /\ UNCHANGED failed

(* A run of the front stage, which may ask for a sweep and may have to be  *)
(* continued; without a stage left nothing happens.                        *)
ProcessPost ==
    /\ AtProcess("post")
    /\ IF analyzer.left = 0
       THEN UNCHANGED <<mAnlz, work>>
       ELSE \E k \in 0 .. work, done \in BOOLEAN :
              /\ k =< MaxTasks
              /\ ~done => k > 0
              /\ mAnlz' = withTasks(withTop([analyzer EXCEPT !.left = IF done THEN @ - 1 ELSE @]), k)
              /\ work' = work - k
    /\ UNCHANGED failed

(* runOnce and afterRun.  A fault in a stage requests a pause; a stage     *)
(* leaves early when it finds the flag set; a stage that fails ends the    *)
(* decompilation; in the debug mode every stage is followed by a pause.    *)
ProcessDc ==
    /\ AtProcess("dc")
    /\ IF analyzer.left = 0
       THEN failed' = "process" /\ UNCHANGED <<mAnlz, work>>
       ELSE /\ \E n \in {0, analyzer.left - 1, analyzer.left}, fault \in BOOLEAN :
                  /\ fault => n = analyzer.left /\ work > 0
                  /\ n = analyzer.left => fault \/ analyzer.stopFlag # "RESET"
                  /\ mAnlz' = withTop([analyzer EXCEPT
                                 !.left = n,
                                 !.stopFlag = IF fault \/ (debugMode /\ n > 0) THEN "PAUSE" ELSE @])
                  /\ work' = IF fault THEN work - 1 ELSE work
            /\ UNCHANGED failed

Process == ProcessBin \/ ProcessPost \/ ProcessDc

-----------------------------------------------------------------------------
(* OnIdle, called once when the queue has become empty.                    *)

AtIdle ==
    /\ Running
    /\ core = "loop"
    /\ queue = <<>>
    /\ ~waiting
    /\ UNCHANGED <<mpProject, work, failed, guiVars>>

(* Back in the loop, which waits if nothing has been posted. *)
Return == core' = "loop" /\ waiting' = (queue' = <<>>)

(* The end of OnIdle when CheckEvents has found nothing to go on with. *)
NothingLeft ==
    IF Interactive
    THEN toGui' = notified("stopped") /\ Return
    ELSE core' = "exited" /\ UNCHANGED <<toGui, waiting>>

(* Mutant of CheckScript: the line is read but not removed. *)
CheckScriptRepeats(script, posted) ==
    IF script.open /\ script.lines # <<>>
    THEN /\ queue' = Append(posted, Head(script.lines))
         /\ mpScript' = script
         /\ core' = "announce"
         /\ UNCHANGED <<toGui, waiting>>
    ELSE /\ queue' = posted
         /\ mpScript' = NoScript
         /\ NothingLeft

(* The second half of CheckEvents, after the events "posted" by the first: *)
(* the next line of the script, or its end.                                *)
CheckScript(script, posted) ==
    IF script.open /\ script.lines # <<>>
    THEN /\ queue' = Append(posted, Head(script.lines))
         /\ mpScript' = [script EXCEPT !.lines = Tail(@)]
         /\ core' = "announce"
         /\ UNCHANGED <<toGui, waiting>>
    ELSE /\ queue' = posted
         /\ mpScript' = NoScript
         /\ NothingLeft

(* Mutant of finished: off by one. *)
finishedLate == analyzer.left < 0

finished == analyzer.left = 0

(* Mutant of IdleFinished: the analyzer under the popped one is forgotten. *)
IdleFinishedGivesUp ==
    /\ AtIdle
    /\ hasAnalyzer
    /\ finished
    /\ mAnlz' = popAnalizer
    /\ CheckScript(mpScript, <<event("EVENT_ANLZ_PROCESS")>>)

(* checkAnalyzerStatus: a finished analyzer is popped, and the one under   *)
(* it gets its turn; OnAnlzReady is called even when there is none.        *)
IdleFinished ==
    /\ AtIdle
    /\ hasAnalyzer
    /\ finished
    /\ mAnlz' = popAnalizer
    /\ IF popAnalizer # <<>>
       THEN /\ queue' = <<event("EVENT_ANLZ_PROCESS")>>
            /\ core' = "announce"
            /\ UNCHANGED <<mpScript, toGui, waiting>>
       ELSE CheckScript(mpScript, <<event("EVENT_ANLZ_PROCESS")>>)

(* An abort request drops all analyzers and the script. *)
IdleAbort ==
    /\ AtIdle
    /\ hasAnalyzer
    /\ ~finished
    /\ checkStopRequest < 0
    /\ mAnlz' = <<>>
    /\ CheckScript(NoScript, <<>>)

(* A pause request: nothing is posted. *)
IdlePause ==
    /\ AtIdle
    /\ hasAnalyzer
    /\ ~finished
    /\ checkStopRequest > 0
    /\ core' = "announce"
    /\ UNCHANGED <<mAnlz, mpScript, queue, toGui, waiting>>

(* Mutant of IdleProceed: checkAnalyzerStatus returns false at its end. *)
IdleProceedFallsThrough ==
    /\ AtIdle
    /\ hasAnalyzer
    /\ ~finished
    /\ checkStopRequest = 0
    /\ CheckScript(mpScript, <<event("EVENT_ANLZ_PROCESS")>>)
    /\ UNCHANGED mAnlz

(* Mutant of IdleProceed: nothing is posted. *)
IdleProceedForgets ==
    /\ AtIdle
    /\ hasAnalyzer
    /\ ~finished
    /\ checkStopRequest = 0
    /\ core' = "announce"
    /\ UNCHANGED <<queue, mAnlz, mpScript, toGui, waiting>>

IdleProceed ==
    /\ AtIdle
    /\ hasAnalyzer
    /\ ~finished
    /\ checkStopRequest = 0
    /\ queue' = <<event("EVENT_ANLZ_PROCESS")>>
    /\ core' = "announce"
    /\ UNCHANGED <<mAnlz, mpScript, toGui, waiting>>

IdleNoAnalyzer ==
    /\ AtIdle
    /\ ~hasAnalyzer
    /\ CheckScript(mpScript, <<>>)
    /\ UNCHANGED mAnlz

(* Mutant of Announce: a pause is kept from the GUI. *)
AnnounceNothing ==
    /\ Running
    /\ core = "announce"
    /\ UNCHANGED <<queue, toGui, mpProject, mAnlz, mpScript, work, failed, guiVars>>
    /\ Return

(* OnIdle tests for a stop request once more, to tell the GUI. *)
Announce ==
    /\ Running
    /\ core = "announce"
    /\ toGui' = IF checkStopRequest > 0 THEN notified("paused") ELSE toGui
    /\ UNCHANGED <<queue, mpProject, mAnlz, mpScript, work, failed, guiVars>>
    /\ Return

OnIdle ==
    \/ IdleFinished \/ IdleAbort \/ IdlePause \/ IdleProceed \/ IdleNoAnalyzer
    \/ Announce

-----------------------------------------------------------------------------
(* The GUI thread. *)

Receive ==
    /\ Running
    /\ toGui # <<>>
    /\ buttons' = Head(toGui)
    /\ toGui' = Tail(toGui)
    /\ UNCHANGED <<queue, coreVars, click, inputs, debugMode, failed>>

PostCommand ==
    /\ Running
    /\ Interactive
    /\ inputs.commands < MaxCommands
    /\ \E c \in UserCommands : queue' = Append(queue, c)
    /\ inputs' = [inputs EXCEPT !.commands = @ + 1]
    /\ UNCHANGED <<toGui, coreVars, buttons, click, debugMode, failed>>

(* Which buttons slotAnlzStatusChanged has enabled. *)
Enables(flag) ==
    CASE flag = "RESET" -> buttons = "paused"
      [] flag = "PAUSE" -> buttons = "running"
      [] flag = "ABORT" -> buttons # "stopped"

(* Continue, Pause or Stop: resumeAnalysis up to its test ... *)
Click ==
    /\ Running
    /\ click = "no"
    /\ inputs.clicks + inputs.toggles < MaxClicks
    /\ \E flag \in StopFlag : Enables(flag) /\ click' = IF hasAnalyzer THEN flag ELSE "no"
    /\ inputs' = [inputs EXCEPT !.clicks = @ + 1]
    /\ UNCHANGED <<queue, toGui, coreVars, buttons, debugMode, failed>>

(* ... and from it on.  It asks for the project and its analyzer again. *)
ClickSetsFlag ==
    /\ Running
    /\ click # "no"
    /\ click' = "no"
    /\ IF hasAnalyzer
       THEN /\ mAnlz' = withTop([analyzer EXCEPT !.stopFlag = click])
            /\ queue' = Append(queue, event("EVENT_ANLZ_RESUME"))
            /\ UNCHANGED failed
       ELSE /\ failed' = IF mpProject THEN "analyzer" ELSE "project"
            /\ UNCHANGED <<mAnlz, queue>>
    /\ UNCHANGED <<toGui, mpProject, mpScript, core, waiting, work, buttons, inputs, debugMode>>

ToggleDebugMode ==
    /\ Running
    /\ Interactive
    /\ inputs.toggles < MaxToggles
    /\ inputs.clicks + inputs.toggles < MaxClicks
    /\ debugMode' = ~debugMode
    /\ inputs' = [inputs EXCEPT !.toggles = @ + 1]
    /\ UNCHANGED <<queue, toGui, coreVars, buttons, click, failed>>

User == PostCommand \/ Click \/ ToggleDebugMode

Next == TakeEvent \/ Process \/ OnIdle \/ Receive \/ ClickSetsFlag \/ User

Spec == Init /\ [][Next]_vars

(* The two threads go on; the user does what he likes. *)
FairSpec ==
    /\ Spec
    /\ WF_vars(TakeEvent \/ Process \/ OnIdle)
    /\ WF_vars(Receive)
    /\ WF_vars(ClickSetsFlag)

-----------------------------------------------------------------------------
(***************************************************************************)
(* The shape of the state.  Its dependent parts: analyzers exist only with *)
(* a project, and a step is made only with an analyzer.                    *)
(***************************************************************************)
TypeOK ==
    /\ queue \in Seq(Event)
    /\ mpProject \in BOOLEAN
    /\ mAnlz \in Seq(Analyzer) /\ (mAnlz # <<>> => mpProject)
    /\ mpScript \in [open : BOOLEAN, lines : Seq(Event)]
    /\ debugMode \in BOOLEAN /\ waiting \in BOOLEAN /\ work \in Nat
    /\ core \in {"loop", "process", "announce", "exited"}
    /\ core = "process" => mAnlz # <<>>
    /\ toGui \in Seq(Status) /\ buttons \in Status
    /\ click \in StopFlag \cup {"no"}
    /\ inputs \in [commands : Nat, clicks : Nat, toggles : Nat]
    /\ failed \in {"no", "process", "script", "project", "decompiler", "analyzer"}

(* In the batch mode no assert fails: process() is called with a task left *)
(* (BinaryAnalyzer_t::process, runOnce), OpenScript with no script in      *)
(* progress, Main_t::project() with a project, and postformat with no      *)
(* decompiler on top.                                                      *)
AllAsserts == failed = "no"

(* With a user they can fail, but not of themselves, and each on account   *)
(* of its own kind of interference: a finished analyzer is stepped only    *)
(* after a click or a command posted one step too many; the project is     *)
(* missed by a click that raced its closing, or by a second command that   *)
(* closed it between a dc and the resumption this asks for; and a script   *)
(* or a decompiler is met in progress only by a command.                   *)
AssertsNeedUser ==
    /\ failed = "process" => inputs.commands + inputs.clicks > 0
    /\ failed = "project" => inputs.clicks > 0 \/ inputs.commands > 1
    /\ failed = "analyzer" => inputs.clicks > 0
    /\ failed \in {"script", "decompiler"} => inputs.commands > 0

(***************************************************************************)
(* When the core thread has gone to sleep, the last thing it told the GUI  *)
(* is right: "paused" if analyzers are left, which is the only status that *)
(* enables Continue, and "stopped" if not.                                 *)
(***************************************************************************)
Asleep == core = "loop" /\ waiting /\ queue = <<>> /\ failed = "no"

SleepIsAnnounced ==
    Asleep /\ click = "no" => lastNotified = IF mAnlz = <<>> THEN "stopped" ELSE "paused"

(* It is right as long as the step mode has never been switched off:       *)
(* OnIdle tests for it twice, and so much can go wrong in between, but no  *)
(* more.                                                                   *)
SwitchedOff == inputs.toggles > IF debugMode THEN 1 ELSE 0

SleepIsExplained == SwitchedOff \/ SleepIsAnnounced

(* An event for a step of the analyzer is in the queue at most once, and   *)
(* not while a step is being made: steps are not doubled.                  *)
OneStepAtATime ==
    LET steps == {i \in DOMAIN queue : queue[i].id = "EVENT_ANLZ_PROCESS"}
    IN  /\ \A i, j \in steps : i = j
        /\ core = "process" => steps = {}

(* A line of the script is executed only after the analysis that the lines *)
(* before it started.                                                      *)
ScriptWaits ==
    core = "loop" /\ queue # <<>>
      /\ Head(queue).id \in Ops \ {"preformat", "postformat"}
    => mAnlz = <<>>

(* The batch mode comes to an end, *)
Exits == <>(core = "exited")

(* with no analysis and no script left behind. *)
ExitsClean == core = "exited" => mAnlz = <<>> /\ mpScript = NoScript

(* Analysis goes on until it is done, or paused: by the user, by a fault,  *)
(* by the step mode, or as above.                                          *)
AnalysisProceeds ==
    mAnlz # <<>> ~> \/ mAnlz = <<>> \/ failed # "no"
                    \/ Asleep /\ (analyzer.stopFlag = "PAUSE" \/ debugMode \/ SwitchedOff)

(* A script is played to its end, unless the analysis of a line pauses. *)
ScriptProceeds ==
    mpScript.open ~> \/ ~mpScript.open \/ failed # "no"
                     \/ Asleep /\ mAnlz # <<>>
=============================================================================
