------------------------------- MODULE GuiSync ------------------------------
(***************************************************************************)
(* How the core thread and the GUI thread share the project.  Two things   *)
(* tie them together.  The lock mxProject (db/main.h): the core thread     *)
(* holds it while it changes the project, the GUI thread while it paints   *)
(* the file tree or a page, or dumps the blocks of a function for the      *)
(* Blocks window.  And SendEvent (uiqt5/sx/SxGUI.cpp): the core thread     *)
(* posts a message and sleeps on a semaphore until the GUI thread has      *)
(* handled it and, in setReturnCode, whatever else was pending.            *)
(*                                                                         *)
(* To close a project the core thread first has the GUI drop its views     *)
(* (UIMSG_PROJECT_ABOUT_TO_CLOSE), then takes the lock.  Two permanent     *)
(* windows are not told.  The Blocks window may ask for the blocks of a    *)
(* function at any time, and waits for the lock.  The window with the to-  *)
(* do list, a plain QListView, paints without it: it tests that there is a *)
(* project, fetches it and follows it, with the core thread at work in     *)
(* between.                                                                *)
(*                                                                         *)
(* Projects are numbered in the order of their creation, 0 is none.  Only  *)
(* the core thread writes and only the GUI thread reads, so that the lock  *)
(* has at most one holder.                                                 *)
(***************************************************************************)
EXTENDS Integers, Sequences

CONSTANTS
    Files,        \* how many messages UIMSG_FILE_PRIOR_REMOVED a project takes
    LoadsFail,    \* can the file of a project be missing or damaged?
    MaxProjects,  \* bound on the projects created
    MaxCommands,  \* bound on the commands executed
    MaxEvents     \* bound on paint events, clicks, and fetches of the project

ASSUME GuiSyncAssumption ==
    {Files, MaxProjects, MaxCommands, MaxEvents} \subseteq Nat /\ LoadsFail \in BOOLEAN

Commands == {"new", "open", "work", "quit"}

(* The messages SendEvent sends, and those PostEvent does. *)
Blocking == {"ABOUT_TO_CLOSE", "FILE_PRIOR_REMOVED", "PROCESS_EVENTS"}

Messages == Blocking \cup {"NEW", "OPENED", "CLOSED"}

NoModel == -1

VARIABLES
    mpProject,  \* the present project
    created,    \* the projects created so far
    mxProject,  \* the holder of the lock: "free", "core" or "gui"
    mSem,       \* the semaphore of the last SendEvent: 0 until answered
    core,       \* where the core thread is: see the actions
    command,    \* the command it executes
    files,      \* files not yet reported by closeProject
    executed,   \* commands so far
    toGui,      \* messages on their way to the GUI thread
    gui,        \* where the GUI thread is: "loop", "lock", "paint",
                \* or in the to-do list: "fetch", "follow"
    view,       \* the view it paints, and the project its items are of
    answering,  \* it is in setReturnCode of a blocking message
    tree,       \* the project in the file tree, or NoModel
    pages,      \* the projects of the open pages
    blocks,     \* does the Blocks window have a name to ask for?
    events,     \* paint events, clicks and fetches so far
    quit,       \* has the user closed the main window?
    failed      \* "none", or what the program failed of: see Failures

projectVars == <<mpProject, created>>
coreVars == <<core, command, files, executed>>
guiVars  == <<gui, view, answering, tree, pages, blocks, events, quit, failed>>
vars == <<projectVars, mxProject, mSem, toGui, coreVars, guiVars>>

NoView == [kind |-> "none", of |-> 0]

(* Q_ASSERT of slotProjectNew; the assert of project(), called for the     *)
(* to-do list or the blocks; a destroyed project followed.                 *)
Failures == {"tree", "tasks", "blocks", "freed"}

Init ==
    /\ mpProject = 0 /\ created = 0
    /\ mxProject = "free" /\ mSem = 1
    /\ core = "loop" /\ command = "work" /\ files = 0 /\ executed = 0
    /\ toGui = <<>>
    /\ gui = "loop" /\ view = NoView /\ answering = FALSE
    /\ tree = NoModel /\ pages = {}
    /\ blocks = FALSE /\ events = 0 /\ quit = FALSE /\ failed = "none"

Running == core # "exited" /\ failed = "none"

-----------------------------------------------------------------------------
(* The core thread. *)

At(place) == Running /\ core = place /\ UNCHANGED guiVars

PostEvent(m) == toGui' = Append(toGui, m) /\ UNCHANGED mSem

SendEvent(m) == toGui' = Append(toGui, m) /\ mSem' = 0

NoMessage == UNCHANGED <<toGui, mSem>>

LockWrite == mxProject = "free" /\ mxProject' = "core"

UnlockWrite == mxProject' = "free"

(* What follows CloseProject: the end, or the new project. *)
afterClose(c) == IF c = "quit" THEN "exited" ELSE "make"

(* Mutant of Execute: the views are not told. *)
ExecuteUnannounced ==
    /\ At("loop")
    /\ \E c \in Commands :
          /\ command' = c
          /\ IF c = "quit" THEN quit ELSE executed < MaxCommands
          /\ c \in {"new", "open"} => created < MaxProjects
          /\ core' = IF c = "work" THEN c
                     ELSE IF mpProject # 0 THEN "about" ELSE afterClose(c)
          /\ NoMessage
          /\ executed' = IF c = "quit" THEN executed ELSE executed + 1
    /\ UNCHANGED <<projectVars, mxProject, files>>

(* A command that changes the project, or one that replaces it and calls   *)
(* CloseProject: nothing without a project, else the GUI is told first.    *)
Execute ==
    /\ At("loop")
    /\ \E c \in Commands :
          /\ command' = c
          /\ IF c = "quit" THEN quit ELSE executed < MaxCommands
          /\ c \in {"new", "open"} => created < MaxProjects
          /\ IF mpProject # 0 /\ c # "work"
             THEN core' = "about" /\ SendEvent("ABOUT_TO_CLOSE")
             ELSE core' = (IF c = "work" THEN c ELSE afterClose(c)) /\ NoMessage
          /\ executed' = IF c = "quit" THEN executed ELSE executed + 1
    /\ UNCHANGED <<projectVars, mxProject, files>>

(* Once answered, closeProject begins with the lock held. *)
CloseLock ==
    /\ At("about")
    /\ mSem = 1
    /\ LockWrite
    /\ core' = "closing"
    /\ files' = Files
    /\ NoMessage
    /\ UNCHANGED <<projectVars, command, executed>>

(* The GUI is to close the pages of every file, the lock still held. *)
SendPriorRemoved ==
    /\ At("closing")
    /\ mSem = 1
    /\ files > 0
    /\ files' = files - 1
    /\ SendEvent("FILE_PRIOR_REMOVED")
    /\ UNCHANGED <<projectVars, mxProject, core, command, executed>>

DestroyProject ==
    /\ At("closing")
    /\ mSem = 1
    /\ files = 0
    /\ mpProject' = 0
    /\ core' = "closed"
    /\ NoMessage
    /\ UNCHANGED <<created, mxProject, command, files, executed>>

(* Mutant of CloseUnlock: the lock is never released. *)
CloseKeepsLock ==
    /\ At("closed")
    /\ PostEvent("CLOSED")
    /\ core' = afterClose(command)
    /\ UNCHANGED <<projectVars, mxProject, command, files, executed>>

CloseUnlock ==
    /\ At("closed")
    /\ UnlockWrite
    /\ PostEvent("CLOSED")
    /\ core' = afterClose(command)
    /\ UNCHANGED <<projectVars, command, files, executed>>

MakeLock ==
    /\ At("make")
    /\ LockWrite
    /\ core' = "making"
    /\ NoMessage
    /\ UNCHANGED <<projectVars, command, files, executed>>

(* newProjectFromPath or LoadFromFile, and the message to the GUI, which   *)
(* LoadProject posts whatever came of the file.                            *)
Make ==
    /\ At("making")
    /\ UnlockWrite
    /\ \E ok \in BOOLEAN :
          /\ created' = IF ok THEN created + 1 ELSE created
          /\ mpProject' = IF ok THEN created + 1 ELSE 0
          /\ command = "open" => ok \/ LoadsFail
          /\ IF command = "open" THEN PostEvent("OPENED")
             ELSE IF ok THEN PostEvent("NEW") ELSE NoMessage
    /\ core' = "update"
    /\ UNCHANGED <<command, files, executed>>

(* A command, or a step of the analyzer, under the lock. *)
WorkLock ==
    /\ At("work")
    /\ LockWrite
    /\ core' = "working"
    /\ NoMessage
    /\ UNCHANGED <<projectVars, command, files, executed>>

Work ==
    /\ At("working")
    /\ UnlockWrite
    /\ core' = "update"
    /\ NoMessage
    /\ UNCHANGED <<projectVars, command, files, executed>>

(* checkUiEvents, after every event: nothing without a project or when it  *)
(* is clean; else RefreshBinaryDump locks, and the GUI is given a chance.  *)
NoUpdate ==
    /\ At("update")
    /\ core' = "loop"
    /\ NoMessage
    /\ UNCHANGED <<projectVars, mxProject, command, files, executed>>

RefreshLock ==
    /\ At("update")
    /\ mpProject # 0
    /\ LockWrite
    /\ core' = "refreshing"
    /\ NoMessage
    /\ UNCHANGED <<projectVars, command, files, executed>>

Refresh ==
    /\ At("refreshing")
    /\ UnlockWrite
    /\ SendEvent("PROCESS_EVENTS")
    /\ core' = "flush"
    /\ UNCHANGED <<projectVars, command, files, executed>>

Flushed ==
    /\ At("flush")
    /\ mSem = 1
    /\ core' = "loop"
    /\ NoMessage
    /\ UNCHANGED <<projectVars, mxProject, command, files, executed>>

Core ==
    \/ Execute
    \/ CloseLock \/ SendPriorRemoved \/ DestroyProject \/ CloseUnlock
    \/ MakeLock \/ Make \/ WorkLock \/ Work
    \/ NoUpdate \/ RefreshLock \/ Refresh \/ Flushed

-----------------------------------------------------------------------------
(* The GUI thread: the messages of the core thread one by one; paint       *)
(* events and clicks also while a message is being answered.               *)

InLoop == Running /\ gui = "loop" /\ UNCHANGED <<projectVars, coreVars>>

(* Mutant of ReceiveAboutToClose: the tree keeps its model. *)
ReceiveKeepsTree ==
    /\ InLoop
    /\ ~answering
    /\ toGui # <<>> /\ Head(toGui) = "ABOUT_TO_CLOSE"
    /\ toGui' = Tail(toGui)
    /\ pages' = {}
    /\ answering' = TRUE
    /\ UNCHANGED <<mxProject, mSem, gui, view, tree, blocks, events, quit, failed>>

Receive(m) ==
    /\ InLoop
    /\ ~answering
    /\ toGui # <<>> /\ Head(toGui) = m
    /\ toGui' = Tail(toGui)
    /\ answering' = (m \in Blocking)
    /\ UNCHANGED <<mxProject, mSem, gui, view, blocks, events, quit>>

(* OnProjectAboutToClose: the pages are closed, the tree drops its model. *)
ReceiveAboutToClose ==
    /\ Receive("ABOUT_TO_CLOSE")
    /\ pages' = {} /\ tree' = NoModel
    /\ UNCHANGED failed

(* slotProjectNew, which asserts that the tree has no model, gives it one. *)
ReceiveProject ==
    /\ Receive("NEW") \/ Receive("OPENED")
    /\ IF tree = NoModel
       THEN tree' = mpProject /\ UNCHANGED failed
       ELSE failed' = "tree" /\ UNCHANGED tree
    /\ UNCHANGED pages

(* A page of the file, if one is open, is closed. *)
ReceivePriorRemoved ==
    /\ Receive("FILE_PRIOR_REMOVED")
    /\ pages' \in SUBSET pages
    /\ UNCHANGED <<tree, failed>>

ReceiveOther ==
    /\ Receive("CLOSED") \/ Receive("PROCESS_EVENTS")
    /\ UNCHANGED <<pages, tree, failed>>

(* setReturnCode: the pending events are done, the core thread goes on. *)
SetReturnCode ==
    /\ InLoop
    /\ answering
    /\ answering' = FALSE
    /\ mSem' = 1
    /\ UNCHANGED <<mxProject, toGui, gui, view, tree, pages, blocks, events, quit, failed>>

(* A paint event of the tree or a page, which starts with the lock ... *)
Views ==
    {[kind |-> "tree", of |-> p] : p \in {tree} \ {NoModel}}
    \cup {[kind |-> "page", of |-> p] : p \in pages}

Paint ==
    /\ InLoop
    /\ events < MaxEvents
    /\ events' = events + 1
    /\ gui' = "lock"
    /\ view' \in Views
    /\ UNCHANGED <<mxProject, mSem, toGui, answering, tree, pages, blocks, quit, failed>>

(* ... as does a click on an item of the tree, which opens a page ... *)
OpenPage ==
    /\ InLoop
    /\ events < MaxEvents
    /\ events' = events + 1
    /\ tree > 0
    /\ gui' = "lock"
    /\ view' = [kind |-> "open", of |-> tree]
    /\ UNCHANGED <<mxProject, mSem, toGui, answering, tree, pages, blocks, quit, failed>>

(* ... and a request for blocks: a key in a page, or Return in the line    *)
(* edit of the Blocks window, enabled with the name of the last blocks.    *)
AskBlocks ==
    /\ InLoop
    /\ events < MaxEvents
    /\ events' = events + 1
    /\ blocks \/ pages # {}
    /\ gui' = "lock"
    /\ view' = [kind |-> "blocks", of |-> 0]
    /\ UNCHANGED <<mxProject, mSem, toGui, answering, tree, pages, blocks, quit, failed>>

LockRead ==
    /\ Running
    /\ gui = "lock"
    /\ mxProject = "free" /\ mxProject' = "gui"
    /\ gui' = "paint"
    /\ UNCHANGED <<projectVars, mSem, toGui, coreVars,
                   view, answering, tree, pages, blocks, events, quit, failed>>

(* The answer to a request for blocks, under the lock: what is found       *)
(* becomes the name of the window.  A name is looked for in the project,   *)
(* which must be there; no name, and one without a module, are answered    *)
(* without it.                                                             *)
DumpBlocks ==
    \/ mpProject # 0 /\ blocks' \in BOOLEAN /\ UNCHANGED failed
    \/ mpProject = 0 /\ blocks' = FALSE /\ UNCHANGED failed
    \/ mpProject = 0 /\ blocks /\ failed' = "blocks" /\ UNCHANGED blocks

UnlockRead ==
    /\ Running
    /\ gui = "paint"
    /\ mxProject' = "free"
    /\ gui' = "loop"
    /\ view' = NoView
    /\ pages' = IF view.kind = "open" THEN pages \cup {view.of} ELSE pages
    /\ IF view.kind = "blocks" THEN DumpBlocks ELSE UNCHANGED <<blocks, failed>>
    /\ UNCHANGED <<projectVars, mSem, toGui, coreVars, answering, tree, events, quit>>

(* The to-do list is painted without the lock.  count() tests that there   *)
(* is a project ...                                                        *)
TestTasks ==
    /\ InLoop
    /\ events < MaxEvents
    /\ events' = events + 1
    /\ mpProject # 0
    /\ gui' = "fetch"
    /\ UNCHANGED <<mxProject, mSem, toGui, view, answering, tree, pages, blocks, quit, failed>>

(* ... and calls project(), which asserts it ... *)
FetchTasks ==
    /\ Running
    /\ gui = "fetch"
    /\ IF mpProject = 0
       THEN failed' = "tasks" /\ UNCHANGED <<gui, view>>
       ELSE gui' = "follow" /\ view' = [kind |-> "tasks", of |-> mpProject] /\ UNCHANGED failed
    /\ UNCHANGED <<projectVars, mxProject, mSem, toGui, coreVars,
                   answering, tree, pages, blocks, events, quit>>

(* ... for its analyzer, a member of what may be destroyed by now; then    *)
(* again, as does data(), on the strength of the same test.                *)
FollowTasks ==
    /\ Running
    /\ gui = "follow"
    /\ view' = NoView
    /\ \/ gui' = "loop" /\ UNCHANGED events
       \/ gui' = "fetch" /\ events < MaxEvents /\ events' = events + 1
    /\ failed' \in IF view.of = mpProject THEN {"none"} ELSE {"none", "freed"}
    /\ UNCHANGED <<projectVars, mxProject, mSem, toGui, coreVars,
                   answering, tree, pages, blocks, quit>>

(* closeEvent of the main window posts SXEVENT_QUIT. *)
CloseWindow ==
    /\ InLoop
    /\ ~quit
    /\ quit' = TRUE
    /\ UNCHANGED <<mxProject, mSem, toGui, gui, view, answering, tree, pages, blocks, events,
                   failed>>

Gui ==
    \/ ReceiveAboutToClose \/ ReceiveProject \/ ReceivePriorRemoved \/ ReceiveOther
    \/ SetReturnCode \/ LockRead \/ UnlockRead \/ FetchTasks \/ FollowTasks

User == Paint \/ OpenPage \/ AskBlocks \/ TestTasks \/ CloseWindow

Next == Core \/ Gui \/ User

Spec == Init /\ [][Next]_vars

(* Both threads go on when they can.  Paint events are not forced to come, *)
(* and the user may leave the window open.                                 *)
FairSpec == Spec /\ WF_vars(Core) /\ WF_vars(Gui)

-----------------------------------------------------------------------------
(***************************************************************************)
(* The shape of the state.  Its dependent parts: who holds the lock is     *)
(* where it may be held.                                                   *)
(***************************************************************************)
TypeOK ==
    /\ mpProject \in {0, created} /\ created \in Nat
    /\ mxProject \in {"free", "core", "gui"} /\ mSem \in {0, 1}
    /\ command \in Commands /\ files \in 0 .. Files /\ executed \in Nat
    /\ toGui \in Seq(Messages)
    /\ core \in {"loop", "about", "closing", "closed", "make", "making", "work", "working",
                 "update", "refreshing", "flush", "exited"}
    /\ (mxProject = "core") <=> (core \in {"closing", "closed", "making", "working", "refreshing"})
    /\ gui \in {"loop", "lock", "paint", "fetch", "follow"}
    /\ (mxProject = "gui") <=> (gui = "paint")
    /\ view \in [kind : {"none", "tree", "page", "open", "blocks", "tasks"}, of : 0 .. created]
    /\ (view.kind = "tasks") <=> (gui = "follow")
    /\ tree \in {NoModel} \cup 0 .. created /\ pages \subseteq 1 .. created
    /\ blocks \in BOOLEAN /\ answering \in BOOLEAN /\ quit \in BOOLEAN
    /\ events \in Nat /\ failed \in {"none"} \cup Failures

(***************************************************************************)
(* The windows that wait for the lock: the file tree and the pages are     *)
(* painted, and a page opened, only with items of the project that is      *)
(* there, or with none, however late the messages of the core thread       *)
(* arrive.  Of the to-do list, which does not wait, it says nothing.       *)
(***************************************************************************)
NoStalePaint == gui = "paint" => view.of \in {0, mpProject}

(* The assert of slotProjectNew: the tree has no model of an earlier       *)
(* project when the GUI is told of a new one.                              *)
TreeAssert == failed # "tree"

(***************************************************************************)
(* "the core will take care of GUI shutting down" (closeEvent): once the   *)
(* user closes the window, the program ends.                               *)
(***************************************************************************)
ShutdownCompletes == quit ~> core = "exited" \/ failed # "none"

(***************************************************************************)
(* Unless it fails, the program ends but for one deadlock: closeProject    *)
(* waits, the lock held, for the GUI, and the GUI, asked for blocks, for   *)
(* the lock.  Neither the tree nor a page, and no other use of the lock or *)
(* of SendEvent, leaves a thread behind.                                   *)
(***************************************************************************)
ClosingDeadlock == core = "closing" /\ mSem = 0 /\ gui = "lock" /\ view.kind = "blocks"

EndsOrDeadlocks == quit ~> core = "exited" \/ failed # "none" \/ ClosingDeadlock
=============================================================================
