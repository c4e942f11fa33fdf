--------------------------- MODULE GuiSync_proofs ---------------------------
(***************************************************************************)
(* That the two threads keep the shape of their state and that no window   *)
(* that waits for the lock paints a project that is gone, for any number   *)
(* of projects, files, commands and events, whether files load or not.     *)
(***************************************************************************)
EXTENDS GuiSync, SequenceTheorems, TLAPS

(* SendEvent and its answer: while the core thread waits for an answer,    *)
(* its message is the last one under way, or being answered.               *)
Quiet == \A i \in 1 .. Len(toGui) : toGui[i] \notin Blocking

LastBlocks ==
    /\ toGui # <<>>
    /\ \A i \in 1 .. Len(toGui) : (toGui[i] \in Blocking) = (i = Len(toGui))
    /\ core = "about" => toGui[Len(toGui)] = "ABOUT_TO_CLOSE"

Handshake ==
    /\ mSem = 1 => ~answering /\ Quiet
    /\ mSem = 0 =>
          /\ core \in {"about", "closing", "flush"}
          /\ answering => toGui = <<>>
          /\ ~answering => LastBlocks

(* Models and views are of the present project, or of none, but for the    *)
(* to-do list, which follows what it has fetched.                          *)
Current ==
    /\ tree \in {NoModel, 0, mpProject}
    /\ pages \subseteq {mpProject} \ {0}
    /\ view.kind # "tasks" => view.of \in {0, mpProject}
    /\ view.kind = "open" => view.of # 0
    /\ gui \in {"loop", "fetch"} => view = NoView

(* From its answer to UIMSG_PROJECT_ABOUT_TO_CLOSE to the destruction of   *)
(* the project, the GUI has no models, and no message that gives it one.   *)
Told == core = "closing" \/ (core = "about" /\ (mSem = 1 \/ answering))

Withdrawn ==
    /\ tree = NoModel /\ pages = {}
    /\ view.kind # "tasks" => view.of = 0
    /\ \A i \in 1 .. Len(toGui) : toGui[i] = "FILE_PRIOR_REMOVED"

NoProject == core \in {"closed", "make", "making"} => mpProject = 0

IInv == TypeOK /\ Handshake /\ Current /\ (Told => Withdrawn) /\ NoProject

-----------------------------------------------------------------------------
(* What a message sent, and one received, does to the messages under way.  *)
LEMMA AppendMessage ==
  ASSUME NEW s \in Seq(Messages), NEW m \in Messages
  PROVE  /\ Append(s, m) \in Seq(Messages)
         /\ Append(s, m) # <<>>
         /\ Len(Append(s, m)) = Len(s) + 1
         /\ Append(s, m)[Len(s) + 1] = m
         /\ \A i \in 1 .. Len(s) : Append(s, m)[i] = s[i]
  OBVIOUS

LEMMA TailMessages ==
  ASSUME NEW s \in Seq(Messages), s # <<>>
  PROVE  /\ Tail(s) \in Seq(Messages)
         /\ Len(s) >= 1
         /\ Len(Tail(s)) = Len(s) - 1
         /\ Head(s) = s[1]
         /\ \A i \in 1 .. Len(Tail(s)) : Tail(s)[i] = s[i + 1]
         /\ Len(s) = 1 => Tail(s) = <<>>
  <1>1. /\ Tail(s) \in Seq(Messages)
        /\ Len(s) >= 1
        /\ Len(Tail(s)) = Len(s) - 1
        /\ Head(s) = s[1]
        /\ \A i \in 1 .. Len(Tail(s)) : Tail(s)[i] = s[i + 1]
    OBVIOUS
  <1>2. ASSUME Len(s) = 1 PROVE Tail(s) = <<>>
    <2>1. Tail(s) # <<>> => Len(Tail(s)) \in Nat \ {0} BY <1>1, EmptySeq, Zenon
    <2> QED BY <1>1, <1>2, <2>1
  <1> QED BY <1>1, <1>2

LEMMA InitIInv == Init => IInv
  <1> SUFFICES ASSUME Init PROVE IInv
    OBVIOUS
  <1> USE GuiSyncAssumption DEF Init, GuiSyncAssumption
  <1>1. TypeOK
    <2>1. toGui \in Seq(Messages) OBVIOUS
    <2>2. view \in [kind : {"none", "tree", "page", "open", "blocks", "tasks"}, of : 0 .. created]
      BY DEF NoView
    <2>3. /\ Files \in Nat /\ command \in Commands /\ files \in 0 .. Files
      BY DEF Commands
    <2>4. /\ tree \in {NoModel} \cup 0 .. created /\ pages \subseteq 1 .. created
          /\ mpProject \in {0, created} /\ created \in Nat
      OBVIOUS
    <2>5. (view.kind = "tasks") <=> (gui = "follow") BY DEF NoView
    <2> QED BY <2>1, <2>2, <2>3, <2>4, <2>5 DEF TypeOK
  <1>2. Handshake BY DEF Handshake, Quiet
  <1>3. Current BY DEF Current, NoModel, NoView
  <1> QED BY <1>1, <1>2, <1>3 DEF IInv, Told, NoProject

(* A message posted while the core thread waits for nothing.               *)
LEMMA PostKeeps ==
  ASSUME IInv, mSem = 1, NEW m \in Messages \ Blocking, PostEvent(m),
         UNCHANGED <<answering>>
  PROVE  Handshake' /\ toGui' \in Seq(Messages) /\ mSem' = 1
  <1> DEFINE n == Len(toGui)
  <1>1. toGui \in Seq(Messages) BY DEF IInv, TypeOK
  <1>2. mSem' = 1 /\ toGui' = Append(toGui, m) /\ answering' = answering BY DEF PostEvent
  <1>3. ~answering /\ Quiet BY DEF IInv, Handshake
  <1>4. toGui' \in Seq(Messages) /\ n \in Nat /\ Len(toGui') = n + 1 /\ toGui'[n + 1] = m
        /\ \A i \in 1 .. n : toGui'[i] = toGui[i]
    BY <1>1, <1>2, AppendMessage
  <1>5. ASSUME NEW i \in 1 .. Len(toGui') PROVE toGui'[i] \notin Blocking
    BY <1>3, <1>4 DEF Quiet
  <1> QED BY <1>2, <1>3, <1>4, <1>5 DEF Handshake, Quiet

LEMMA SendKeeps ==
  ASSUME IInv, mSem = 1, NEW m \in Blocking, SendEvent(m), UNCHANGED answering,
         core' \in {"about", "closing", "flush"},
         core' = "about" => m = "ABOUT_TO_CLOSE"
  PROVE  Handshake' /\ toGui' \in Seq(Messages) /\ mSem' = 0
  <1> DEFINE n == Len(toGui)
  <1>1. toGui \in Seq(Messages) /\ m \in Messages BY DEF IInv, TypeOK, Messages
  <1>2. mSem' = 0 /\ toGui' = Append(toGui, m) /\ answering' = answering BY DEF SendEvent
  <1>3. ~answering /\ Quiet BY DEF IInv, Handshake
  <1>4. toGui' \in Seq(Messages) /\ toGui' # <<>> /\ n \in Nat /\ Len(toGui') = n + 1
        /\ toGui'[n + 1] = m /\ \A i \in 1 .. n : toGui'[i] = toGui[i]
    BY <1>1, <1>2, AppendMessage
  <1>5. ASSUME NEW i \in 1 .. Len(toGui')
        PROVE  (toGui'[i] \in Blocking) = (i = Len(toGui'))
    BY <1>3, <1>4 DEF Quiet
  <1>6. LastBlocks' BY <1>4, <1>5 DEF LastBlocks
  <1> QED BY <1>2, <1>3, <1>4, <1>6 DEF Handshake

(* A message received, the core thread being where it was.                 *)
LEMMA ReceiveKeeps ==
  ASSUME IInv, NEW m \in Messages, Receive(m)
  PROVE  /\ Handshake' /\ toGui' \in Seq(Messages)
         /\ \A i \in 1 .. Len(toGui') : toGui'[i] = toGui[i + 1]
         /\ Len(toGui') = Len(toGui) - 1 /\ toGui[1] = m /\ Len(toGui) \in Nat \ {0}
         /\ answering' \in BOOLEAN
         /\ answering' => m \in Blocking /\ toGui' = <<>>
         /\ m \in Blocking => (core = "about" => m = "ABOUT_TO_CLOSE")
  <1> DEFINE n == Len(toGui)
  <1>1. toGui \in Seq(Messages) /\ mSem \in {0, 1} BY DEF IInv, TypeOK
  <1>2. /\ ~answering /\ toGui # <<>> /\ Head(toGui) = m /\ toGui' = Tail(toGui)
        /\ mSem' = mSem /\ core' = core
    BY DEF Receive, InLoop, coreVars
  <1>3. /\ toGui' \in Seq(Messages) /\ n \in Nat /\ n >= 1 /\ Len(toGui') = n - 1
        /\ toGui[1] = m /\ (n = 1 => toGui' = <<>>)
        /\ \A i \in 1 .. Len(toGui') : toGui'[i] = toGui[i + 1]
    BY <1>1, <1>2, TailMessages
  <1>4. /\ answering' \in BOOLEAN
        /\ (m \in Blocking => answering') /\ (m \notin Blocking => ~answering')
    <2>1. answering' = (m \in Blocking) BY DEF Receive
    <2>2. (m \in Blocking) \in BOOLEAN OBVIOUS
    <2>3. answering' \in BOOLEAN BY <2>1, <2>2, Zenon
    <2>4. answering' <=> m \in Blocking BY <2>1
    <2> QED BY <2>3, <2>4, Zenon
  <1>5. CASE mSem = 1
    <2>1. Quiet BY <1>2, <1>5 DEF IInv, Handshake
    <2>2. m \notin Blocking BY <2>1, <1>3 DEF Quiet
    <2>3. Quiet' BY <2>1, <1>3 DEF Quiet
    <2>4. Handshake' BY <2>2, <2>3, <1>2, <1>4, <1>5 DEF Handshake
    <2> QED BY <2>2, <2>4, <1>3, <1>4
  <1>6. CASE mSem = 0
    <2>1. LastBlocks /\ core \in {"about", "closing", "flush"}
      BY <1>2, <1>6 DEF IInv, Handshake
    <2>2. CASE m \in Blocking
      <3>1. n = 1 BY <2>1, <2>2, <1>3 DEF LastBlocks
      <3>2. toGui' = <<>> BY <3>1, <1>3
      <3>3. core = "about" => m = "ABOUT_TO_CLOSE" BY <3>1, <2>1, <1>3 DEF LastBlocks
      <3>4. Handshake' BY <3>2, <2>1, <2>2, <1>2, <1>4, <1>6 DEF Handshake
      <3> QED BY <3>2, <3>3, <3>4, <2>2, <1>3, <1>4
    <2>3. CASE m \notin Blocking
      <3>1. n > 1 BY <2>1, <2>3, <1>3 DEF LastBlocks
      <3>2. toGui' # <<>> /\ toGui'[Len(toGui')] = toGui[n]
        BY <3>1, <1>3
      <3>3. ASSUME NEW i \in 1 .. Len(toGui')
            PROVE  (toGui'[i] \in Blocking) = (i = Len(toGui'))
        BY <2>1, <1>3 DEF LastBlocks
      <3>4. LastBlocks' BY <3>2, <3>3, <2>1, <1>2 DEF LastBlocks
      <3>5. Handshake' BY <3>4, <2>1, <2>3, <1>2, <1>4, <1>6 DEF Handshake
      <3> QED BY <3>5, <2>3, <1>3, <1>4
    <2> QED BY <2>2, <2>3
  <1> QED BY <1>1, <1>5, <1>6

LEMMA SilenceKeeps ==
  ASSUME IInv, mSem = 1, NoMessage, UNCHANGED answering
  PROVE  Handshake' /\ toGui' \in Seq(Messages) /\ mSem' = 1
  BY DEF IInv, TypeOK, Handshake, Quiet, NoMessage

(* What the steps of the core thread have in common: the GUI's state stays *)
(* as it is, and what is left to show are the parts about the core thread. *)
LEMMA CoreCommon ==
  ASSUME IInv, UNCHANGED guiVars, Handshake', toGui' \in Seq(Messages), mSem' \in {0, 1},
         mpProject' \in {0, created'}, created' \in Nat, created' >= created,
         command' \in Commands, files' \in 0 .. Files, executed' \in Nat,
         mxProject' \in {"free", "core", "gui"},
         core' \in {"loop", "about", "closing", "closed", "make", "making", "work", "working",
                    "update", "refreshing", "flush", "exited"},
         mxProject' = "core" <=> core' \in {"closing", "closed", "making", "working", "refreshing"},
         mxProject' = "gui" <=> mxProject = "gui",
         mpProject' = mpProject \/ mpProject = 0 \/ Withdrawn,
         Told' => Withdrawn', NoProject'
  PROVE  IInv'
  <1>1. /\ gui' = gui /\ view' = view /\ answering' = answering /\ tree' = tree
        /\ pages' = pages /\ blocks' = blocks /\ events' = events /\ quit' = quit
        /\ failed' = failed
    BY DEF guiVars
  <1>2. TypeOK /\ Current BY DEF IInv
  <1>3. 0 .. created \subseteq 0 .. created' /\ 1 .. created \subseteq 1 .. created'
    BY <1>2 DEF TypeOK
  <1>4. view' \in [kind : {"none", "tree", "page", "open", "blocks", "tasks"}, of : 0 .. created']
    BY <1>1, <1>2, <1>3 DEF TypeOK
  <1>5. tree' \in {NoModel} \cup 0 .. created' /\ pages' \subseteq 1 .. created'
    BY <1>1, <1>2, <1>3 DEF TypeOK
  <1>6. TypeOK' BY <1>1, <1>2, <1>4, <1>5 DEF TypeOK
  <1>7. CASE mpProject' = mpProject
    <2> QED BY <1>1, <1>2, <1>6, <1>7 DEF IInv, Current
  <1>8. CASE mpProject = 0
    <2>1. Current' BY <1>1, <1>2, <1>8 DEF Current
    <2> QED BY <2>1, <1>6 DEF IInv
  <1>9. CASE Withdrawn
    <2>1. Current' BY <1>1, <1>2, <1>9 DEF Current, Withdrawn
    <2> QED BY <2>1, <1>6 DEF IInv
  <1> QED BY <1>7, <1>8, <1>9

LEMMA CoreKeeps == IInv /\ Core => IInv'
  <1> SUFFICES ASSUME IInv, Core PROVE IInv'
    OBVIOUS
  <1> USE DEF projectVars, At
  <1>0. TypeOK /\ Handshake /\ NoProject /\ (Told => Withdrawn) BY DEF IInv
  <1>1. CASE Execute
    <2>1. PICK c \in Commands :
             /\ command' = c
             /\ IF mpProject # 0 /\ c # "work"
                THEN core' = "about" /\ SendEvent("ABOUT_TO_CLOSE")
                ELSE core' = (IF c = "work" THEN c ELSE afterClose(c)) /\ NoMessage
             /\ executed' = IF c = "quit" THEN executed ELSE executed + 1
      BY <1>1 DEF Execute
    <2>2. /\ UNCHANGED <<guiVars, mpProject, created, mxProject, files, answering>>
          /\ core = "loop" /\ mSem = 1
      BY <1>0, <1>1 DEF Execute, guiVars, Handshake, TypeOK
    <2>3. executed' \in Nat BY <2>1, <1>0 DEF TypeOK
    <2>4. CASE mpProject # 0 /\ c # "work"
      <3>1. Handshake' /\ toGui' \in Seq(Messages) /\ mSem' = 0
        BY <2>1, <2>2, <2>4, SendKeeps DEF Blocking
      <3>2. ~Told' BY <3>1, <2>1, <2>2, <2>4, <1>0 DEF Told, Handshake
      <3> QED BY <3>1, <3>2, <2>1, <2>2, <2>3, <2>4, <1>0, CoreCommon DEF TypeOK, NoProject
    <2>5. CASE ~(mpProject # 0 /\ c # "work")
      <3>1. Handshake' /\ toGui' \in Seq(Messages) /\ mSem' = 1
        BY <2>1, <2>2, <2>5, SilenceKeeps
      <3>2. core' \in {"work", "exited", "make"} /\ (core' = "make" => mpProject = 0)
        BY <2>1, <2>5 DEF afterClose
      <3>3. ~Told' BY <3>2 DEF Told
      <3> QED BY <3>1, <3>2, <3>3, <2>1, <2>2, <2>3, <1>0, CoreCommon DEF TypeOK, NoProject
    <2> QED BY <2>4, <2>5
  <1>2. CASE CloseLock
    <2>1. /\ UNCHANGED <<guiVars, answering>> /\ mSem = 1 /\ core = "about" /\ NoMessage
      BY <1>2 DEF CloseLock, guiVars
    <2>2. Handshake' /\ toGui' \in Seq(Messages) /\ mSem' = 1
      BY <2>1, SilenceKeeps
    <2>3. Withdrawn BY <2>1, <1>0 DEF Told
    <2>4. Withdrawn' BY <2>1, <2>3 DEF Withdrawn, guiVars, NoMessage
    <2>5. files' \in 0 .. Files BY <1>2, GuiSyncAssumption DEF CloseLock, GuiSyncAssumption
    <2> QED BY <2>1, <2>2, <2>4, <2>5, <1>0, <1>2, CoreCommon
         DEF CloseLock, TypeOK, NoProject, LockWrite
  <1>3. CASE SendPriorRemoved
    <2>1. /\ UNCHANGED <<guiVars, answering>> /\ mSem = 1 /\ core = "closing" /\ core' = core
          /\ SendEvent("FILE_PRIOR_REMOVED")
      BY <1>3 DEF SendPriorRemoved, guiVars
    <2>2. Handshake' /\ toGui' \in Seq(Messages) /\ mSem' = 0
      BY <2>1, SendKeeps DEF Blocking
    <2>3. Withdrawn /\ toGui \in Seq(Messages) BY <2>1, <1>0 DEF Told, TypeOK
    <2>4. \A i \in 1 .. Len(toGui') : toGui'[i] = "FILE_PRIOR_REMOVED"
      BY <2>1, <2>3, AppendMessage DEF Withdrawn, SendEvent, Messages, Blocking
    <2>5. Withdrawn' BY <2>1, <2>3, <2>4 DEF Withdrawn, guiVars
    <2>6. files' \in 0 .. Files BY <1>0, <1>3, GuiSyncAssumption
      DEF SendPriorRemoved, TypeOK, GuiSyncAssumption
    <2> QED BY <2>1, <2>2, <2>5, <2>6, <1>0, <1>3, CoreCommon
         DEF SendPriorRemoved, TypeOK, NoProject
  <1>4. CASE DestroyProject
    <2>1. /\ UNCHANGED <<guiVars, answering>> /\ mSem = 1 /\ core = "closing" /\ NoMessage
      BY <1>4 DEF DestroyProject, guiVars
    <2>2. Handshake' /\ toGui' \in Seq(Messages) /\ mSem' = 1
      BY <2>1, SilenceKeeps
    <2>3. Withdrawn BY <2>1, <1>0 DEF Told
    <2>4. ~Told' BY <1>4 DEF Told, DestroyProject
    <2> QED BY <2>1, <2>2, <2>3, <2>4, <1>0, <1>4, CoreCommon
         DEF DestroyProject, TypeOK, NoProject
  <1>5. CASE CloseUnlock
    <2>1. /\ UNCHANGED <<guiVars, answering>> /\ mSem = 1 /\ core = "closed" /\ mpProject = 0
          /\ PostEvent("CLOSED") /\ "CLOSED" \in Messages \ Blocking
      BY <1>0, <1>5 DEF CloseUnlock, guiVars, Handshake, TypeOK, NoProject, Messages, Blocking
    <2>2. Handshake' /\ toGui' \in Seq(Messages) /\ mSem' = 1
      BY <2>1, PostKeeps
    <2>3. core' \in {"exited", "make"} BY <1>5 DEF CloseUnlock, afterClose
    <2>4. ~Told' BY <2>3 DEF Told
    <2> QED BY <2>1, <2>2, <2>3, <2>4, <1>0, <1>5, CoreCommon
         DEF CloseUnlock, TypeOK, NoProject, UnlockWrite
  <1>6. CASE MakeLock
    <2>1. /\ UNCHANGED <<guiVars, answering>> /\ mSem = 1 /\ NoMessage
      BY <1>0, <1>6 DEF MakeLock, guiVars, Handshake, TypeOK
    <2>2. Handshake' /\ toGui' \in Seq(Messages) /\ mSem' = 1
      BY <2>1, SilenceKeeps
    <2>3. ~Told' BY <1>6 DEF Told, MakeLock
    <2> QED BY <2>1, <2>2, <2>3, <1>0, <1>6, CoreCommon
         DEF MakeLock, TypeOK, NoProject, LockWrite, UnlockWrite
  <1>7. CASE Make
    <2>1. PICK ok \in BOOLEAN :
             /\ created' = IF ok THEN created + 1 ELSE created
             /\ mpProject' = IF ok THEN created + 1 ELSE 0
             /\ IF command = "open" THEN PostEvent("OPENED")
                ELSE IF ok THEN PostEvent("NEW") ELSE NoMessage
      BY <1>7 DEF Make
    <2>2. /\ UNCHANGED <<guiVars, answering>> /\ mSem = 1 /\ mpProject = 0 /\ core = "making"
      BY <1>0, <1>7 DEF Make, guiVars, Handshake, TypeOK, NoProject
    <2>3. Handshake' /\ toGui' \in Seq(Messages) /\ mSem' = 1
      <3>1. CASE command = "open"
        BY <3>1, <2>1, <2>2, PostKeeps DEF Messages, Blocking
      <3>2. CASE command # "open" /\ ok
        BY <3>2, <2>1, <2>2, PostKeeps DEF Messages, Blocking
      <3>3. CASE command # "open" /\ ~ok
        BY <3>3, <2>1, <2>2, SilenceKeeps
      <3> QED BY <3>1, <3>2, <3>3
    <2>4. created' \in Nat /\ created' >= created /\ mpProject' \in {0, created'}
      BY <2>1, <1>0 DEF TypeOK
    <2>5. ~Told' BY <1>7 DEF Told, Make
    <2> QED BY <2>2, <2>3, <2>4, <2>5, <1>0, <1>7, CoreCommon
         DEF Make, TypeOK, NoProject, UnlockWrite
  <1>8. CASE WorkLock
    <2>1. /\ UNCHANGED <<guiVars, answering>> /\ mSem = 1 /\ NoMessage
      BY <1>0, <1>8 DEF WorkLock, guiVars, Handshake, TypeOK
    <2>2. Handshake' /\ toGui' \in Seq(Messages) /\ mSem' = 1
      BY <2>1, SilenceKeeps
    <2>3. ~Told' BY <1>8 DEF Told, WorkLock
    <2> QED BY <2>1, <2>2, <2>3, <1>0, <1>8, CoreCommon
         DEF WorkLock, TypeOK, NoProject, LockWrite, UnlockWrite
  <1>9. CASE Work
    <2>1. /\ UNCHANGED <<guiVars, answering>> /\ mSem = 1 /\ NoMessage
      BY <1>0, <1>9 DEF Work, guiVars, Handshake, TypeOK
    <2>2. Handshake' /\ toGui' \in Seq(Messages) /\ mSem' = 1
      BY <2>1, SilenceKeeps
    <2>3. ~Told' BY <1>9 DEF Told, Work
    <2> QED BY <2>1, <2>2, <2>3, <1>0, <1>9, CoreCommon
         DEF Work, TypeOK, NoProject, LockWrite, UnlockWrite
  <1>10. CASE NoUpdate
    <2>1. /\ UNCHANGED <<guiVars, answering>> /\ mSem = 1 /\ NoMessage
      BY <1>0, <1>10 DEF NoUpdate, guiVars, Handshake, TypeOK
    <2>2. Handshake' /\ toGui' \in Seq(Messages) /\ mSem' = 1
      BY <2>1, SilenceKeeps
    <2>3. ~Told' BY <1>10 DEF Told, NoUpdate
    <2> QED BY <2>1, <2>2, <2>3, <1>0, <1>10, CoreCommon
         DEF NoUpdate, TypeOK, NoProject, LockWrite, UnlockWrite
  <1>11. CASE RefreshLock
    <2>1. /\ UNCHANGED <<guiVars, answering>> /\ mSem = 1 /\ NoMessage
      BY <1>0, <1>11 DEF RefreshLock, guiVars, Handshake, TypeOK
    <2>2. Handshake' /\ toGui' \in Seq(Messages) /\ mSem' = 1
      BY <2>1, SilenceKeeps
    <2>3. ~Told' BY <1>11 DEF Told, RefreshLock
    <2> QED BY <2>1, <2>2, <2>3, <1>0, <1>11, CoreCommon
         DEF RefreshLock, TypeOK, NoProject, LockWrite, UnlockWrite
  <1>12. CASE Refresh
    <2>1. /\ UNCHANGED <<guiVars, answering>> /\ mSem = 1 /\ core' = "flush"
          /\ SendEvent("PROCESS_EVENTS")
      BY <1>0, <1>12 DEF Refresh, guiVars, Handshake, TypeOK
    <2>2. Handshake' /\ toGui' \in Seq(Messages) /\ mSem' = 0
      BY <2>1, SendKeeps DEF Blocking
    <2>3. ~Told' BY <2>1 DEF Told
    <2> QED BY <2>1, <2>2, <2>3, <1>0, <1>12, CoreCommon
         DEF Refresh, TypeOK, NoProject, UnlockWrite
  <1>13. CASE Flushed
    <2>1. /\ UNCHANGED <<guiVars, answering>> /\ mSem = 1 /\ NoMessage
      BY <1>0, <1>13 DEF Flushed, guiVars, Handshake, TypeOK
    <2>2. Handshake' /\ toGui' \in Seq(Messages) /\ mSem' = 1
      BY <2>1, SilenceKeeps
    <2>3. ~Told' BY <1>13 DEF Told, Flushed
    <2> QED BY <2>1, <2>2, <2>3, <1>0, <1>13, CoreCommon
         DEF Flushed, TypeOK, NoProject, LockWrite, UnlockWrite
  <1> QED
    BY <1>1, <1>2, <1>3, <1>4, <1>5, <1>6, <1>7, <1>8, <1>9, <1>10, <1>11, <1>12, <1>13
    DEF Core

(* What the steps of the GUI thread have in common: the project stays, and *)
(* the core thread where it is.                                            *)
LEMMA GuiCommon ==
  ASSUME IInv, UNCHANGED <<projectVars, coreVars>>, Handshake',
         toGui' \in Seq(Messages), mSem' \in {0, 1},
         mxProject' \in {"free", "core", "gui"},
         gui' \in {"loop", "lock", "paint", "fetch", "follow"},
         mxProject' = "core" <=> mxProject = "core",
         mxProject' = "gui" <=> gui' = "paint",
         view'.kind = "tasks" <=> gui' = "follow",
         blocks' \in BOOLEAN, answering' \in BOOLEAN, quit' \in BOOLEAN, events' \in Nat,
         failed' \in {"none"} \cup Failures,
         view' \in [kind : {"none", "tree", "page", "open", "blocks", "tasks"}, of : 0 .. created],
         Current', Told' => Withdrawn'
  PROVE  IInv'
  <1>1. /\ mpProject' = mpProject /\ created' = created /\ core' = core
        /\ command' = command /\ files' = files /\ executed' = executed
    BY DEF projectVars, coreVars
  <1>2. TypeOK /\ NoProject BY DEF IInv
  <1>3. tree' \in {NoModel} \cup 0 .. created' /\ pages' \subseteq 1 .. created'
    BY <1>1, <1>2 DEF TypeOK, Current
  <1>4. TypeOK' BY <1>1, <1>2, <1>3 DEF TypeOK
  <1>5. NoProject' BY <1>1, <1>2 DEF NoProject
  <1> QED BY <1>4, <1>5 DEF IInv

(* A message received changes only the models; Withdrawn is kept, or made  *)
(* by the message that announces the closing.                              *)
LEMMA ReceiveCommon ==
  ASSUME IInv, NEW m \in Messages, Receive(m), failed' \in {"none"} \cup Failures,
         tree' \in {NoModel, 0, mpProject}, pages' \subseteq pages,
         Withdrawn => tree' = NoModel \/ m # "FILE_PRIOR_REMOVED",
         m = "ABOUT_TO_CLOSE" => tree' = NoModel /\ pages' = {}
  PROVE  IInv'
  <1>1. /\ Handshake' /\ toGui' \in Seq(Messages)
        /\ \A i \in 1 .. Len(toGui') : toGui'[i] = toGui[i + 1]
        /\ Len(toGui') = Len(toGui) - 1 /\ toGui[1] = m /\ Len(toGui) \in Nat \ {0}
        /\ answering' \in BOOLEAN
        /\ answering' => m \in Blocking /\ toGui' = <<>>
        /\ m \in Blocking => (core = "about" => m = "ABOUT_TO_CLOSE")
    BY ReceiveKeeps
  <1>2. /\ UNCHANGED <<projectVars, coreVars, mxProject, mSem, gui, view, blocks, events, quit>>
        /\ core' = core /\ mpProject' = mpProject /\ mSem' = mSem
        /\ gui = "loop" /\ ~answering
    BY DEF Receive, InLoop, projectVars, coreVars
  <1>3. TypeOK /\ Current /\ (Told => Withdrawn)
        /\ view.of = 0 /\ view.kind = "none"
    BY <1>2 DEF IInv, Current, NoView
  <1>4. Current' BY <1>2, <1>3 DEF Current
  <1>5. ASSUME Told' PROVE Withdrawn'
    <2>1. CASE Withdrawn
      <3>1. m = "FILE_PRIOR_REMOVED" BY <2>1, <1>1 DEF Withdrawn
      <3> QED BY <2>1, <3>1, <1>1, <1>2 DEF Withdrawn
    <2>2. CASE ~Withdrawn
      <3>1. core = "about" /\ answering' BY <2>2, <1>2, <1>3, <1>5 DEF Told
      <3>2. m = "ABOUT_TO_CLOSE" /\ toGui' = <<>> BY <3>1, <1>1
      <3> QED BY <3>2, <1>2, <1>3 DEF Withdrawn
    <2> QED BY <2>1, <2>2
  <1> QED BY <1>1, <1>2, <1>3, <1>4, <1>5, GuiCommon DEF TypeOK

LEMMA GuiKeeps == IInv /\ (Gui \/ User) => IInv'
  <1> SUFFICES ASSUME IInv, Gui \/ User PROVE IInv'
    OBVIOUS
  <1>0. TypeOK /\ Handshake /\ Current /\ (Told => Withdrawn) BY DEF IInv
  <1>1. CASE ReceiveAboutToClose
    <2>1. "ABOUT_TO_CLOSE" \in Messages BY DEF Messages, Blocking
    <2> QED BY <1>0, <1>1, <2>1, ReceiveCommon DEF ReceiveAboutToClose, TypeOK
  <1>2. CASE ReceiveProject
    <2>1. PICK m \in {"NEW", "OPENED"} : Receive(m)
      BY <1>2 DEF ReceiveProject
    <2>2. m \in Messages BY DEF Messages
    <2>3. failed' \in {"none"} \cup Failures /\ tree' \in {NoModel, 0, mpProject} /\ pages' \subseteq pages
      BY <1>0, <1>2 DEF ReceiveProject, TypeOK, Current, Failures
    <2> QED BY <2>1, <2>2, <2>3, ReceiveCommon
  <1>3. CASE ReceivePriorRemoved
    <2>1. "FILE_PRIOR_REMOVED" \in Messages BY DEF Messages, Blocking
    <2> QED BY <1>0, <1>3, <2>1, ReceiveCommon
         DEF ReceivePriorRemoved, TypeOK, Current, Withdrawn
  <1>4. CASE ReceiveOther
    <2>1. PICK m \in {"CLOSED", "PROCESS_EVENTS"} : Receive(m)
      BY <1>4 DEF ReceiveOther
    <2>2. m \in Messages BY DEF Messages, Blocking
    <2> QED BY <1>0, <1>4, <2>1, <2>2, ReceiveCommon DEF ReceiveOther, TypeOK, Current
  <1>5. CASE SetReturnCode
    <2>1. /\ UNCHANGED <<projectVars, coreVars, mxProject, toGui, gui, view, tree, pages,
                         blocks, events, quit, failed>>
          /\ answering /\ answering' = FALSE /\ mSem' = 1 /\ core' = core
          /\ mpProject' = mpProject
      BY <1>5 DEF SetReturnCode, InLoop, coreVars, projectVars
    <2>2. mSem = 0 /\ toGui = <<>> BY <2>1, <1>0 DEF Handshake, TypeOK
    <2>3. Handshake' BY <2>1, <2>2 DEF Handshake, Quiet
    <2>4. Current' BY <2>1, <1>0 DEF Current
    <2>5. Told' => Told BY <2>1 DEF Told
    <2>6. Told' => Withdrawn' BY <2>1, <2>5, <1>0 DEF Withdrawn
    <2>7. answering' \in BOOLEAN BY <2>1, Zenon
    <2> QED BY <2>1, <2>3, <2>4, <2>6, <2>7, <1>0, GuiCommon DEF TypeOK
  <1>6. CASE Paint \/ OpenPage \/ AskBlocks
    <2>1. /\ UNCHANGED <<projectVars, coreVars, mxProject, mSem, toGui, answering, tree, pages,
                         blocks, quit, failed>>
          /\ gui = "loop" /\ gui' = "lock" /\ events' = events + 1
          /\ core' = core /\ mpProject' = mpProject /\ created' = created
      BY <1>6 DEF Paint, OpenPage, AskBlocks, InLoop, coreVars, projectVars
    <2>2. /\ view' \in [kind : {"none", "tree", "page", "open", "blocks", "tasks"}, of : 0 .. created]
          /\ view'.kind # "tasks"
          /\ view'.of \in {0, mpProject} /\ (view'.kind = "open" => view'.of # 0)
          /\ Withdrawn => view'.of = 0
      <3>1. CASE Paint
        <4>1. view' \in Views BY <3>1 DEF Paint
        <4>2. CASE \E p \in {tree} \ {NoModel} : view' = [kind |-> "tree", of |-> p]
          BY <4>2, <1>0 DEF TypeOK, Current, Withdrawn, NoModel
        <4>3. CASE \E p \in pages : view' = [kind |-> "page", of |-> p]
          BY <4>3, <1>0 DEF TypeOK, Current, Withdrawn
        <4> QED BY <4>1, <4>2, <4>3 DEF Views
      <3>2. CASE OpenPage
        <4>1. view' = [kind |-> "open", of |-> tree] /\ tree > 0
          BY <3>2 DEF OpenPage
        <4> QED BY <4>1, <1>0 DEF TypeOK, Current, Withdrawn, NoModel
      <3>3. CASE AskBlocks
        <4>1. view' = [kind |-> "blocks", of |-> 0]
          BY <3>3 DEF AskBlocks
        <4> QED BY <4>1, <1>0 DEF TypeOK
      <3> QED BY <1>6, <3>1, <3>2, <3>3
    <2>3. Handshake' BY <2>1, <1>0 DEF Handshake, Quiet, LastBlocks
    <2>4. Current' BY <2>1, <2>2, <1>0 DEF Current
    <2>5. Told' => Told BY <2>1 DEF Told
    <2>6. Told' => Withdrawn' BY <2>1, <2>2, <2>5, <1>0 DEF Withdrawn
    <2> QED BY <2>1, <2>2, <2>3, <2>4, <2>6, <1>0, GuiCommon DEF TypeOK
  <1>7. CASE LockRead
    <2>1. /\ UNCHANGED <<projectVars, mSem, toGui, coreVars,
                         view, answering, tree, pages, blocks, events, quit, failed>>
          /\ mxProject = "free" /\ mxProject' = "gui" /\ gui = "lock" /\ gui' = "paint"
          /\ core' = core /\ mpProject' = mpProject
      BY <1>7 DEF LockRead, coreVars, projectVars
    <2>2. Handshake' BY <2>1, <1>0 DEF Handshake, Quiet, LastBlocks
    <2>3. Current' BY <2>1, <1>0 DEF Current
    <2>4. Told' => Withdrawn' BY <2>1, <1>0 DEF Told, Withdrawn
    <2> QED BY <2>1, <2>2, <2>3, <2>4, <1>0, GuiCommon DEF TypeOK
  <1>8. CASE UnlockRead
    <2>1. /\ UNCHANGED <<projectVars, mSem, toGui, coreVars,
                         answering, tree, events, quit>>
          /\ mxProject' = "free" /\ gui = "paint" /\ gui' = "loop" /\ view' = NoView
          /\ pages' = IF view.kind = "open" THEN pages \cup {view.of} ELSE pages
          /\ core' = core /\ mpProject' = mpProject
      BY <1>8 DEF UnlockRead, coreVars, projectVars
    <2>2. Handshake' BY <2>1, <1>0 DEF Handshake, Quiet, LastBlocks
    <2>3. view' \in [kind : {"none", "tree", "page", "open", "blocks", "tasks"}, of : 0 .. created]
          /\ view'.of = 0 /\ view'.kind = "none" /\ view.kind # "tasks"
      BY <2>1, <1>0 DEF NoView, TypeOK
    <2>4. pages' \subseteq {mpProject} \ {0} BY <2>1, <2>3, <1>0 DEF Current
    <2>5. Current' BY <2>1, <2>3, <2>4, <1>0 DEF Current
    <2>6. Told' => Told BY <2>1 DEF Told
    <2>7. Told' => Withdrawn' BY <2>1, <2>3, <2>6, <1>0 DEF Withdrawn, Current
    <2>8. blocks' \in BOOLEAN /\ failed' \in {"none"} \cup Failures
      <3>1. CASE view.kind = "blocks"
        BY <3>1, <1>0, <1>8 DEF UnlockRead, DumpBlocks, TypeOK, Failures
      <3>2. CASE view.kind # "blocks"
        BY <3>2, <1>0, <1>8 DEF UnlockRead, TypeOK
      <3> QED BY <3>1, <3>2
    <2> QED BY <2>1, <2>2, <2>3, <2>5, <2>7, <2>8, <1>0, GuiCommon DEF TypeOK
  <1>9. CASE CloseWindow
    <2>1. /\ UNCHANGED <<projectVars, mxProject, mSem, toGui, coreVars, gui, view, answering,
                         tree, pages, blocks, events, failed>>
          /\ quit' = TRUE /\ core' = core /\ mpProject' = mpProject
      BY <1>9 DEF CloseWindow, InLoop, coreVars, projectVars
    <2>2. Handshake' BY <2>1, <1>0 DEF Handshake, Quiet, LastBlocks
    <2>3. Current' BY <2>1, <1>0 DEF Current
    <2>4. Told' => Withdrawn' BY <2>1, <1>0 DEF Told, Withdrawn
    <2> QED BY <2>1, <2>2, <2>3, <2>4, <1>0, GuiCommon DEF TypeOK
  <1>10. CASE TestTasks
    <2>1. /\ UNCHANGED <<projectVars, mxProject, mSem, toGui, coreVars, view, answering,
                         tree, pages, blocks, quit, failed>>
          /\ gui = "loop" /\ gui' = "fetch" /\ events' = events + 1
          /\ core' = core /\ mpProject' = mpProject
      BY <1>10 DEF TestTasks, InLoop, coreVars, projectVars
    <2>2. Handshake' BY <2>1, <1>0 DEF Handshake, Quiet, LastBlocks
    <2>3. Current' BY <2>1, <1>0 DEF Current
    <2>4. Told' => Withdrawn' BY <2>1, <1>0 DEF Told, Withdrawn
    <2> QED BY <2>1, <2>2, <2>3, <2>4, <1>0, GuiCommon DEF TypeOK
  <1>11. CASE FetchTasks
    <2>1. /\ UNCHANGED <<projectVars, mxProject, mSem, toGui, coreVars, answering,
                         tree, pages, blocks, events, quit>>
          /\ gui = "fetch" /\ core' = core /\ mpProject' = mpProject
      BY <1>11 DEF FetchTasks, coreVars, projectVars
    <2>2. Handshake' BY <2>1, <1>0 DEF Handshake, Quiet, LastBlocks
    <2>3. CASE mpProject = 0
      <3>1. gui' = gui /\ view' = view /\ failed' = "tasks"
        BY <2>3, <1>11 DEF FetchTasks
      <3>2. Current' BY <2>1, <3>1, <1>0 DEF Current
      <3>3. Told' => Withdrawn' BY <2>1, <3>1, <1>0 DEF Told, Withdrawn
      <3> QED BY <2>1, <2>2, <3>1, <3>2, <3>3, <1>0, GuiCommon DEF TypeOK, Failures
    <2>4. CASE mpProject # 0
      <3>1. gui' = "follow" /\ view' = [kind |-> "tasks", of |-> mpProject] /\ failed' = failed
        BY <2>4, <1>11 DEF FetchTasks
      <3>2. view' \in [kind : {"none", "tree", "page", "open", "blocks", "tasks"},
                       of : 0 .. created]
            /\ view'.kind = "tasks"
        BY <3>1, <1>0 DEF TypeOK
      <3>3. Current' BY <2>1, <3>1, <3>2, <1>0 DEF Current
      <3>4. Told' => Withdrawn' BY <2>1, <3>2, <1>0 DEF Told, Withdrawn
      <3> QED BY <2>1, <2>2, <3>1, <3>2, <3>3, <3>4, <1>0, GuiCommon DEF TypeOK
    <2> QED BY <2>3, <2>4
  <1>12. CASE FollowTasks
    <2>1. /\ UNCHANGED <<projectVars, mxProject, mSem, toGui, coreVars, answering,
                         tree, pages, blocks, quit>>
          /\ gui = "follow" /\ gui' \in {"loop", "fetch"} /\ view' = NoView
          /\ events' \in {events, events + 1} /\ failed' \in {"none", "freed"}
          /\ core' = core /\ mpProject' = mpProject
      BY <1>12 DEF FollowTasks, coreVars, projectVars
    <2>2. Handshake' BY <2>1, <1>0 DEF Handshake, Quiet, LastBlocks
    <2>3. view' \in [kind : {"none", "tree", "page", "open", "blocks", "tasks"}, of : 0 .. created]
          /\ view'.of = 0 /\ view'.kind = "none"
      BY <2>1, <1>0 DEF NoView, TypeOK
    <2>4. Current' BY <2>1, <2>3, <1>0 DEF Current
    <2>5. Told' => Withdrawn' BY <2>1, <2>3, <1>0 DEF Told, Withdrawn
    <2> QED BY <2>1, <2>2, <2>3, <2>4, <2>5, <1>0, GuiCommon DEF TypeOK, Failures
  <1> QED BY <1>1, <1>2, <1>3, <1>4, <1>5, <1>6, <1>7, <1>8, <1>9, <1>10, <1>11, <1>12
       DEF Gui, User

LEMMA NextIInv == IInv /\ [Next]_vars => IInv'
  <1>1. ASSUME IInv, UNCHANGED vars PROVE IInv'
    BY <1>1
    DEF IInv, TypeOK, Handshake, Quiet, LastBlocks, Current, Told, Withdrawn, NoProject,
        vars, projectVars, coreVars, guiVars
  <1> QED BY <1>1, CoreKeeps, GuiKeeps DEF Next

LEMMA Inductive == Spec => []IInv
  <1> QED BY InitIInv, NextIInv, PTL DEF Spec

(* The lock, the handshake and the projects keep their shape.              *)
THEOREM TypeCorrect == Spec => []TypeOK
  <1>1. IInv => TypeOK BY DEF IInv
  <1> QED BY <1>1, Inductive, PTL

(* Whatever the core thread is closing or loading and however its messages *)
(* are delayed, a window that has waited for the lock (the file tree, a    *)
(* page, a page being opened) is of the project that is there, or of none. *)
(* Nothing is said of the to-do list, which is painted without the lock.   *)
THEOREM NothingStale == Spec => []NoStalePaint
  <1>1. IInv => NoStalePaint BY DEF IInv, TypeOK, Current, NoStalePaint
  <1> QED BY <1>1, Inductive, PTL

-----------------------------------------------------------------------------
(* The assert of slotProjectNew: at most one message gives the tree a      *)
(* model, only while it has none, and only if there is a project.          *)
Announcing(m) == m \in {"NEW", "OPENED"}

Silent == \A i \in 1 .. Len(toGui) : ~Announcing(toGui[i])

AnnouncedOnce ==
    /\ failed # "tree"
    /\ mpProject = 0 => tree = NoModel /\ Silent
    /\ \A i \in 1 .. Len(toGui) : Announcing(toGui[i]) => tree = NoModel
    /\ \A i, j \in 1 .. Len(toGui) : Announcing(toGui[i]) /\ Announcing(toGui[j]) => i = j

LEMMA OtherMessage ==
  ASSUME AnnouncedOnce, toGui \in Seq(Messages), NEW m \in Messages, ~Announcing(m),
         toGui' = Append(toGui, m) \/ toGui' = toGui,
         tree' = tree, failed' # "tree",
         mpProject' = mpProject \/ (tree = NoModel /\ Silent)
  PROVE  AnnouncedOnce'
  <1>1. CASE toGui' = toGui
    BY <1>1 DEF AnnouncedOnce, Silent
  <1>2. CASE toGui' = Append(toGui, m)
    <2>1. /\ Len(toGui) \in Nat /\ Len(toGui') = Len(toGui) + 1 /\ toGui'[Len(toGui) + 1] = m
          /\ \A i \in 1 .. Len(toGui) : toGui'[i] = toGui[i]
      BY <1>2, AppendMessage
    <2>2. \A i \in 1 .. Len(toGui') :
             Announcing(toGui'[i]) => i \in 1 .. Len(toGui) /\ Announcing(toGui[i])
      BY <2>1
    <2>3. Silent => Silent' BY <2>2 DEF Silent
    <2> QED BY <2>2, <2>3 DEF AnnouncedOnce
  <1> QED BY <1>1, <1>2

LEMMA NextAnnounced ==
  ASSUME LoadsFail = FALSE, IInv, AnnouncedOnce, Next
  PROVE  AnnouncedOnce'
  <1>0. TypeOK /\ NoProject /\ (Told => Withdrawn) /\ toGui \in Seq(Messages)
    BY DEF IInv, TypeOK
  <1>1. \A m \in Blocking \cup {"CLOSED"} : m \in Messages /\ ~Announcing(m)
    BY DEF Blocking, Messages, Announcing
  <1>2. CASE /\ Execute \/ CloseLock \/ SendPriorRemoved \/ CloseUnlock \/ MakeLock \/ WorkLock
                \/ Work \/ NoUpdate \/ RefreshLock \/ Refresh \/ Flushed
    <2>1. UNCHANGED <<tree, failed, mpProject>>
      BY <1>2 DEF Execute, CloseLock, SendPriorRemoved, CloseUnlock, MakeLock, WorkLock, Work,
                  NoUpdate, RefreshLock, Refresh, Flushed, At, guiVars, projectVars
    <2>2. \E m \in Blocking \cup {"CLOSED"} : toGui' = Append(toGui, m) \/ toGui' = toGui
      BY <1>2 DEF Execute, CloseLock, SendPriorRemoved, CloseUnlock, MakeLock, WorkLock, Work,
                  NoUpdate, RefreshLock, Refresh, Flushed, Blocking,
                  NoMessage, SendEvent, PostEvent
    <2>3. failed' # "tree" BY <2>1 DEF AnnouncedOnce
    <2> QED BY <2>1, <2>2, <2>3, <1>0, <1>1, OtherMessage
  <1>3. CASE DestroyProject
    <2>1. Withdrawn BY <1>0, <1>3 DEF Told, DestroyProject, At
    <2>2. tree = NoModel /\ Silent BY <2>1 DEF Withdrawn, Silent, Announcing
    <2>3. UNCHANGED <<tree, toGui>> /\ failed' # "tree"
      BY <1>3 DEF DestroyProject, At, guiVars, NoMessage, AnnouncedOnce
    <2>4. "CLOSED" \in Messages /\ ~Announcing("CLOSED") BY <1>1
    <2> QED BY <2>2, <2>3, <2>4, <1>0, OtherMessage
  <1>4. CASE Make
    <2>1. /\ mpProject = 0 /\ tree = NoModel /\ Silent
          /\ tree' = NoModel /\ failed' # "tree"
      BY <1>0, <1>4 DEF Make, At, guiVars, NoProject, AnnouncedOnce
    <2>2. PICK ok \in BOOLEAN :
             /\ created' = IF ok THEN created + 1 ELSE created
             /\ mpProject' = IF ok THEN created + 1 ELSE 0
             /\ command = "open" => ok \/ LoadsFail
             /\ IF command = "open" THEN PostEvent("OPENED")
                ELSE IF ok THEN PostEvent("NEW") ELSE NoMessage
      BY <1>4 DEF Make
    <2>3. CASE ok
      <3>1. mpProject' # 0 BY <2>2, <2>3, <1>0 DEF TypeOK
      <3>2. PICK m \in {"OPENED", "NEW"} : toGui' = Append(toGui, m)
        BY <2>2, <2>3 DEF PostEvent
      <3>3. m \in Messages BY DEF Messages
      <3>4. /\ Len(toGui) \in Nat /\ Len(toGui') = Len(toGui) + 1
            /\ \A i \in 1 .. Len(toGui) : toGui'[i] = toGui[i]
        BY <3>2, <3>3, <1>0, AppendMessage
      <3>5. \A i \in 1 .. Len(toGui') : Announcing(toGui'[i]) => i = Len(toGui')
        BY <3>4, <2>1 DEF Silent
      <3> QED BY <3>1, <3>5, <2>1 DEF AnnouncedOnce
    <2>4. CASE ~ok
      <3>1. toGui' = toGui /\ mpProject' = 0 BY <2>2, <2>4 DEF NoMessage
      <3> QED BY <3>1, <2>1 DEF AnnouncedOnce, Silent
    <2> QED BY <2>3, <2>4
  <1>5. ASSUME NEW m \in Messages, Receive(m)
        PROVE  /\ \A i \in 1 .. Len(toGui') : toGui'[i] = toGui[i + 1]
               /\ Len(toGui') = Len(toGui) - 1 /\ toGui[1] = m /\ Len(toGui) \in Nat \ {0}
               /\ mpProject' = mpProject
    BY <1>5, ReceiveKeeps DEF Receive, InLoop, projectVars
  <1>6. CASE ReceiveProject
    <2>1. PICK m \in {"NEW", "OPENED"} : Receive(m)
      BY <1>6 DEF ReceiveProject
    <2>2. m \in Messages /\ Announcing(m) BY DEF Messages, Announcing
    <2>3. tree = NoModel /\ mpProject # 0 BY <1>5, <2>1, <2>2 DEF AnnouncedOnce, Silent
    <2>4. failed' = failed BY <1>6, <2>3 DEF ReceiveProject
    <2>5. Silent' BY <1>5, <2>1, <2>2 DEF AnnouncedOnce, Silent
    <2> QED BY <1>5, <2>1, <2>2, <2>3, <2>4, <2>5 DEF AnnouncedOnce, Silent
  <1>7. CASE ReceiveAboutToClose \/ ReceivePriorRemoved \/ ReceiveOther
    <2>1. /\ \E m \in Blocking \cup {"CLOSED"} : Receive(m)
          /\ failed' = failed /\ (tree' = tree \/ tree' = NoModel)
      BY <1>7 DEF ReceiveAboutToClose, ReceivePriorRemoved, ReceiveOther, Blocking
    <2>2. PICK m \in Messages : Receive(m) BY <2>1, <1>1
    <2>3. Silent => Silent' BY <1>5, <2>2 DEF Silent
    <2>4. \A i \in 1 .. Len(toGui') : Announcing(toGui'[i]) => tree' = NoModel
      BY <1>5, <2>1, <2>2 DEF AnnouncedOnce
    <2>5. \A i, j \in 1 .. Len(toGui') :
             Announcing(toGui'[i]) /\ Announcing(toGui'[j]) => i = j
      BY <1>5, <2>2 DEF AnnouncedOnce
    <2> QED BY <1>5, <2>1, <2>2, <2>3, <2>4, <2>5 DEF AnnouncedOnce
  <1>8. CASE \/ SetReturnCode \/ LockRead \/ UnlockRead \/ FetchTasks \/ FollowTasks \/ User
    <2>1. UNCHANGED <<toGui, tree, mpProject>>
      BY <1>8 DEF SetReturnCode, LockRead, UnlockRead, FetchTasks, FollowTasks, User, Paint,
                  OpenPage, AskBlocks, TestTasks, CloseWindow, InLoop, projectVars
    <2>2. failed' \in {failed, "none", "tasks", "blocks", "freed"}
      BY <1>8 DEF SetReturnCode, LockRead, UnlockRead, DumpBlocks, FetchTasks, FollowTasks, User,
                  Paint, OpenPage, AskBlocks, TestTasks, CloseWindow
    <2> QED BY <2>1, <2>2 DEF AnnouncedOnce, Silent
  <1> QED BY <1>2, <1>3, <1>4, <1>6, <1>7, <1>8 DEF Next, Core, Gui

(* If every project file loads, the tree has no model when the GUI is told *)
(* of a project: the assert fails only after a load that failed.           *)
THEOREM TreeFreeIfFilesLoad ==
  ASSUME LoadsFail = FALSE
  PROVE  Spec => []TreeAssert
  <1>1. Init => AnnouncedOnce
    BY DEF Init, AnnouncedOnce, Silent
  <1>2. IInv /\ AnnouncedOnce /\ [Next]_vars => AnnouncedOnce'
    <2>1. ASSUME AnnouncedOnce, UNCHANGED vars PROVE AnnouncedOnce'
      BY <2>1 DEF AnnouncedOnce, Silent, vars, guiVars, projectVars
    <2> QED BY <2>1, NextAnnounced
  <1>3. AnnouncedOnce => TreeAssert BY DEF AnnouncedOnce, TreeAssert
  <1> QED BY <1>1, <1>2, <1>3, Inductive, PTL DEF Spec
=============================================================================
