------------------------- MODULE Controller_proofs --------------------------
(***************************************************************************)
(* For any scripts, any command line and analyzers of any size: the        *)
(* controller keeps the shape of its state, never sleeps on an unfinished  *)
(* analysis without having told the GUI why, and leaves nothing behind     *)
(* when it exits.  In the batch mode it never doubles a step and never     *)
(* lets a script overtake an analysis, and with scripts that do not call   *)
(* scripts no assert of it fails.  With a user, who types any command and  *)
(* clicks at any time, an assert fails on his account only.                *)
(***************************************************************************)
EXTENDS Controller, SequenceTheorems, TLAPS

LEMMA Bounds == MaxTasks \in Nat /\ MaxWork \in Nat /\ Interactive \in BOOLEAN
  BY BoundsAssumption, InteractiveAssumption DEF BoundsAssumption, InteractiveAssumption

(* Every event the controller makes is one. *)
LEMMA EventsAreEvents ==
  /\ \A id \in (Ops \ {"script"}) \cup {"EVENT_ANLZ_PROCESS", "EVENT_ANLZ_RESUME"} :
        event(id) \in Event
  /\ \A name \in DOMAIN Lines : [id |-> "EVENT_SCRIPT", arg |-> name] \in Event
  <1>1. ASSUME NEW id \in (Ops \ {"script"}) \cup {"EVENT_ANLZ_PROCESS", "EVENT_ANLZ_RESUME"}
        PROVE  event(id) \in Event
    BY <1>1 DEF event, Event, Ops, Args
  <1>2. ASSUME NEW name \in DOMAIN Lines
        PROVE  [id |-> "EVENT_SCRIPT", arg |-> name] \in Event
    BY <1>2 DEF Event, Args
  <1> QED BY <1>1, <1>2

(* Sequences: the operations on the queue, the script and the stack.       *)
LEMMA TailOfSeq ==
  ASSUME NEW S, NEW s \in Seq(S), s # <<>>
  PROVE  Tail(s) \in Seq(S) /\ Head(s) \in S
  OBVIOUS

LEMMA AppendToSeq ==
  ASSUME NEW S, NEW s \in Seq(S), NEW e \in S
  PROVE  Append(s, e) \in Seq(S) /\ Append(s, e) # <<>>
  <1>1. Append(s, e) \in Seq(S) /\ Len(Append(s, e)) = Len(s) + 1 /\ Len(s) \in Nat
    OBVIOUS
  <1> QED BY <1>1

LEMMA LastOfSeq ==
  ASSUME NEW S, NEW s \in Seq(S), s # <<>>
  PROVE  Len(s) \in Nat \ {0} /\ s[Len(s)] \in S
  <1>1. Len(s) \in Nat \ {0} BY EmptySeq, Zenon
  <1> QED BY <1>1

LEMMA ReplaceLast ==
  ASSUME NEW S, NEW s \in Seq(S), s # <<>>, NEW e \in S
  PROVE  /\ [s EXCEPT ![Len(s)] = e] \in Seq(S)
         /\ [s EXCEPT ![Len(s)] = e] # <<>>
  <1> DEFINE t == [s EXCEPT ![Len(s)] = e]
  <1>1. Len(s) \in Nat \ {0} BY LastOfSeq
  <1>2. s \in [1 .. Len(s) -> S] BY LenProperties
  <1>3. t \in [1 .. Len(s) -> S] BY <1>1, <1>2
  <1>4. t \in Seq(S) BY <1>1, <1>3
  <1>5. DOMAIN t = 1 .. Len(s) BY <1>3
  <1>6. t # <<>> BY <1>1, <1>5
  <1> QED BY <1>4, <1>6

LEMMA DropLast ==
  ASSUME NEW S, NEW s \in Seq(S), s # <<>>
  PROVE  SubSeq(s, 1, Len(s) - 1) \in Seq(S)
  <1>1. Len(s) \in Nat \ {0} BY LastOfSeq
  <1> QED BY <1>1

LEMMA OneElement ==
  ASSUME NEW S, NEW e \in S
  PROVE  <<e>> \in Seq(S)
  OBVIOUS

(* What is appended to one element is the second.                          *)
LEMMA TwoElements ==
  ASSUME NEW S, NEW x \in S, NEW y \in S
  PROVE  /\ DOMAIN Append(<<x>>, y) = 1 .. 2
         /\ Append(<<x>>, y)[1] = x
         /\ Append(<<x>>, y)[2] = y
  OBVIOUS

LEMMA OpenScripts ==
  ASSUME NEW lines \in Seq(Event)
  PROVE  [open |-> TRUE, lines |-> lines] \in [open : BOOLEAN, lines : Seq(Event)]
  <1>1. TRUE \in BOOLEAN OBVIOUS
  <1> QED BY <1>1, Zenon

-----------------------------------------------------------------------------
(* The parts of TypeOK a step may change. *)
LEMMA Notified ==
  ASSUME TypeOK
  PROVE  woken \in Seq(Status) /\ \A status \in Status : notified(status) \in Seq(Status)
  <1>1. ASSUME NEW status \in Status PROVE notified(status) \in Seq(Status)
    BY <1>1, AppendToSeq DEF TypeOK, notified
  <1>2. "running" \in Status BY DEF Status
  <1> QED BY <1>1, <1>2 DEF woken, TypeOK

LEMMA TopAnalyzer ==
  ASSUME TypeOK, mAnlz # <<>>
  PROVE  /\ analyzer \in Analyzer
         /\ \A a \in Analyzer : withTop(a) \in Seq(Analyzer) /\ withTop(a) # <<>>
         /\ popAnalizer \in Seq(Analyzer)
  <1>1. mAnlz \in Seq(Analyzer) BY DEF TypeOK
  <1> QED BY <1>1, LastOfSeq, ReplaceLast, DropLast DEF analyzer, withTop, popAnalizer

LEMMA Touched ==
  ASSUME NEW a \in Analyzer
  PROVE  /\ a.kind \in {"bin", "post", "dc"} /\ a.stopFlag \in StopFlag
         /\ a.left \in 0 .. MaxTasks
         /\ \A n \in 0 .. MaxTasks : [a EXCEPT !.left = n] \in Analyzer
         /\ \A n \in 0 .. MaxTasks, flag \in StopFlag :
               [a EXCEPT !.left = n, !.stopFlag = flag] \in Analyzer
  BY DEF Analyzer

LEMMA WithTasks ==
  ASSUME NEW s \in Seq(Analyzer), NEW k \in Nat,
         k > 0 => withTasks(s, k)[Len(withTasks(s, k))].left =< MaxTasks
  PROVE  /\ withTasks(s, k) \in Seq(Analyzer)
         /\ k > 0 \/ s # <<>> => withTasks(s, k) # <<>>
  <1>1. CASE k = 0
    BY <1>1 DEF withTasks
  <1>2. CASE k > 0 /\ s # <<>> /\ s[Len(s)].kind = "bin"
    <2> DEFINE top == s[Len(s)]
               new == [top EXCEPT !.left = @ + k]
    <2>1. Len(s) \in Nat \ {0} /\ top \in Analyzer BY <1>2, LastOfSeq
    <2>2. withTasks(s, k) = [s EXCEPT ![Len(s)] = new]
      BY <1>2 DEF withTasks
    <2>3. s \in [1 .. Len(s) -> Analyzer] BY LenProperties
    <2>4. /\ withTasks(s, k) \in [1 .. Len(s) -> {new} \cup Analyzer]
          /\ withTasks(s, k)[Len(s)] = new
      BY <2>1, <2>2, <2>3
    <2>5. Len(withTasks(s, k)) = Len(s) BY <2>1, <2>4
    <2>6. new.left =< MaxTasks BY <1>2, <2>4, <2>5
    <2>7. new \in Analyzer BY <2>1, <2>6, Bounds DEF Analyzer
    <2> QED BY <1>2, <2>2, <2>7, ReplaceLast
  <1>3. CASE k > 0 /\ ~(s # <<>> /\ s[Len(s)].kind = "bin")
    <2> DEFINE new == newAnalyzer("bin", k)
    <2>1. withTasks(s, k) = Append(s, new) BY <1>3 DEF withTasks
    <2>2. Len(Append(s, new)) = Len(s) + 1 /\ Append(s, new)[Len(s) + 1] = new
      OBVIOUS
    <2>3. new.left =< MaxTasks BY <1>3, <2>1, <2>2
    <2>4. new \in Analyzer BY <2>3, Bounds DEF Analyzer, newAnalyzer, StopFlag
    <2> QED BY <2>1, <2>4, AppendToSeq
  <1> QED BY <1>1, <1>2, <1>3

(* An event taken from the queue, and what follows it there.               *)
LEMMA Taken ==
  ASSUME TypeOK, NEW id, Take(id)
  PROVE  /\ Head(queue) \in Event /\ Head(queue).id = id
         /\ core = "loop" /\ failed = "no" /\ waiting' = FALSE
         /\ buttons' = buttons /\ click' = click /\ inputs' = inputs /\ debugMode' = debugMode
         /\ Keep => queue' \in Seq(Event) /\ toGui' \in Seq(Status)
         /\ \A e \in Event : ThenPost(e) => queue' \in Seq(Event) /\ toGui' \in Seq(Status)
  <1>1. queue \in Seq(Event) /\ queue # <<>> BY DEF TypeOK, Take
  <1>2. Tail(queue) \in Seq(Event) /\ Head(queue) \in Event BY <1>1, TailOfSeq
  <1>3. \A e \in Event : Append(Tail(queue), e) \in Seq(Event) BY <1>2, AppendToSeq
  <1>4. woken \in Seq(Status) BY Notified
  <1> QED BY <1>2, <1>3, <1>4 DEF Take, Running, guiVars, Keep, ThenPost

LEMMA TakeKeeps == TypeOK /\ TakeEvent => TypeOK'
  <1> SUFFICES ASSUME TypeOK, TakeEvent PROVE TypeOK'
    OBVIOUS
  <1> USE Taken
  <1>0. <<>> \in Seq(Analyzer) OBVIOUS
  <1>1. CASE TakeProcess
    BY <1>1 DEF TakeProcess, TypeOK, hasAnalyzer
  <1>2. CASE TakeResume
    <2>1. queue' \in Seq(Event)
      BY <1>2, EventsAreEvents, TailOfSeq, AppendToSeq DEF TakeResume, Take, TypeOK
    <2>2. toGui' \in Seq(Status) BY <1>2, Notified DEF TakeResume, Status
    <2> QED BY <1>2, <2>1, <2>2 DEF TakeResume, TypeOK
  <1>3. CASE TakeEventScript
    <2>1. Head(queue).arg \in DOMAIN Lines BY <1>3 DEF TakeEventScript, Event
    <2>2. Lines[Head(queue).arg] \in Seq(Event)
      BY <2>1, EventsAssumption DEF EventsAssumption
    <2>3. mpScript' \in [open : BOOLEAN, lines : Seq(Event)]
      <3>1. mpScript' = mpScript \/ mpScript' = [open |-> TRUE, lines |-> Lines[Head(queue).arg]]
        BY <1>3 DEF TakeEventScript
      <3> QED BY <3>1, <2>2, OpenScripts DEF TypeOK
    <2>4. failed' \in {"no", "script"} BY <1>3 DEF TakeEventScript
    <2>5. UNCHANGED <<mpProject, mAnlz, core, work>> /\ Keep BY <1>3 DEF TakeEventScript
    <2>6. Take("EVENT_SCRIPT") BY <1>3 DEF TakeEventScript
    <2> QED BY <2>3, <2>4, <2>5, <2>6 DEF TypeOK
  <1>4. CASE TakeNew
    <2>1. event("preformat") \in Event BY EventsAreEvents DEF Ops
    <2>2. PICK ok \in BOOLEAN :
             mpProject' = ok /\ mAnlz' = <<>> /\ (ThenPost(event("preformat")) \/ Keep)
      BY <1>4 DEF TakeNew, CloseProjectThen
    <2>3. UNCHANGED <<mpScript, core, work, failed>> BY <1>4 DEF TakeNew
    <2> QED BY <1>0, <1>4, <2>1, <2>2, <2>3 DEF TakeNew, TypeOK
  <1>5. CASE TakeNewAdd
    <2>1. event("preformat") \in Event BY EventsAreEvents DEF Ops
    <2>2. ThenPost(event("preformat")) \/ Keep BY <1>5 DEF TakeNewAdd
    <2>3. mpProject' \in BOOLEAN /\ mAnlz' \in Seq(Analyzer) /\ (mAnlz' # <<>> => mpProject')
      <3>1. \/ UNCHANGED <<mpProject, mAnlz>>
            \/ \E ok \in BOOLEAN : mpProject' = ok /\ mAnlz' = <<>>
        BY <1>5 DEF TakeNewAdd, CloseProjectThen
      <3> QED BY <1>0, <3>1 DEF TypeOK
    <2> QED BY <1>5, <2>1, <2>2, <2>3 DEF TakeNewAdd, TypeOK
  <1>6. CASE TakeOpen
    <2>1. PICK ok \in BOOLEAN : mpProject' = ok /\ mAnlz' = <<>>
      BY <1>6 DEF TakeOpen, CloseProjectThen
    <2>2. UNCHANGED <<mpScript, core, work, failed>> /\ Keep BY <1>6 DEF TakeOpen
    <2> QED BY <1>0, <1>6, <2>1, <2>2 DEF TakeOpen, TypeOK
  <1>7. CASE TakePreformat \/ TakeAnalyze
    <2>1. event("postformat") \in Event BY EventsAreEvents DEF Ops
    <2>2. Keep \/ ThenPost(event("postformat")) BY <1>7 DEF TakePreformat, TakeAnalyze
    <2>3. PICK k \in 0 .. work : /\ k > 0 => CanAdd(mAnlz, k)
                                 /\ mAnlz' = withTasks(mAnlz, k) /\ work' = work - k
      BY <1>7 DEF TakePreformat, TakeAnalyze
    <2>4. mAnlz' \in Seq(Analyzer) /\ work' \in Nat
      BY <2>3, WithTasks DEF CanAdd, TypeOK
    <2> QED BY <1>7, <2>1, <2>2, <2>4 DEF TakePreformat, TakeAnalyze, TypeOK
  <1>8. CASE TakePostformat
    <2>1. newAnalyzer("post", MaxTasks) \in Analyzer
      BY Bounds DEF newAnalyzer, Analyzer, StopFlag
    <2>2. Append(mAnlz, newAnalyzer("post", MaxTasks)) \in Seq(Analyzer)
      BY <2>1, AppendToSeq DEF TypeOK
    <2> QED BY <1>8, <2>2 DEF TakePostformat, TypeOK
  <1>9. CASE TakeDc
    <2>1. newAnalyzer("dc", MaxTasks) \in Analyzer
      BY Bounds DEF newAnalyzer, Analyzer, StopFlag
    <2>2. event("EVENT_ANLZ_RESUME") \in Event BY EventsAreEvents
    <2>3. CASE mAnlz # <<>>
      <3>1. [analyzer EXCEPT !.stopFlag = "RESET"] \in Analyzer
        BY <2>3, TopAnalyzer DEF Analyzer, StopFlag
      <3>2. mAnlz' \in Seq(Analyzer) BY <1>9, <2>3, <3>1, TopAnalyzer DEF TakeDc
      <3> QED BY <1>9, <2>2, <2>3, <3>2 DEF TakeDc, TypeOK
    <2>4. CASE mAnlz = <<>>
      <3>1. mAnlz' = mAnlz \/ mAnlz' = <<newAnalyzer("dc", MaxTasks)>>
        BY <1>9, <2>4 DEF TakeDc
      <3>2. <<newAnalyzer("dc", MaxTasks)>> \in Seq(Analyzer) BY <2>1, OneElement, Zenon
      <3>3. mAnlz' \in Seq(Analyzer) BY <3>1, <3>2 DEF TypeOK
      <3> QED BY <1>9, <2>4, <3>3 DEF TakeDc, TypeOK
    <2> QED BY <2>3, <2>4
  <1>10. CASE TakeDcFile
    <2>1. mpScript' \in [open : BOOLEAN, lines : Seq(Event)]
      <3>1. event("dc") \in Event BY EventsAreEvents DEF Ops
      <3>2. \A n \in 0 .. 2 : [i \in 1 .. n |-> event("dc")] \in Seq(Event) BY <3>1
      <3>3. \A n \in 0 .. 2 : [i \in 1 .. n |-> event("dc")] \o mpScript.lines \in Seq(Event)
        BY <3>2 DEF TypeOK
      <3>4. \/ mpScript' = mpScript
            \/ \E n \in 0 .. 2 : mpScript' =
                  [open |-> TRUE, lines |-> [i \in 1 .. n |-> event("dc")] \o mpScript.lines]
        BY <1>10 DEF TakeDcFile
      <3> QED BY <3>3, <3>4, OpenScripts DEF TypeOK
    <2> QED BY <1>10, <2>1 DEF TakeDcFile, TypeOK
  <1>11. CASE TakeScript
    <2>1. [id |-> "EVENT_SCRIPT", arg |-> Head(queue).arg] \in Event
      BY <1>11, EventsAreEvents DEF TakeScript, Event
    <2> QED BY <1>11, <2>1 DEF TakeScript, TypeOK
  <1>12. CASE TakeOther
    BY <1>12 DEF TakeOther, TypeOK
  <1> QED
    BY <1>1, <1>2, <1>3, <1>4, <1>5, <1>6, <1>7, <1>8, <1>9, <1>10, <1>11, <1>12
    DEF TakeEvent

LEMMA ProcessKeeps == TypeOK /\ Process => TypeOK'
  <1> SUFFICES ASSUME TypeOK, Process PROVE TypeOK'
    OBVIOUS
  <1>1. /\ UNCHANGED <<queue, toGui, mpProject, mpScript, waiting, buttons, click, inputs,
                       debugMode>>
        /\ core = "process" /\ core' = "loop" /\ failed = "no" /\ mAnlz # <<>>
    BY DEF Process, ProcessBin, ProcessPost, ProcessDc, AtProcess, Running, guiVars, TypeOK
  <1>2. analyzer \in Analyzer /\ \A a \in Analyzer : withTop(a) \in Seq(Analyzer)
    BY <1>1, TopAnalyzer
  <1>3. mpProject = TRUE BY <1>1 DEF TypeOK
  <1> SUFFICES mAnlz' \in Seq(Analyzer) /\ work' \in Nat /\ failed' \in {"no", "process"}
    BY <1>1, <1>3 DEF TypeOK
  <1>4. CASE UNCHANGED <<mAnlz, work>>
    <2>1. failed' \in {"no", "process"}
      BY <1>1 DEF Process, ProcessBin, ProcessPost, ProcessDc
    <2> QED BY <1>4, <2>1 DEF TypeOK
  <1>5. CASE ProcessBin /\ analyzer.left # 0
    <2>1. PICK k \in 0 .. work :
             /\ analyzer.left - 1 + k =< MaxTasks
             /\ mAnlz' = withTop([analyzer EXCEPT !.left = @ - 1 + k])
             /\ work' = work - k
      BY <1>5 DEF ProcessBin
    <2>2. [analyzer EXCEPT !.left = @ - 1 + k] \in Analyzer
      <3>1. work \in Nat /\ k \in Nat BY <2>1 DEF TypeOK
      <3>2. analyzer.left \in 0 .. MaxTasks /\ analyzer.left # 0 BY <1>2, <1>5, Touched
      <3>3. analyzer.left - 1 + k \in 0 .. MaxTasks BY <2>1, <3>1, <3>2, Bounds
      <3> QED BY <1>2, <3>3, Touched
    <2>3. failed' = "no" BY <1>1, <1>5 DEF ProcessBin
    <2> QED BY <1>2, <2>1, <2>2, <2>3 DEF TypeOK
  <1>6. CASE ProcessPost /\ analyzer.left # 0
    <2>1. PICK k \in 0 .. work, done \in BOOLEAN :
             /\ k =< MaxTasks
             /\ mAnlz' = withTasks(withTop([analyzer EXCEPT !.left = IF done THEN @ - 1 ELSE @]), k)
             /\ work' = work - k
      BY <1>6 DEF ProcessPost
    <2> DEFINE a == [analyzer EXCEPT !.left = IF done THEN @ - 1 ELSE @]
               s == withTop(a)
    <2>2. a \in Analyzer /\ a.kind = "post"
      BY <1>2, <1>6, Bounds DEF Analyzer, ProcessPost, AtProcess
    <2>3. s \in Seq(Analyzer) /\ s # <<>> BY <1>1, <2>2, TopAnalyzer
    <2>4. Len(s) = Len(mAnlz) /\ s[Len(s)] = a
      <3>1. Len(mAnlz) \in Nat \ {0} /\ mAnlz \in [1 .. Len(mAnlz) -> Analyzer]
        BY <1>1, LastOfSeq, LenProperties DEF TypeOK
      <3>2. s \in [1 .. Len(mAnlz) -> Analyzer] /\ s[Len(mAnlz)] = a
        BY <2>2, <3>1 DEF withTop
      <3> QED BY <2>3, <3>1, <3>2
    <2>5. CASE k = 0
      <3>1. mAnlz' = s BY <2>1, <2>5 DEF withTasks
      <3> QED BY <1>1, <1>6, <2>1, <2>3, <3>1 DEF ProcessPost, TypeOK
    <2>6. CASE k > 0
      <3> DEFINE t == newAnalyzer("bin", k)
      <3>0. k # 0 /\ a.kind # "bin" BY <2>2, <2>6
      <3>1. withTasks(s, k) = Append(s, t)
        <4> HIDE DEF a, s, t
        <4>1. s[Len(s)].kind # "bin" BY <2>4, <3>0, Zenon
        <4> QED BY <3>0, <4>1, Zenon DEF withTasks, t
      <3>2. t \in Analyzer BY <2>1, <2>6, Bounds DEF newAnalyzer, Analyzer, StopFlag, TypeOK
      <3>3. mAnlz' \in Seq(Analyzer) BY <2>1, <2>3, <3>1, <3>2, AppendToSeq
      <3> QED BY <1>1, <1>6, <2>1, <3>3 DEF ProcessPost, TypeOK
    <2> QED BY <2>1, <2>5, <2>6 DEF TypeOK
  <1>7. CASE ProcessDc /\ analyzer.left # 0
    <2>1. PICK n \in {0, analyzer.left - 1, analyzer.left}, fault \in BOOLEAN :
             /\ fault => n = analyzer.left /\ work > 0
             /\ mAnlz' = withTop([analyzer EXCEPT
                            !.left = n,
                            !.stopFlag = IF fault \/ (debugMode /\ n > 0) THEN "PAUSE" ELSE @])
             /\ work' = IF fault THEN work - 1 ELSE work
      BY <1>7 DEF ProcessDc
    <2> DEFINE a == [analyzer EXCEPT
                       !.left = n,
                       !.stopFlag = IF fault \/ (debugMode /\ n > 0) THEN "PAUSE" ELSE @]
    <2>2. a \in Analyzer
      <3>1. analyzer.left \in 0 .. MaxTasks /\ analyzer.stopFlag \in StopFlag
        BY <1>2, Touched
      <3>2. n \in 0 .. MaxTasks BY <1>7, <3>1, Bounds
      <3>3. (IF fault \/ (debugMode /\ n > 0) THEN "PAUSE" ELSE analyzer.stopFlag) \in StopFlag
        BY <3>1 DEF StopFlag
      <3> QED BY <1>2, <3>2, <3>3, Touched
    <2>3. failed' = "no" BY <1>1, <1>7 DEF ProcessDc
    <2> QED BY <1>2, <2>1, <2>2, <2>3 DEF TypeOK
  <1> QED BY <1>4, <1>5, <1>6, <1>7 DEF Process, ProcessBin, ProcessPost, ProcessDc

(* What CheckScript leaves: a queue, a script and a place for the thread.  *)
LEMMA CheckScriptTyped ==
  ASSUME TypeOK, NEW script \in [open : BOOLEAN, lines : Seq(Event)],
         NEW posted \in Seq(Event), CheckScript(script, posted)
  PROVE  /\ queue' \in Seq(Event) /\ mpScript' \in [open : BOOLEAN, lines : Seq(Event)]
         /\ core' \in {"loop", "announce", "exited"} /\ waiting' \in BOOLEAN
         /\ toGui' \in Seq(Status)
  <1>1. CASE script.open /\ script.lines # <<>>
    <2>1. Head(script.lines) \in Event /\ Tail(script.lines) \in Seq(Event)
      BY <1>1, TailOfSeq
    <2>2. Append(posted, Head(script.lines)) \in Seq(Event) BY <2>1, AppendToSeq
    <2> QED BY <1>1, <2>1, <2>2 DEF CheckScript, TypeOK
  <1>2. CASE ~(script.open /\ script.lines # <<>>)
    <2>1. queue' = posted /\ mpScript' = NoScript /\ NothingLeft
      BY <1>2 DEF CheckScript
    <2>2. NoScript \in [open : BOOLEAN, lines : Seq(Event)]
      BY DEF NoScript
    <2>3. core' \in {"loop", "exited"} /\ waiting' \in BOOLEAN
      BY <2>1 DEF NothingLeft, Return, TypeOK
    <2>4. toGui' \in Seq(Status) BY <2>1, Notified DEF NothingLeft, Status, TypeOK
    <2> QED BY <2>1, <2>2, <2>3, <2>4
  <1> QED BY <1>1, <1>2

LEMMA IdleKeeps == TypeOK /\ OnIdle => TypeOK'
  <1> SUFFICES ASSUME TypeOK, OnIdle PROVE TypeOK'
    OBVIOUS
  <1>0. /\ <<>> \in Seq(Analyzer) /\ <<>> \in Seq(Event)
        /\ <<event("EVENT_ANLZ_PROCESS")>> \in Seq(Event)
    BY EventsAreEvents, OneElement
  <1>1. CASE AtIdle /\ UNCHANGED mAnlz /\ core' \in {"loop", "announce", "exited"}
             /\ queue' \in Seq(Event) /\ mpScript' \in [open : BOOLEAN, lines : Seq(Event)]
             /\ waiting' \in BOOLEAN /\ toGui' \in Seq(Status)
    BY <1>1 DEF AtIdle, guiVars, TypeOK
  <1>2. ASSUME AtIdle, hasAnalyzer, mAnlz' \in Seq(Analyzer),
               core' \in {"loop", "announce", "exited"},
               queue' \in Seq(Event), mpScript' \in [open : BOOLEAN, lines : Seq(Event)],
               waiting' \in BOOLEAN, toGui' \in Seq(Status)
        PROVE  TypeOK'
    BY <1>2 DEF AtIdle, guiVars, TypeOK, hasAnalyzer
  <1>3. mpScript \in [open : BOOLEAN, lines : Seq(Event)]
        /\ NoScript \in [open : BOOLEAN, lines : Seq(Event)]
    BY DEF TypeOK, NoScript
  <1>4. CASE IdleFinished
    <2>1. mAnlz' \in Seq(Analyzer)
      BY <1>4, TopAnalyzer DEF IdleFinished, hasAnalyzer
    <2>2. CASE popAnalizer # <<>>
      BY <1>0, <1>2, <1>4, <2>1, <2>2 DEF IdleFinished, TypeOK
    <2>3. CASE popAnalizer = <<>>
      <3>1. CheckScript(mpScript, <<event("EVENT_ANLZ_PROCESS")>>)
        BY <1>4, <2>3 DEF IdleFinished
      <3> QED BY <1>0, <1>2, <1>3, <1>4, <2>1, <3>1, CheckScriptTyped DEF IdleFinished
    <2> QED BY <2>2, <2>3
  <1>5. CASE IdleAbort
    BY <1>0, <1>2, <1>3, <1>5, CheckScriptTyped DEF IdleAbort
  <1>6. CASE IdlePause \/ IdleProceed
    BY <1>0, <1>1, <1>6 DEF IdlePause, IdleProceed, TypeOK
  <1>7. CASE IdleNoAnalyzer
    BY <1>0, <1>1, <1>3, <1>7, CheckScriptTyped DEF IdleNoAnalyzer
  <1>8. CASE Announce
    <2>1. toGui' \in Seq(Status) BY <1>8, Notified DEF Announce, Status, TypeOK
    <2>2. core' = "loop" /\ waiting' \in BOOLEAN BY <1>8 DEF Announce, Return
    <2> QED BY <1>8, <2>1, <2>2 DEF Announce, guiVars, TypeOK
  <1> QED BY <1>4, <1>5, <1>6, <1>7, <1>8 DEF OnIdle

LEMMA Counted ==
  ASSUME NEW r \in [commands : Nat, clicks : Nat, toggles : Nat]
  PROVE  /\ [r EXCEPT !.commands = @ + 1] \in [commands : Nat, clicks : Nat, toggles : Nat]
         /\ [r EXCEPT !.clicks = @ + 1] \in [commands : Nat, clicks : Nat, toggles : Nat]
         /\ [r EXCEPT !.toggles = @ + 1] \in [commands : Nat, clicks : Nat, toggles : Nat]
  <1>1. r.commands + 1 \in Nat /\ r.clicks + 1 \in Nat /\ r.toggles + 1 \in Nat
    OBVIOUS
  <1> QED BY <1>1

LEMMA GuiKeeps == TypeOK /\ (Receive \/ ClickSetsFlag \/ User) => TypeOK'
  <1> SUFFICES ASSUME TypeOK, Receive \/ ClickSetsFlag \/ User PROVE TypeOK'
    OBVIOUS
  <1>1. CASE Receive
    <2>1. Head(toGui) \in Status /\ Tail(toGui) \in Seq(Status)
      BY <1>1, TailOfSeq DEF Receive, TypeOK
    <2> QED BY <1>1, <2>1 DEF Receive, coreVars, TypeOK
  <1>2. CASE ClickSetsFlag
    <2>1. CASE hasAnalyzer
      <3>1. click \in StopFlag /\ mAnlz # <<>>
        BY <1>2, <2>1 DEF ClickSetsFlag, TypeOK, hasAnalyzer
      <3>2. [analyzer EXCEPT !.stopFlag = click] \in Analyzer
        BY <3>1, TopAnalyzer DEF Analyzer
      <3>3. mAnlz' \in Seq(Analyzer) /\ mAnlz' # <<>>
        BY <1>2, <2>1, <3>1, <3>2, TopAnalyzer DEF ClickSetsFlag
      <3>4. queue' \in Seq(Event)
        <4>1. queue' = Append(queue, event("EVENT_ANLZ_RESUME"))
          BY <1>2, <2>1 DEF ClickSetsFlag
        <4>2. event("EVENT_ANLZ_RESUME") \in Event BY EventsAreEvents
        <4> QED BY <4>1, <4>2, AppendToSeq DEF TypeOK
      <3> QED BY <1>2, <2>1, <3>3, <3>4 DEF ClickSetsFlag, TypeOK, hasAnalyzer
    <2>2. CASE ~hasAnalyzer
      BY <1>2, <2>2 DEF ClickSetsFlag, TypeOK
    <2> QED BY <2>1, <2>2
  <1>3. CASE PostCommand
    <2>1. queue' \in Seq(Event)
      BY <1>3, EventsAssumption, AppendToSeq DEF PostCommand, TypeOK, EventsAssumption
    <2>2. inputs' \in [commands : Nat, clicks : Nat, toggles : Nat]
      <3>1. inputs' = [inputs EXCEPT !.commands = @ + 1] BY <1>3 DEF PostCommand
      <3> QED BY <3>1, Counted DEF TypeOK
    <2> QED BY <1>3, <2>1, <2>2 DEF PostCommand, coreVars, TypeOK
  <1>4. CASE Click
    <2>1. inputs' \in [commands : Nat, clicks : Nat, toggles : Nat]
      <3>1. inputs' = [inputs EXCEPT !.clicks = @ + 1] BY <1>4 DEF Click
      <3> QED BY <3>1, Counted DEF TypeOK
    <2> QED BY <1>4, <2>1 DEF Click, coreVars, TypeOK
  <1>5. CASE ToggleDebugMode
    <2>1. inputs' \in [commands : Nat, clicks : Nat, toggles : Nat]
      <3>1. inputs' = [inputs EXCEPT !.toggles = @ + 1] BY <1>5 DEF ToggleDebugMode
      <3> QED BY <3>1, Counted DEF TypeOK
    <2>2. debugMode' \in BOOLEAN BY <1>5 DEF ToggleDebugMode
    <2> QED BY <1>5, <2>1, <2>2 DEF ToggleDebugMode, coreVars, TypeOK
  <1> QED BY <1>1, <1>2, <1>3, <1>4, <1>5 DEF User

LEMMA InitTypeOK == Init => TypeOK
  <1> SUFFICES ASSUME Init PROVE TypeOK
    OBVIOUS
  <1>1. queue \in Seq(Event) BY EventsAssumption DEF Init, EventsAssumption
  <1>2. debugMode \in BOOLEAN BY Bounds DEF Init
  <1>3. mpScript \in [open : BOOLEAN, lines : Seq(Event)] BY DEF Init, NoScript
  <1>4. mAnlz \in Seq(Analyzer) /\ toGui \in Seq(Status) BY DEF Init
  <1>5. work \in Nat /\ inputs \in [commands : Nat, clicks : Nat, toggles : Nat]
    BY Bounds DEF Init
  <1> QED BY <1>1, <1>2, <1>3, <1>4, <1>5 DEF Init, TypeOK, Status

(* Analyzers exist only with a project, a step is made only of one, and    *)
(* whatever the queue and the script hold is an event that can be taken.   *)
THEOREM TypeCorrect == Spec => []TypeOK
  <1>1. TypeOK /\ UNCHANGED vars => TypeOK'
    BY DEF TypeOK, vars, coreVars, guiVars
  <1>2. TypeOK /\ [Next]_vars => TypeOK'
    BY <1>1, TakeKeeps, ProcessKeeps, IdleKeeps, GuiKeeps DEF Next
  <1> QED BY InitTypeOK, <1>2, PTL DEF Spec

-----------------------------------------------------------------------------
(* What the GUI has been told.                                             *)

Told == lastNotified = IF mAnlz = <<>> THEN "stopped" ELSE "paused"

(* The pause is announced after it was decided on: in between the GUI may  *)
(* write the flag, which posts an event, or switch the step mode.          *)
SleepInv ==
    /\ core = "process" => ~waiting
    /\ core = "announce" /\ queue = <<>> => SwitchedOff \/ checkStopRequest > 0
    /\ core = "loop" /\ waiting /\ queue = <<>> => SwitchedOff \/ Told

LEMMA NotifiedLast ==
  ASSUME TypeOK, Interactive, NEW status \in Status,
         toGui' = notified(status), buttons' = buttons
  PROVE  lastNotified' = status
  <1>1. CASE lastNotified = status
    BY <1>1 DEF notified, lastNotified
  <1>2. CASE lastNotified # status
    <2>1. toGui' = Append(toGui, status) BY <1>2 DEF notified
    <2>2. toGui \in Seq(Status) BY DEF TypeOK
    <2>3. Append(toGui, status) # <<>> BY <2>2, AppendToSeq
    <2>4. Append(toGui, status)[Len(Append(toGui, status))] = status BY <2>2
    <2> QED BY <2>1, <2>3, <2>4 DEF lastNotified
  <1> QED BY <1>1, <1>2

LEMMA ReceivedLast ==
  ASSUME TypeOK, Receive
  PROVE  lastNotified' = lastNotified
  <1>1. toGui \in Seq(Status) /\ toGui # <<>> BY DEF TypeOK, Receive
  <1>2. buttons' = Head(toGui) /\ toGui' = Tail(toGui) BY DEF Receive
  <1>3. Len(toGui) \in Nat \ {0} BY <1>1, LastOfSeq
  <1> DEFINE rest == Tail(toGui)
  <1>6. /\ rest \in Seq(Status) /\ Len(rest) = Len(toGui) - 1
        /\ \A i \in 1 .. Len(rest) : rest[i] = toGui[i + 1]
        /\ rest = <<>> <=> Len(rest) = 0
    BY <1>1, HeadTailProperties, EmptySeq
  <1> HIDE DEF rest
  <1>4. CASE Len(toGui) = 1
    <2>1. rest = <<>> BY <1>4, <1>6
    <2>2. Head(toGui) = toGui[Len(toGui)] BY <1>1, <1>4
    <2> QED BY <1>1, <1>2, <2>1, <2>2 DEF lastNotified, rest
  <1>5. CASE Len(toGui) # 1
    <2>1. rest # <<>> /\ rest[Len(rest)] = toGui[Len(toGui)] BY <1>3, <1>5, <1>6
    <2> QED BY <1>1, <1>2, <2>1 DEF lastNotified, rest
  <1> QED BY <1>4, <1>5

LEMMA Appended ==
  ASSUME NEW S, NEW s \in Seq(S), NEW e
  PROVE  Append(s, e) # <<>>
  <1>1. s \in Seq(S \cup {e}) OBVIOUS
  <1> QED BY <1>1, AppendToSeq

(* A pause is asked for by the GUI only, and of an analyzer.               *)
LEMMA PauseAsked ==
  checkStopRequest > 0 => Interactive /\ hasAnalyzer /\ (debugMode \/ analyzer.stopFlag # "RESET")
  BY DEF checkStopRequest

LEMMA CheckScriptSleeps ==
  ASSUME TypeOK, NEW script, NEW posted \in Seq(Event), CheckScript(script, posted),
         UNCHANGED guiVars, posted = <<>> => mAnlz' = <<>>
  PROVE  SleepInv'
  <1>0. buttons' = buttons BY DEF guiVars
  <1>1. CASE script.open /\ script.lines # <<>>
    <2>1. queue' # <<>> /\ core' = "announce" BY <1>1, Appended DEF CheckScript
    <2> QED BY <2>1 DEF SleepInv
  <1>2. CASE ~(script.open /\ script.lines # <<>>)
    <2>1. queue' = posted /\ NothingLeft BY <1>2 DEF CheckScript
    <2>2. CASE Interactive
      <3>1. /\ toGui' = notified("stopped")
            /\ core' = "loop" /\ waiting' = (queue' = <<>>)
        BY <2>1, <2>2 DEF NothingLeft, Return
      <3>2. lastNotified' = "stopped" BY <1>0, <2>2, <3>1, NotifiedLast DEF Status
      <3>3. queue' = <<>> => Told' BY <2>1, <3>2 DEF Told
      <3> QED BY <3>1, <3>3 DEF SleepInv
    <2>3. CASE ~Interactive
      <3>1. core' = "exited" BY <2>1, <2>3 DEF NothingLeft
      <3> QED BY <3>1 DEF SleepInv
    <2> QED BY <2>2, <2>3
  <1> QED BY <1>1, <1>2

LEMMA IdleSleeps == TypeOK /\ SleepInv /\ OnIdle => SleepInv'
  <1> SUFFICES ASSUME TypeOK, SleepInv, OnIdle PROVE SleepInv'
    OBVIOUS
  <1>0. /\ <<>> \in Seq(Event)
        /\ <<event("EVENT_ANLZ_PROCESS")>> \in Seq(Event)
        /\ <<event("EVENT_ANLZ_PROCESS")>> # <<>>
    BY EventsAreEvents, OneElement
  <1>1. CASE IdleFinished
    <2>1. CASE popAnalizer # <<>>
      <3>1. queue' # <<>> /\ core' = "announce" BY <1>0, <1>1, <2>1 DEF IdleFinished
      <3> QED BY <3>1 DEF SleepInv
    <2>2. CASE popAnalizer = <<>>
      BY <1>0, <1>1, <2>2, CheckScriptSleeps DEF IdleFinished, AtIdle
    <2> QED BY <2>1, <2>2
  <1>2. CASE IdleAbort
    BY <1>0, <1>2, CheckScriptSleeps DEF IdleAbort, AtIdle
  <1>3. CASE IdlePause
    <2>1. core' = "announce" /\ checkStopRequest > 0 BY <1>3 DEF IdlePause
    <2>2. checkStopRequest' = checkStopRequest
      BY <1>3 DEF IdlePause, AtIdle, guiVars, checkStopRequest, hasAnalyzer, analyzer
    <2> QED BY <2>1, <2>2 DEF SleepInv
  <1>4. CASE IdleProceed
    <2>1. queue' # <<>> /\ core' = "announce" BY <1>0, <1>4 DEF IdleProceed
    <2> QED BY <2>1 DEF SleepInv
  <1>5. CASE IdleNoAnalyzer
    <2>1. mAnlz' = <<>> BY <1>5 DEF IdleNoAnalyzer, hasAnalyzer, TypeOK
    <2> QED BY <1>0, <1>5, <2>1, CheckScriptSleeps DEF IdleNoAnalyzer, AtIdle
  <1>6. CASE Announce
    <2>1. core' = "loop" /\ queue' = queue /\ mAnlz' = mAnlz BY <1>6 DEF Announce, Return
    <2>2. inputs' = inputs /\ debugMode' = debugMode /\ buttons' = buttons
      BY <1>6 DEF Announce, guiVars
    <2>3. ASSUME queue' = <<>> PROVE SwitchedOff' \/ Told'
      <3>1. SwitchedOff \/ checkStopRequest > 0 BY <1>6, <2>1, <2>3 DEF SleepInv, Announce
      <3>2. CASE SwitchedOff BY <2>2, <3>2 DEF SwitchedOff
      <3>3. CASE checkStopRequest > 0
        <4>1. toGui' = notified("paused") BY <1>6, <3>3 DEF Announce
        <4>2. lastNotified' = "paused" BY <2>2, <3>3, <4>1, PauseAsked, NotifiedLast DEF Status
        <4>3. mAnlz # <<>> BY <3>3, PauseAsked DEF hasAnalyzer
        <4> QED BY <2>1, <4>2, <4>3 DEF Told
      <3> QED BY <3>1, <3>2, <3>3
    <2> QED BY <2>1, <2>3 DEF SleepInv
  <1> QED BY <1>1, <1>2, <1>3, <1>4, <1>5, <1>6 DEF OnIdle

LEMMA TakeSleeps == TypeOK /\ TakeEvent => SleepInv'
  <1> SUFFICES ASSUME TypeOK, TakeEvent PROVE SleepInv'
    OBVIOUS
  <1>1. waiting' = FALSE /\ core' \in {"loop", "process"}
    BY Taken DEF TakeEvent, TakeProcess, TakeResume, TakeEventScript, TakeNew, TakeNewAdd,
                 TakeOpen, TakePreformat, TakePostformat, TakeAnalyze, TakeDc, TakeDcFile,
                 TakeScript, TakeOther
  <1> QED BY <1>1 DEF SleepInv

LEMMA ProcessSleeps == SleepInv /\ Process => SleepInv'
  <1> SUFFICES ASSUME SleepInv, Process PROVE SleepInv'
    OBVIOUS
  <1>1. core = "process" /\ core' = "loop" /\ waiting' = waiting
    BY DEF Process, ProcessBin, ProcessPost, ProcessDc, AtProcess
  <1> QED BY <1>1 DEF SleepInv

LEMMA GuiSleeps == TypeOK /\ SleepInv /\ (Receive \/ ClickSetsFlag \/ User) => SleepInv'
  <1> SUFFICES ASSUME TypeOK, SleepInv, Receive \/ ClickSetsFlag \/ User PROVE SleepInv'
    OBVIOUS
  <1>0. queue \in Seq(Event) BY DEF TypeOK
  <1>1. CASE Receive
    <2>1. UNCHANGED <<queue, mpProject, mAnlz, core, waiting, inputs, debugMode>>
      BY <1>1 DEF Receive, coreVars
    <2>2. lastNotified' = lastNotified BY <1>1, ReceivedLast
    <2>3. Told' = Told /\ SwitchedOff' = SwitchedOff /\ checkStopRequest' = checkStopRequest
      BY <2>1, <2>2 DEF Told, SwitchedOff, checkStopRequest, hasAnalyzer, analyzer
    <2> QED BY <2>1, <2>3 DEF SleepInv
  <1>2. CASE ClickSetsFlag
    <2>1. core' = core /\ waiting' = waiting BY <1>2 DEF ClickSetsFlag
    <2>2. CASE hasAnalyzer
      <3>1. queue' # <<>> BY <1>0, <1>2, <2>2, Appended DEF ClickSetsFlag
      <3> QED BY <2>1, <3>1 DEF SleepInv
    <2>3. CASE ~hasAnalyzer
      <3>1. UNCHANGED <<queue, toGui, mpProject, mAnlz, buttons, inputs, debugMode>>
        BY <1>2, <2>3 DEF ClickSetsFlag
      <3>2. Told' = Told /\ SwitchedOff' = SwitchedOff /\ checkStopRequest' = checkStopRequest
        BY <3>1 DEF Told, lastNotified, SwitchedOff, checkStopRequest, hasAnalyzer, analyzer
      <3> QED BY <2>1, <3>1, <3>2 DEF SleepInv
    <2> QED BY <2>2, <2>3
  <1>3. CASE PostCommand
    <2>1. core' = core /\ waiting' = waiting BY <1>3 DEF PostCommand, coreVars
    <2>2. queue' # <<>> BY <1>0, <1>3, Appended DEF PostCommand
    <2> QED BY <2>1, <2>2 DEF SleepInv
  <1>4. CASE Click
    <2>1. UNCHANGED <<queue, toGui, mpProject, mAnlz, core, waiting, buttons, debugMode>>
      BY <1>4 DEF Click, coreVars
    <2>2. inputs'.toggles = inputs.toggles BY <1>4 DEF Click, TypeOK
    <2>3. Told' = Told /\ SwitchedOff' = SwitchedOff /\ checkStopRequest' = checkStopRequest
      BY <2>1, <2>2 DEF Told, lastNotified, SwitchedOff, checkStopRequest, hasAnalyzer, analyzer
    <2> QED BY <2>1, <2>3 DEF SleepInv
  <1>5. CASE ToggleDebugMode
    <2>1. UNCHANGED <<queue, toGui, mpProject, mAnlz, core, waiting, buttons>>
      BY <1>5 DEF ToggleDebugMode, coreVars
    <2>2. debugMode' = ~debugMode /\ debugMode \in BOOLEAN BY <1>5 DEF ToggleDebugMode, TypeOK
    <2>3. inputs'.toggles = inputs.toggles + 1 /\ inputs.toggles \in Nat
      BY <1>5 DEF ToggleDebugMode, TypeOK
    <2>4. Told' = Told BY <2>1 DEF Told, lastNotified
    <2>5. SwitchedOff => SwitchedOff' BY <2>2, <2>3 DEF SwitchedOff
    <2>6. ASSUME checkStopRequest > 0 PROVE SwitchedOff' \/ checkStopRequest' > 0
      <3>1. CASE debugMode
        <4>1. debugMode' = FALSE BY <2>2, <3>1
        <4>2. inputs'.toggles > 0 BY <2>3
        <4>3. SwitchedOff' BY <4>1, <4>2 DEF SwitchedOff
        <4> QED BY <4>3
      <3>2. CASE ~debugMode
        BY <2>1, <2>2, <2>6, <3>2 DEF checkStopRequest, hasAnalyzer, analyzer
      <3> QED BY <3>1, <3>2
    <2> QED BY <2>1, <2>4, <2>5, <2>6 DEF SleepInv
  <1> QED BY <1>1, <1>2, <1>3, <1>4, <1>5 DEF User

(* Whatever the user clicks, types and switches while the core thread is   *)
(* in OnIdle: when it has gone to sleep (Main_t::OnIdle has returned and   *)
(* nothing is queued), the GUI has been told why, for any scripts, unless  *)
(* the step mode was switched off.                                         *)
THEOREM SleepExplained == Spec => []SleepIsExplained
  <1>1. Init => SleepInv
    BY DEF Init, SleepInv, Told, lastNotified
  <1>2. SleepInv /\ UNCHANGED vars => SleepInv'
    BY DEF SleepInv, vars, coreVars, guiVars, Told, lastNotified, SwitchedOff,
           checkStopRequest, hasAnalyzer, analyzer
  <1>3. TypeOK /\ SleepInv /\ [Next]_vars => SleepInv'
    BY <1>2, TakeSleeps, ProcessSleeps, IdleSleeps, GuiSleeps DEF Next
  <1>4. SleepInv => SleepIsExplained
    BY DEF SleepInv, SleepIsExplained, SleepIsAnnounced, Asleep, Told
  <1> QED BY TypeCorrect, <1>1, <1>3, <1>4, PTL DEF Spec

-----------------------------------------------------------------------------
(* The end of the batch mode.                                              *)

LEMMA CheckScriptExits ==
  ASSUME NEW script, NEW posted, CheckScript(script, posted), mAnlz' = <<>>
  PROVE  ExitsClean'
  BY DEF CheckScript, NothingLeft, Return, ExitsClean

(***************************************************************************)
(* OnIdle ends the batch mode only when no analysis and no script is left, *)
(* for any scripts and any command line; there is no other way out.        *)
(***************************************************************************)
THEOREM ExitIsClean == Spec => []ExitsClean
  <1>1. Init => ExitsClean
    BY DEF Init, ExitsClean
  <1>2. TypeOK /\ ExitsClean /\ [Next]_vars => ExitsClean'
    <2> SUFFICES ASSUME TypeOK, ExitsClean, [Next]_vars PROVE ExitsClean'
      OBVIOUS
    <2>1. CASE TakeEvent
      <3>1. core = "loop" /\ core' \in {core, "process", "loop"}
        BY <2>1 DEF TakeEvent, Take, TakeProcess, TakeResume, TakeEventScript, TakeNew, TakeNewAdd,
                    TakeOpen, TakePreformat, TakePostformat, TakeAnalyze, TakeDc, TakeDcFile,
                    TakeScript, TakeOther
      <3> QED BY <3>1 DEF ExitsClean
    <2>2. CASE Process
      BY <2>2 DEF Process, ProcessBin, ProcessPost, ProcessDc, AtProcess, ExitsClean
    <2>3. CASE OnIdle
      <3>1. CASE IdleFinished
        BY <3>1, CheckScriptExits DEF IdleFinished, ExitsClean
      <3>2. CASE IdleAbort
        BY <3>2, CheckScriptExits DEF IdleAbort
      <3>3. CASE IdleNoAnalyzer
        <4>1. mAnlz' = <<>> BY <3>3 DEF IdleNoAnalyzer, hasAnalyzer, TypeOK
        <4> QED BY <3>3, <4>1, CheckScriptExits DEF IdleNoAnalyzer
      <3>4. CASE IdlePause \/ IdleProceed \/ Announce
        BY <3>4 DEF IdlePause, IdleProceed, Announce, Return, ExitsClean
      <3> QED BY <2>3, <3>1, <3>2, <3>3, <3>4 DEF OnIdle
    <2>4. CASE Receive \/ ClickSetsFlag \/ User
      <3>1. core' = core /\ core # "exited"
        BY <2>4 DEF Receive, ClickSetsFlag, User, PostCommand, Click, ToggleDebugMode,
                    Running, coreVars
      <3> QED BY <3>1 DEF ExitsClean
    <2>5. CASE UNCHANGED vars
      BY <2>5 DEF vars, coreVars, ExitsClean
    <2> QED BY <2>1, <2>2, <2>3, <2>4, <2>5 DEF Next
  <1> QED BY <1>1, <1>2, TypeCorrect, PTL DEF Spec

-----------------------------------------------------------------------------
(* What a script and the command line can ask for: commands, and a script. *)

Line == Ops \ {"preformat", "postformat"}

Requests ==
    /\ \A name \in DOMAIN Lines : \A i \in DOMAIN Lines[name] : Lines[name][i].id \in Ops
    /\ \A i \in DOMAIN Boot : Boot[i].id \in (Ops \ ProjectOps) \cup {"EVENT_SCRIPT"}

Batch == ~Interactive /\ Requests

(* Nobody has typed a command or clicked. *)
Unattended == inputs.commands = 0 /\ inputs.clicks = 0

(* A line in the queue finds no analysis, and nothing before it starts     *)
(* one; steps are asked for once, and never by a resume.                   *)
Waits(q, stack) ==
    /\ \A i \in DOMAIN q : q[i].id # "EVENT_ANLZ_RESUME"
    /\ \A i \in DOMAIN q : q[i].id \in Line =>
          stack = <<>> /\ \A j \in 1 .. i - 1 : q[j].id \notin ProjectOps
    /\ \A i, j \in DOMAIN q :
          q[i].id = "EVENT_ANLZ_PROCESS" /\ q[j].id = "EVENT_ANLZ_PROCESS" => i = j

Steps(q) == {i \in DOMAIN q : q[i].id = "EVENT_ANLZ_PROCESS"}

AloneInv ==
    /\ click = "no"
    /\ \A i \in DOMAIN mpScript.lines : mpScript.lines[i].id \in Ops
    /\ Waits(queue, mAnlz)
    /\ core = "process" => Steps(queue) = {}

LEMMA TailWaits ==
  ASSUME NEW q \in Seq(Event), q # <<>>, NEW stack, Waits(q, stack)
  PROVE  /\ Waits(Tail(q), stack)
         /\ Head(q).id \in ProjectOps => \A other : Waits(Tail(q), other)
         /\ Head(q).id = "EVENT_ANLZ_PROCESS" => Steps(Tail(q)) = {}
         /\ Head(q).id # "EVENT_ANLZ_RESUME"
         /\ Head(q).id \in Line => stack = <<>>
  <1> DEFINE t == Tail(q)
  <1>1. /\ Len(q) \in Nat \ {0} /\ DOMAIN q = 1 .. Len(q) /\ Head(q) = q[1]
        /\ DOMAIN t = 1 .. Len(q) - 1
        /\ \A i \in 1 .. Len(q) - 1 : t[i] = q[i + 1]
    BY EmptySeq, HeadTailProperties
  <1> HIDE DEF t
  <1>2. \A i \in DOMAIN t : i + 1 \in DOMAIN q /\ t[i] = q[i + 1] /\ i \in Nat \ {0}
    BY <1>1
  <1>3. ASSUME NEW i \in DOMAIN t, t[i].id \in Line
        PROVE  /\ stack = <<>> /\ Head(q).id \notin ProjectOps
               /\ \A j \in 1 .. i - 1 : t[j].id \notin ProjectOps
    <2>1. \A j \in 1 .. (i + 1) - 1 : q[j].id \notin ProjectOps
      BY <1>2, <1>3 DEF Waits
    <2>2. \A j \in 1 .. i - 1 : j + 1 \in 1 .. (i + 1) - 1 /\ t[j] = q[j + 1]
      BY <1>1, <1>2
    <2>3. 1 \in 1 .. (i + 1) - 1 BY <1>2
    <2> QED BY <1>1, <1>2, <1>3, <2>1, <2>2, <2>3 DEF Waits
  <1>4. \A i \in DOMAIN t : t[i].id # "EVENT_ANLZ_RESUME"
    BY <1>2 DEF Waits
  <1>5. \A i, j \in DOMAIN t :
           t[i].id = "EVENT_ANLZ_PROCESS" /\ t[j].id = "EVENT_ANLZ_PROCESS" => i = j
    <2> SUFFICES ASSUME NEW i \in DOMAIN t, NEW j \in DOMAIN t,
                        t[i].id = "EVENT_ANLZ_PROCESS", t[j].id = "EVENT_ANLZ_PROCESS"
                 PROVE  i = j
      OBVIOUS
    <2>1. i + 1 = j + 1 BY <1>2 DEF Waits
    <2> QED BY <1>2, <2>1
  <1>6. Head(q).id = "EVENT_ANLZ_PROCESS" => Steps(t) = {}
    <2> SUFFICES ASSUME Head(q).id = "EVENT_ANLZ_PROCESS", NEW i \in DOMAIN t,
                        t[i].id = "EVENT_ANLZ_PROCESS"
                 PROVE  FALSE
      BY DEF Steps
    <2>1. 1 \in DOMAIN q /\ i + 1 \in DOMAIN q /\ i + 1 # 1 BY <1>1, <1>2
    <2> QED BY <1>1, <1>2, <2>1 DEF Waits
  <1>7. Head(q).id # "EVENT_ANLZ_RESUME" /\ (Head(q).id \in Line => stack = <<>>)
    <2>1. 1 \in DOMAIN q BY <1>1
    <2> QED BY <1>1, <2>1 DEF Waits
  <1> QED BY <1>3, <1>4, <1>5, <1>6, <1>7 DEF Waits, t

LEMMA AppendWaits ==
  ASSUME NEW q \in Seq(Event), NEW stack, Waits(q, stack), NEW e \in Event,
         e.id \in {"preformat", "postformat", "EVENT_SCRIPT"}
  PROVE  Waits(Append(q, e), stack)
  <1> DEFINE t == Append(q, e)
             n == Len(q) + 1
  <1>1. /\ Len(q) \in Nat /\ DOMAIN q = 1 .. Len(q) /\ DOMAIN t = 1 .. n
        /\ \A i \in DOMAIN q : t[i] = q[i]
        /\ t[n] = e
    OBVIOUS
  <1> HIDE DEF t
  <1>2. \A i \in DOMAIN t : i \in DOMAIN q \/ i = n BY <1>1
  <1>3. e.id \notin Line \cup {"EVENT_ANLZ_RESUME", "EVENT_ANLZ_PROCESS"}
    BY DEF Line, Ops
  <1>4. \A i \in DOMAIN t : t[i].id # "EVENT_ANLZ_RESUME"
    BY <1>1, <1>2, <1>3 DEF Waits
  <1>5. ASSUME NEW i \in DOMAIN t, t[i].id \in Line
        PROVE  stack = <<>> /\ \A j \in 1 .. i - 1 : t[j].id \notin ProjectOps
    <2>1. i \in DOMAIN q BY <1>1, <1>2, <1>3, <1>5
    <2>2. \A j \in 1 .. i - 1 : j \in DOMAIN q BY <1>1, <2>1
    <2> QED BY <1>1, <1>5, <2>1, <2>2 DEF Waits
  <1>6. \A i, j \in DOMAIN t :
           t[i].id = "EVENT_ANLZ_PROCESS" /\ t[j].id = "EVENT_ANLZ_PROCESS" => i = j
    BY <1>1, <1>2, <1>3 DEF Waits
  <1> QED BY <1>4, <1>5, <1>6 DEF Waits, t

(* What OnIdle posts: a step, or a line with no analysis, or both.         *)
LEMMA PostedWaits ==
  ASSUME NEW posted \in {<<>>, <<event("EVENT_ANLZ_PROCESS")>>}
  PROVE  /\ \A stack : Waits(posted, stack)
         /\ \A e \in Event : e.id \in Ops => Waits(Append(posted, e), <<>>)
  <1>1. "EVENT_ANLZ_PROCESS" \notin Ops /\ "EVENT_ANLZ_RESUME" \notin Ops
        /\ "EVENT_ANLZ_PROCESS" # "EVENT_ANLZ_RESUME"
        /\ Line \subseteq Ops /\ ProjectOps \subseteq Ops
    BY DEF Ops, Line, ProjectOps
  <1>2. event("EVENT_ANLZ_PROCESS").id = "EVENT_ANLZ_PROCESS" BY DEF event
  <1>3. CASE posted = <<>>
    <2>1. \A stack : Waits(posted, stack) BY <1>3 DEF Waits
    <2>2. ASSUME NEW e \in Event, e.id \in Ops PROVE Waits(<<e>>, <<>>)
      BY <1>1, <2>2 DEF Waits
    <2>3. \A e \in Event : Append(<<>>, e) = <<e>> OBVIOUS
    <2> QED BY <1>3, <2>1, <2>2, <2>3
  <1>4. CASE posted = <<event("EVENT_ANLZ_PROCESS")>>
    <2> DEFINE p == event("EVENT_ANLZ_PROCESS")
    <2>0. p.id = "EVENT_ANLZ_PROCESS" /\ p \in Event BY <1>2, EventsAreEvents
    <2> HIDE DEF p
    <2>1. \A stack : Waits(<<p>>, stack) BY <1>1, <2>0 DEF Waits
    <2>2. ASSUME NEW e \in Event, e.id \in Ops PROVE Waits(Append(<<p>>, e), <<>>)
      <3> DEFINE t == Append(<<p>>, e)
      <3>1. DOMAIN t = 1 .. 2 /\ t[1] = p /\ t[2] = e BY <2>0, TwoElements
      <3>2. \A i \in DOMAIN t : (i = 1 /\ t[i] = p) \/ (i = 2 /\ t[i] = e) BY <3>1
      <3>3. \A j \in 1 .. 2 - 1 : j = 1 /\ t[j] = p BY <3>1
      <3>4. p.id \notin Line BY <1>1, <2>0
      <3> HIDE DEF t
      <3> QED BY <1>1, <2>0, <2>2, <3>2, <3>3, <3>4 DEF Waits, t
    <2> QED BY <1>4, <2>1, <2>2 DEF p
  <1> QED BY <1>3, <1>4

(* The lines that dcfile puts ahead of a script, and those of a script that *)
(* CheckScript takes from.                                                 *)
LEMMA DcLines ==
  ASSUME TypeOK, TakeDcFile, NEW S, "dc" \in S,
         \A i \in DOMAIN mpScript.lines : mpScript.lines[i].id \in S
  PROVE  \A i \in DOMAIN mpScript'.lines : mpScript'.lines[i].id \in S
  <1>1. CASE UNCHANGED mpScript
    BY <1>1
  <1>2. ASSUME NEW n \in 0 .. 2,
               mpScript' = [open |-> TRUE,
                            lines |-> [i \in 1 .. n |-> event("dc")] \o mpScript.lines]
        PROVE  \A i \in DOMAIN mpScript'.lines : mpScript'.lines[i].id \in S
    <2> DEFINE dcs == [i \in 1 .. n |-> event("dc")]
               rest == mpScript.lines
    <2>1. event("dc") \in Event /\ event("dc").id \in S
      BY EventsAreEvents DEF event, Ops
    <2>2. /\ dcs \in Seq(Event) /\ Len(dcs) = n
          /\ \A i \in 1 .. n : dcs[i] = event("dc")
      BY <2>1
    <2>3. rest \in Seq(Event) /\ \A i \in 1 .. Len(rest) : rest[i].id \in S
      BY DEF TypeOK
    <2> HIDE DEF dcs, rest
    <2>4. ASSUME NEW i \in DOMAIN (dcs \o rest)
          PROVE  (dcs \o rest)[i].id \in S
      <3>1. i \in 1 .. n + Len(rest) BY <2>2, <2>3
      <3>2. CASE i =< n
        <4>1. (dcs \o rest)[i] = dcs[i] /\ i \in 1 .. n BY <2>2, <2>3, <3>1, <3>2
        <4> QED BY <2>1, <2>2, <4>1
      <3>3. CASE i > n
        <4>1. (dcs \o rest)[i] = rest[i - n] /\ i - n \in 1 .. Len(rest)
          BY <2>2, <2>3, <3>1, <3>3
        <4> QED BY <2>3, <4>1
      <3> QED BY <3>1, <3>2, <3>3
    <2> QED BY <1>2, <2>4 DEF dcs, rest
  <1> QED BY <1>1, <1>2 DEF TakeDcFile

LEMMA ScriptLines ==
  ASSUME TypeOK, NEW S, \A i \in DOMAIN mpScript.lines : mpScript.lines[i].id \in S,
         NEW script \in {mpScript, NoScript}, NEW posted, CheckScript(script, posted)
  PROVE  /\ \A i \in DOMAIN mpScript'.lines : mpScript'.lines[i].id \in S
         /\ \/ queue' = posted
            \/ /\ mpScript'.open = TRUE
               /\ \E e \in Event : e.id \in S /\ queue' = Append(posted, e)
  <1>1. CASE script.open /\ script.lines # <<>>
    <2> DEFINE lines == script.lines
    <2>1. queue' = Append(posted, Head(lines)) /\ mpScript' = [script EXCEPT !.lines = Tail(@)]
      BY <1>1 DEF CheckScript
    <2>2. script = mpScript /\ script \in [open : BOOLEAN, lines : Seq(Event)]
      <3>1. script # NoScript BY <1>1 DEF NoScript
      <3> QED BY <3>1 DEF TypeOK
    <2>3. mpScript'.lines = Tail(lines) /\ mpScript'.open = TRUE BY <1>1, <2>1, <2>2
    <2>4. lines \in Seq(Event) /\ \A i \in DOMAIN lines : lines[i].id \in S BY <2>2
    <2>5. /\ Len(lines) \in Nat \ {0} /\ Head(lines) = lines[1] /\ Head(lines) \in Event
          /\ DOMAIN Tail(lines) = 1 .. Len(lines) - 1
          /\ \A i \in 1 .. Len(lines) - 1 : Tail(lines)[i] = lines[i + 1]
          /\ DOMAIN lines = 1 .. Len(lines)
      BY <1>1, <2>4, EmptySeq, HeadTailProperties
    <2> HIDE DEF lines
    <2>6. Head(lines).id \in S /\ \A i \in DOMAIN Tail(lines) : Tail(lines)[i].id \in S
      BY <2>4, <2>5
    <2> QED BY <2>1, <2>3, <2>5, <2>6
  <1>2. CASE ~(script.open /\ script.lines # <<>>)
    <2>1. queue' = posted /\ mpScript' = NoScript BY <1>2 DEF CheckScript
    <2>2. \A i \in DOMAIN mpScript'.lines : FALSE BY <2>1 DEF NoScript
    <2> QED BY <2>1, <2>2
  <1> QED BY <1>1, <1>2

LEMMA AloneInit == Requests /\ Init => AloneInv
  <1> SUFFICES ASSUME Requests, Init PROVE AloneInv
    OBVIOUS
  <1>1. \A i \in DOMAIN Boot : Boot[i].id \notin ProjectOps
                               /\ Boot[i].id \notin {"EVENT_ANLZ_RESUME", "EVENT_ANLZ_PROCESS"}
    BY DEF Requests, Ops, ProjectOps
  <1>2. Boot \in Seq(Event) BY EventsAssumption DEF EventsAssumption
  <1>3. \A i \in DOMAIN Boot : \A j \in 1 .. i - 1 : j \in DOMAIN Boot
    BY <1>2
  <1>4. Waits(Boot, <<>>) BY <1>1, <1>3 DEF Waits
  <1> QED BY <1>4 DEF Init, AloneInv, NoScript

LEMMA AloneTakes ==
  ASSUME Requests, TypeOK, AloneInv, NEW id, Take(id)
  PROVE  /\ core = "loop" /\ id # "EVENT_ANLZ_RESUME"
         /\ click' = "no"
         /\ id \in Line => mAnlz = <<>>
         /\ Keep => Waits(queue', mAnlz)
         /\ Keep /\ id \in ProjectOps => \A other : Waits(queue', other)
         /\ Keep /\ id = "EVENT_ANLZ_PROCESS" => Steps(queue') = {}
         /\ \A e \in Event : e.id \in {"preformat", "postformat", "EVENT_SCRIPT"} /\ ThenPost(e) =>
               /\ Waits(queue', mAnlz)
               /\ id \in ProjectOps => \A other : Waits(queue', other)
  <1>1. queue \in Seq(Event) /\ queue # <<>> /\ Head(queue).id = id
    BY DEF TypeOK, Take
  <1>2. Waits(queue, mAnlz) /\ click = "no" BY DEF AloneInv
  <1>3. /\ Waits(Tail(queue), mAnlz) /\ id # "EVENT_ANLZ_RESUME"
        /\ id \in ProjectOps => \A other : Waits(Tail(queue), other)
        /\ id = "EVENT_ANLZ_PROCESS" => Steps(Tail(queue)) = {}
        /\ id \in Line => mAnlz = <<>>
    BY <1>1, <1>2, TailWaits
  <1>4. Tail(queue) \in Seq(Event) BY <1>1, TailOfSeq
  <1>5. ASSUME NEW e \in Event, e.id \in {"preformat", "postformat", "EVENT_SCRIPT"}, ThenPost(e)
        PROVE  /\ Waits(queue', mAnlz)
               /\ id \in ProjectOps => \A other : Waits(queue', other)
    <2>1. queue' = Append(Tail(queue), e) BY <1>5 DEF ThenPost
    <2> QED BY <1>3, <1>4, <1>5, <2>1, AppendWaits
  <1> QED BY <1>2, <1>3, <1>5 DEF Take, Keep, guiVars

LEMMA AloneTakeKeeps == Requests /\ TypeOK /\ AloneInv /\ TakeEvent => AloneInv'
  <1> SUFFICES ASSUME Requests, TypeOK, AloneInv, TakeEvent PROVE AloneInv'
    OBVIOUS
  <1> USE AloneTakes
  <1>0. /\ event("preformat") \in Event /\ event("preformat").id = "preformat"
        /\ event("postformat") \in Event /\ event("postformat").id = "postformat"
    BY EventsAreEvents DEF event, Ops
  <1>1. CASE TakeProcess
    <2>1. Take("EVENT_ANLZ_PROCESS") /\ Keep /\ UNCHANGED <<mAnlz, mpScript>>
      BY <1>1 DEF TakeProcess
    <2> QED BY <2>1 DEF AloneInv
  <1>2. CASE TakeResume
    BY <1>2 DEF TakeResume
  <1>3. CASE TakeEventScript
    <2>1. /\ Take("EVENT_SCRIPT") /\ Keep /\ UNCHANGED <<mAnlz, core>>
          /\ \/ UNCHANGED mpScript
             \/ mpScript' = [open |-> TRUE, lines |-> Lines[Head(queue).arg]]
      BY <1>3 DEF TakeEventScript
    <2>2. Head(queue).arg \in DOMAIN Lines
      <3>1. Head(queue) \in Event /\ Head(queue).id = "EVENT_SCRIPT" BY <2>1, Taken
      <3> QED BY <3>1 DEF Event
    <2>3. \A i \in DOMAIN mpScript'.lines : mpScript'.lines[i].id \in Ops
      BY <2>1, <2>2 DEF Requests, AloneInv
    <2> QED BY <2>1, <2>3 DEF AloneInv
  <1>4. CASE TakeNew
    <2>1. /\ Take("new") /\ (Keep \/ ThenPost(event("preformat")))
          /\ mAnlz' = <<>> /\ UNCHANGED <<mpScript, core>>
      BY <1>4 DEF TakeNew, CloseProjectThen
    <2>2. mAnlz = <<>> BY <2>1 DEF Line, Ops
    <2> QED BY <1>0, <2>1, <2>2 DEF AloneInv
  <1>5. CASE TakeNewAdd
    <2>1. /\ Take("newadd") /\ (Keep \/ ThenPost(event("preformat")))
          /\ (mAnlz' = <<>> \/ mAnlz' = mAnlz) /\ UNCHANGED <<mpScript, core>>
      BY <1>5 DEF TakeNewAdd, CloseProjectThen
    <2>2. mAnlz = <<>> BY <2>1 DEF Line, Ops
    <2> QED BY <1>0, <2>1, <2>2 DEF AloneInv
  <1>6. CASE TakeOpen
    <2>1. Take("open") /\ Keep /\ mAnlz' = <<>> /\ UNCHANGED <<mpScript, core>>
      BY <1>6 DEF TakeOpen, CloseProjectThen
    <2>2. mAnlz = <<>> BY <2>1 DEF Line, Ops
    <2> QED BY <2>1, <2>2 DEF AloneInv
  <1>7. CASE TakePreformat \/ TakePostformat \/ TakeAnalyze
    <2>1. \E id \in ProjectOps :
             /\ Take(id) /\ (Keep \/ ThenPost(event("postformat")))
             /\ UNCHANGED <<mpScript, core>>
      BY <1>7 DEF TakePreformat, TakePostformat, TakeAnalyze, ProjectOps
    <2> QED BY <1>0, <2>1 DEF AloneInv
  <1>8. CASE TakeDc
    <2>1. Take("dc") /\ UNCHANGED <<mpScript, core>> BY <1>8 DEF TakeDc
    <2>2. mAnlz = <<>> BY <2>1 DEF Line, Ops
    <2>3. Keep BY <1>8, <2>2 DEF TakeDc
    <2> QED BY <2>1, <2>3 DEF AloneInv, ProjectOps
  <1>9. CASE TakeDcFile
    <2>1. Take("dcfile") /\ Keep /\ UNCHANGED <<mAnlz, core>> BY <1>9 DEF TakeDcFile
    <2>2. \A i \in DOMAIN mpScript'.lines : mpScript'.lines[i].id \in Ops
      BY <1>9, DcLines DEF AloneInv, Ops
    <2> QED BY <2>1, <2>2 DEF AloneInv
  <1>10. CASE TakeScript
    <2>1. /\ Take("script") /\ UNCHANGED <<mpScript, mAnlz, core>>
          /\ ThenPost([id |-> "EVENT_SCRIPT", arg |-> Head(queue).arg])
      BY <1>10 DEF TakeScript
    <2>2. [id |-> "EVENT_SCRIPT", arg |-> Head(queue).arg] \in Event
      <3>1. Head(queue) \in Event /\ Head(queue).id = "script" BY <2>1, Taken
      <3> QED BY <3>1, EventsAreEvents DEF Event
    <2> QED BY <2>1, <2>2 DEF AloneInv
  <1>11. CASE TakeOther
    <2>1. \E id \in {"other"} \cup ProjectOps :
             Take(id) /\ Keep /\ UNCHANGED <<mpScript, mAnlz, core>>
      BY <1>11 DEF TakeOther
    <2> QED BY <2>1 DEF AloneInv
  <1> QED
    BY <1>1, <1>2, <1>3, <1>4, <1>5, <1>6, <1>7, <1>8, <1>9, <1>10, <1>11 DEF TakeEvent

(* Nothing of OnIdle but lines and steps comes into the queue.             *)
LEMMA AloneScript ==
  ASSUME Requests, TypeOK, AloneInv, AtIdle, mAnlz' = <<>>,
         NEW script \in {mpScript, NoScript},
         NEW posted \in {<<>>, <<event("EVENT_ANLZ_PROCESS")>>}, CheckScript(script, posted)
  PROVE  AloneInv'
  <1>1. click' = "no"
    BY DEF AloneInv, AtIdle, guiVars
  <1>2. /\ script \in [open : BOOLEAN, lines : Seq(Event)]
        /\ script.lines \in Seq(Event)
        /\ \A i \in DOMAIN script.lines : script.lines[i].id \in Ops
    <2>1. CASE script = mpScript
      BY <2>1 DEF AloneInv, TypeOK
    <2>2. CASE script = NoScript
      <3>1. <<>> \in Seq(Event) /\ DOMAIN <<>> = {} OBVIOUS
      <3>2. script = [open |-> FALSE, lines |-> <<>>] BY <2>2 DEF NoScript
      <3> QED BY <3>1, <3>2
    <2> QED BY <2>1, <2>2
  <1>3. CASE script.open /\ script.lines # <<>>
    <2>1. /\ queue' = Append(posted, Head(script.lines))
          /\ mpScript' = [script EXCEPT !.lines = Tail(@)]
          /\ core' = "announce"
      BY <1>3 DEF CheckScript
    <2> DEFINE lines == script.lines
    <2>2. /\ Len(lines) \in Nat \ {0} /\ Head(lines) = lines[1] /\ Head(lines) \in Event
          /\ DOMAIN Tail(lines) = 1 .. Len(lines) - 1
          /\ \A i \in 1 .. Len(lines) - 1 : Tail(lines)[i] = lines[i + 1]
          /\ DOMAIN lines = 1 .. Len(lines)
      BY <1>2, <1>3, EmptySeq, HeadTailProperties
    <2>3. Head(lines).id \in Ops /\ \A i \in DOMAIN Tail(lines) : Tail(lines)[i].id \in Ops
      BY <1>2, <2>2
    <2>4. mpScript'.lines = Tail(lines)
      BY <1>2, <2>1
    <2>5. Waits(queue', <<>>) BY <2>1, <2>2, <2>3, PostedWaits
    <2> QED BY <1>1, <2>1, <2>3, <2>4, <2>5 DEF AloneInv
  <1>4. CASE ~(script.open /\ script.lines # <<>>)
    <2>1. queue' = posted /\ mpScript' = NoScript /\ NothingLeft
      BY <1>4 DEF CheckScript
    <2>2. core' \in {"loop", "exited"}
      BY <2>1 DEF NothingLeft, Return
    <2>3. Waits(queue', <<>>) BY <2>1, PostedWaits
    <2> QED BY <1>1, <2>1, <2>2, <2>3 DEF AloneInv, NoScript
  <1> QED BY <1>3, <1>4

LEMMA AloneIdleKeeps == Requests /\ TypeOK /\ AloneInv /\ OnIdle => AloneInv'
  <1> SUFFICES ASSUME Requests, TypeOK, AloneInv, OnIdle PROVE AloneInv'
    OBVIOUS
  <1>1. ASSUME AtIdle, queue' \in {<<>>, <<event("EVENT_ANLZ_PROCESS")>>},
               core' = "announce", UNCHANGED mpScript
        PROVE  AloneInv'
    <2>1. Waits(queue', mAnlz') BY <1>1, PostedWaits
    <2> QED BY <1>1, <2>1 DEF AloneInv, AtIdle, guiVars
  <1>2. CASE IdleFinished
    <2>1. CASE popAnalizer # <<>>
      BY <1>1, <1>2, <2>1 DEF IdleFinished
    <2>2. CASE popAnalizer = <<>>
      BY <1>2, <2>2, AloneScript DEF IdleFinished
    <2> QED BY <2>1, <2>2
  <1>3. CASE IdleAbort
    BY <1>3, AloneScript DEF IdleAbort
  <1>4. CASE IdlePause
    BY <1>1, <1>4 DEF IdlePause, AtIdle
  <1>5. CASE IdleProceed
    BY <1>1, <1>5 DEF IdleProceed
  <1>6. CASE IdleNoAnalyzer
    <2>1. mAnlz' = <<>> BY <1>6 DEF IdleNoAnalyzer, hasAnalyzer, TypeOK
    <2> QED BY <1>6, <2>1, AloneScript DEF IdleNoAnalyzer
  <1>7. CASE Announce
    BY <1>7 DEF Announce, Return, guiVars, AloneInv
  <1> QED BY <1>2, <1>3, <1>4, <1>5, <1>6, <1>7 DEF OnIdle

LEMMA AloneProcessKeeps == TypeOK /\ AloneInv /\ Process => AloneInv'
  <1> SUFFICES ASSUME TypeOK, AloneInv, Process PROVE AloneInv'
    OBVIOUS
  <1>1. /\ UNCHANGED <<queue, mpScript, click>> /\ core = "process" /\ core' = "loop"
    BY DEF Process, ProcessBin, ProcessPost, ProcessDc, AtProcess, guiVars
  <1>2. mAnlz # <<>> BY <1>1 DEF TypeOK
  <1>3. Waits(queue, mAnlz') BY <1>2 DEF AloneInv, Waits
  <1> QED BY <1>1, <1>3 DEF AloneInv

(* What the GUI thread and a stuttering step leave when nobody interferes. *)
LEMMA AloneElsewhere ==
  ASSUME TypeOK, Unattended => click = "no", Unattended',
         Receive \/ ClickSetsFlag \/ User \/ UNCHANGED vars
  PROVE  Unattended /\ UNCHANGED <<queue, mAnlz, mpScript, core, click, failed>>
  <1> USE DEF Unattended
  <1>1. inputs.commands \in Nat /\ inputs.clicks \in Nat /\ inputs.toggles \in Nat
        /\ inputs \in [commands : Nat, clicks : Nat, toggles : Nat]
    BY DEF TypeOK
  <1>2. ~PostCommand /\ ~Click
    BY <1>1 DEF PostCommand, Click
  <1>3. CASE Receive
    BY <1>3 DEF Receive, coreVars
  <1>4. CASE ClickSetsFlag
    BY <1>4 DEF ClickSetsFlag
  <1>5. CASE ToggleDebugMode
    BY <1>1, <1>5 DEF ToggleDebugMode, coreVars
  <1>6. CASE UNCHANGED vars
    BY <1>6 DEF vars, coreVars, guiVars
  <1> QED BY <1>2, <1>3, <1>4, <1>5, <1>6 DEF User

(* The core thread counts no inputs. *)
LEMMA CoreCountsNothing == TakeEvent \/ Process \/ OnIdle => UNCHANGED inputs
  <1> USE DEF guiVars
  <1>1. TakeEvent => UNCHANGED inputs
    BY DEF TakeEvent, TakeProcess, TakeResume, TakeEventScript, TakeNew, TakeNewAdd, TakeOpen,
           TakePreformat, TakePostformat, TakeAnalyze, TakeDc, TakeDcFile, TakeScript,
           TakeOther, Take
  <1>2. Process => UNCHANGED inputs
    BY DEF Process, ProcessBin, ProcessPost, ProcessDc, AtProcess
  <1>3. OnIdle => UNCHANGED inputs
    BY DEF OnIdle, IdleFinished, IdleAbort, IdlePause, IdleProceed, IdleNoAnalyzer, Announce,
           AtIdle
  <1> QED BY <1>1, <1>2, <1>3

LEMMA AloneAlways == Requests => (Spec => [](TypeOK /\ (Unattended => AloneInv)))
  <1> SUFFICES ASSUME Requests PROVE Spec => [](TypeOK /\ (Unattended => AloneInv))
    OBVIOUS
  <1> DEFINE Inv == Unattended => AloneInv
  <1>1. TypeOK /\ Inv /\ [Next]_vars => Inv'
    <2> SUFFICES ASSUME TypeOK, Inv, [Next]_vars, Unattended' PROVE AloneInv'
      OBVIOUS
    <2>1. CASE TakeEvent \/ Process \/ OnIdle
      <3>1. Unattended BY <2>1, CoreCountsNothing DEF Unattended
      <3> QED BY <2>1, <3>1, AloneTakeKeeps, AloneProcessKeeps, AloneIdleKeeps
    <2>2. CASE Receive \/ ClickSetsFlag \/ User \/ UNCHANGED vars
      <3>1. Unattended /\ UNCHANGED <<queue, mAnlz, mpScript, core, click>>
        BY <2>2, AloneElsewhere DEF AloneInv
      <3> QED BY <3>1 DEF AloneInv, Waits, Steps
    <2> QED BY <2>1, <2>2 DEF Next
  <1>2. Init => Inv BY AloneInit
  <1> QED BY <1>1, <1>2, TypeCorrect, PTL DEF Spec

(* In the batch mode nobody does: nothing is notified, and no button is enabled. *)
Silent == toGui = <<>> /\ buttons = "stopped" /\ Unattended

LEMMA BatchIsSilent == ~Interactive => (Spec => []Silent)
  <1> SUFFICES ASSUME ~Interactive PROVE Spec => []Silent
    OBVIOUS
  <1>1. Init => Silent BY DEF Init, Silent, Unattended
  <1>2. Silent /\ [Next]_vars => Silent'
    <2> SUFFICES ASSUME Silent, [Next]_vars PROVE Silent'
      OBVIOUS
    <2>1. toGui = <<>> /\ woken = <<>> /\ \A status : notified(status) = <<>>
      BY DEF Silent, woken, notified
    <2>2. CASE TakeEvent
      <3>1. UNCHANGED guiVars /\ toGui' = <<>>
        BY <2>1, <2>2 DEF TakeEvent, TakeProcess, TakeResume, TakeEventScript, TakeNew, TakeNewAdd,
             TakeOpen, TakePreformat, TakePostformat, TakeAnalyze, TakeDc, TakeDcFile, TakeScript,
             TakeOther, Take, Keep, ThenPost
      <3> QED BY <3>1 DEF Silent, Unattended, guiVars
    <2>3. CASE Process
      <3>1. UNCHANGED <<guiVars, toGui>>
        BY <2>3 DEF Process, ProcessBin, ProcessPost, ProcessDc, AtProcess
      <3> QED BY <3>1 DEF Silent, Unattended, guiVars
    <2>4. CASE OnIdle
      <3>1. UNCHANGED guiVars /\ toGui' = <<>>
        BY <2>1, <2>4 DEF OnIdle, IdleFinished, IdleAbort, IdlePause, IdleProceed, IdleNoAnalyzer,
             Announce, AtIdle, CheckScript, NothingLeft
      <3> QED BY <3>1 DEF Silent, Unattended, guiVars
    <2>5. CASE Receive \/ User
      <3>1. ~Receive /\ ~PostCommand /\ ~ToggleDebugMode
        BY <2>1 DEF Receive, PostCommand, ToggleDebugMode
      <3>2. \A flag \in StopFlag : ~Enables(flag)
        BY DEF Silent, Enables, StopFlag
      <3>3. ~Click BY <3>2 DEF Click
      <3> QED BY <2>5, <3>1, <3>3 DEF User
    <2>6. CASE ClickSetsFlag
      BY <2>6 DEF ClickSetsFlag, Silent, Unattended
    <2>7. CASE UNCHANGED vars
      BY <2>7 DEF vars, guiVars, Silent, Unattended
    <2> QED BY <2>2, <2>3, <2>4, <2>5, <2>6, <2>7 DEF Next
  <1> QED BY <1>1, <1>2, PTL DEF Spec

(***************************************************************************)
(* In the batch mode, whatever the scripts say: OnIdle asks for the next   *)
(* step only when the last one has been made.                              *)
(***************************************************************************)
THEOREM StepsAreSingle == Batch => (Spec => []OneStepAtATime)
  <1> SUFFICES ASSUME Batch PROVE Spec => []OneStepAtATime
    OBVIOUS
  <1>1. AloneInv => OneStepAtATime
    BY DEF AloneInv, Waits, Steps, OneStepAtATime
  <1>2. Silent => Unattended BY DEF Silent
  <1>3. /\ Spec => []Silent
        /\ Spec => [](TypeOK /\ (Unattended => AloneInv))
    BY BatchIsSilent, AloneAlways DEF Batch
  <1> QED BY <1>1, <1>2, <1>3, PTL

(***************************************************************************)
(* In the batch mode, whatever the scripts say: a line of a script is      *)
(* executed only when the analysis that came before has ended.             *)
(***************************************************************************)
THEOREM ScriptsWait == Batch => (Spec => []ScriptWaits)
  <1> SUFFICES ASSUME Batch PROVE Spec => []ScriptWaits
    OBVIOUS
  <1>1. TypeOK /\ AloneInv => ScriptWaits
    <2> SUFFICES ASSUME TypeOK, AloneInv, queue # <<>>,
                        Head(queue).id \in Ops \ {"preformat", "postformat"}
                 PROVE  mAnlz = <<>>
      BY DEF ScriptWaits
    <2>1. queue \in Seq(Event) /\ Waits(queue, mAnlz) /\ Head(queue).id \in Line
      BY DEF TypeOK, AloneInv, Line
    <2> QED BY <2>1, TailWaits
  <1>2. Silent => Unattended BY DEF Silent
  <1>3. /\ Spec => []Silent
        /\ Spec => [](TypeOK /\ (Unattended => AloneInv))
    BY BatchIsSilent, AloneAlways DEF Batch
  <1> QED BY <1>1, <1>2, <1>3, PTL

-----------------------------------------------------------------------------
(* The batch mode with scripts that neither run a script nor ask for       *)
(* formatting, which is what "new" asks for, and at most one script given. *)

FlatRequests ==
    /\ Requests
    /\ \A name \in DOMAIN Lines : \A i \in DOMAIN Lines[name] :
          Lines[name][i].id \in Line \ {"script"}
    /\ \A i \in DOMAIN Boot : Boot[i].id # "script"
    /\ \A i, j \in DOMAIN Boot :
          Boot[i].id = "EVENT_SCRIPT" /\ Boot[j].id = "EVENT_SCRIPT" => i = j

FlatBatch == ~Interactive /\ FlatRequests

Formats == {"preformat", "postformat"}
Runs == {"analyze", "dc", "dcfile"}

(* process() of the analyzer may be called: a PostAnalysis_t minds nothing. *)
Fit(a) == a.kind = "post" \/ a.left > 0

(* The queue, with the stack and an open script: a line that runs something *)
(* has at most a step beside it; a step is the first event and, if there is *)
(* an analyzer, the only one; formatting meets no decompiler.               *)
Safe(q, stack, open) ==
    /\ \A i \in DOMAIN q : q[i].id # "script"
    /\ \A i \in DOMAIN q : q[i].id = "EVENT_SCRIPT" =>
          ~open /\ \A j \in DOMAIN q : q[j].id = "EVENT_SCRIPT" => i = j
    /\ \A i \in DOMAIN q : q[i].id \in Runs =>
          \A j \in DOMAIN q : j # i => q[j].id = "EVENT_ANLZ_PROCESS"
    /\ \A i \in DOMAIN q : q[i].id = "EVENT_ANLZ_PROCESS" =>
          i = 1 /\ (stack = <<>> \/ (Len(q) = 1 /\ Fit(stack[Len(stack)])))
    /\ \A i \in DOMAIN q : q[i].id \in Formats =>
          \A k \in DOMAIN stack : Fit(stack[k]) /\ stack[k].kind # "dc"

SafeInv ==
    /\ AloneInv
    /\ Safe(queue, mAnlz, mpScript.open)
    /\ \A i \in 1 .. Len(mAnlz) - 1 : Fit(mAnlz[i])
    /\ core = "process" => queue = <<>> /\ Fit(analyzer)
    /\ \A i \in DOMAIN mpScript.lines : mpScript.lines[i].id \in Line \ {"script"}
    /\ failed = "no"

LEMMA Kinds ==
  /\ Ops \cap {"EVENT_SCRIPT", "EVENT_ANLZ_PROCESS", "EVENT_ANLZ_RESUME"} = {}
  /\ Line = {"new", "newadd", "open", "analyze", "dc", "dcfile", "script", "other"}
  /\ ProjectOps = Formats \cup Runs
  BY DEF Ops, Line, ProjectOps, Formats, Runs

(* The queue without its first event.                                      *)
LEMMA TailSafe ==
  ASSUME NEW q \in Seq(Event), q # <<>>, NEW stack, NEW open \in BOOLEAN, Safe(q, stack, open)
  PROVE  /\ Safe(Tail(q), stack, open)
         /\ \A i \in DOMAIN Tail(q) : Tail(q)[i].id # "EVENT_ANLZ_PROCESS"
         /\ Head(q).id # "EVENT_ANLZ_PROCESS" =>
               \A i \in DOMAIN Tail(q) : Tail(q)[i].id \notin Runs
         /\ Head(q).id \in Runs => Tail(q) = <<>>
         /\ Head(q).id = "EVENT_ANLZ_PROCESS" =>
               stack = <<>> \/ (Tail(q) = <<>> /\ Fit(stack[Len(stack)]))
         /\ Head(q).id = "EVENT_SCRIPT" =>
               ~open /\ \A i \in DOMAIN Tail(q) : Tail(q)[i].id # "EVENT_SCRIPT"
         /\ Head(q).id # "script"
         /\ Head(q).id \in Formats =>
               \A k \in DOMAIN stack : Fit(stack[k]) /\ stack[k].kind # "dc"
  <1> DEFINE t == Tail(q)
  <1>1. /\ Len(q) \in Nat \ {0} /\ DOMAIN q = 1 .. Len(q) /\ Head(q) = q[1]
        /\ t \in Seq(Event) /\ DOMAIN t = 1 .. Len(q) - 1
        /\ \A i \in 1 .. Len(q) - 1 : t[i] = q[i + 1]
        /\ Len(t) = Len(q) - 1
    BY EmptySeq, HeadTailProperties
  <1> HIDE DEF t
  <1>0. t = <<>> <=> Len(t) = 0 BY <1>1, EmptySeq, Zenon
  <1>2. \A i \in DOMAIN t : i + 1 \in DOMAIN q /\ t[i] = q[i + 1] /\ i + 1 # 1 /\ i \in Nat
    BY <1>1
  <1>3. 1 \in DOMAIN q BY <1>1
  <1>4. \A i \in DOMAIN t : t[i].id # "EVENT_ANLZ_PROCESS" BY <1>2 DEF Safe
  <1>5. \A i \in DOMAIN t : t[i].id # "script" BY <1>2 DEF Safe
  <1>6. \A i \in DOMAIN t : t[i].id = "EVENT_SCRIPT" =>
           ~open /\ \A j \in DOMAIN t : t[j].id = "EVENT_SCRIPT" => i = j
    <2> SUFFICES ASSUME NEW i \in DOMAIN t, t[i].id = "EVENT_SCRIPT"
                 PROVE  ~open /\ \A j \in DOMAIN t : t[j].id = "EVENT_SCRIPT" => i = j
      OBVIOUS
    <2>1. ~open BY <1>2 DEF Safe
    <2>2. \A j \in DOMAIN t : t[j].id = "EVENT_SCRIPT" => i + 1 = j + 1 BY <1>2 DEF Safe
    <2>3. \A j \in DOMAIN t : i + 1 = j + 1 => i = j BY <1>2
    <2> QED BY <2>1, <2>2, <2>3
  <1>7. ASSUME NEW i \in DOMAIN t, t[i].id \in Runs
        PROVE  /\ \A j \in DOMAIN q : j # i + 1 => q[j].id = "EVENT_ANLZ_PROCESS"
               /\ Head(q).id = "EVENT_ANLZ_PROCESS"
               /\ \A j \in DOMAIN t : j # i => t[j].id = "EVENT_ANLZ_PROCESS"
    <2>1. \A j \in DOMAIN q : j # i + 1 => q[j].id = "EVENT_ANLZ_PROCESS"
      BY <1>2, <1>7 DEF Safe
    <2>2. \A j \in DOMAIN t : j # i => j + 1 # i + 1 BY <1>2
    <2> QED BY <1>1, <1>2, <1>3, <2>1, <2>2
  <1>8. \A i \in DOMAIN t : t[i].id \in Formats =>
           \A k \in DOMAIN stack : Fit(stack[k]) /\ stack[k].kind # "dc"
    BY <1>2 DEF Safe
  <1>9. Safe(t, stack, open)
    BY <1>4, <1>5, <1>6, <1>7, <1>8 DEF Safe
  <1>10. Head(q).id \in Runs => t = <<>>
    <2> SUFFICES ASSUME Head(q).id \in Runs, t # <<>> PROVE FALSE
      OBVIOUS
    <2>1. 1 \in DOMAIN t BY <1>0, <1>1
    <2>2. t[1].id = "EVENT_ANLZ_PROCESS" BY <1>1, <1>2, <1>3, <2>1 DEF Safe
    <2> QED BY <1>4, <2>1, <2>2
  <1>11. Head(q).id = "EVENT_ANLZ_PROCESS" =>
            stack = <<>> \/ (t = <<>> /\ Fit(stack[Len(stack)]))
    BY <1>0, <1>1, <1>3 DEF Safe
  <1>12. Head(q).id = "EVENT_SCRIPT" => ~open /\ \A i \in DOMAIN t : t[i].id # "EVENT_SCRIPT"
    BY <1>1, <1>2, <1>3 DEF Safe
  <1>13. /\ Head(q).id # "script"
         /\ Head(q).id \in Formats =>
               \A k \in DOMAIN stack : Fit(stack[k]) /\ stack[k].kind # "dc"
    BY <1>1, <1>3 DEF Safe
  <1> QED BY <1>4, <1>7, <1>9, <1>10, <1>11, <1>12, <1>13 DEF t

(* A request for formatting is posted behind events that run nothing.      *)
LEMMA AppendSafe ==
  ASSUME NEW q \in Seq(Event), NEW stack, NEW open \in BOOLEAN, Safe(q, stack, open),
         \A i \in DOMAIN q : q[i].id \notin Runs \cup {"EVENT_ANLZ_PROCESS"},
         \A k \in DOMAIN stack : Fit(stack[k]) /\ stack[k].kind # "dc",
         NEW e \in Event, e.id \in Formats
  PROVE  Safe(Append(q, e), stack, open)
  <1> DEFINE t == Append(q, e)
             n == Len(q) + 1
  <1>1. /\ Len(q) \in Nat /\ DOMAIN q = 1 .. Len(q) /\ DOMAIN t = 1 .. n
        /\ \A i \in DOMAIN q : t[i] = q[i]
        /\ t[n] = e
    OBVIOUS
  <1> HIDE DEF t
  <1>2. \A i \in DOMAIN t : i \in DOMAIN q \/ i = n BY <1>1
  <1>3. e.id \notin Runs \cup {"EVENT_ANLZ_PROCESS", "EVENT_SCRIPT", "script"}
    BY DEF Formats, Runs
  <1>4. \A i \in DOMAIN t : t[i].id \notin Runs \cup {"EVENT_ANLZ_PROCESS"}
    BY <1>1, <1>2, <1>3
  <1>5. \A i \in DOMAIN t : t[i].id = "EVENT_SCRIPT" =>
           ~open /\ \A j \in DOMAIN t : t[j].id = "EVENT_SCRIPT" => i = j
    BY <1>1, <1>2, <1>3 DEF Safe
  <1>6. \A i \in DOMAIN t : t[i].id # "script"
    BY <1>1, <1>2, <1>3 DEF Safe
  <1> QED BY <1>4, <1>5, <1>6 DEF Safe, t

(* Any stack and script suit a queue without events that mind them.        *)
LEMMA SafeElsewhere ==
  ASSUME NEW q, NEW stack, NEW open, Safe(q, stack, open),
         \A i \in DOMAIN q : q[i].id # "EVENT_ANLZ_PROCESS",
         NEW stack2, NEW open2,
         open2 = open \/ \A i \in DOMAIN q : q[i].id # "EVENT_SCRIPT",
         \/ \A k \in DOMAIN stack2 : Fit(stack2[k]) /\ stack2[k].kind # "dc"
         \/ \A i \in DOMAIN q : q[i].id \notin Formats
  PROVE  Safe(q, stack2, open2)
  BY DEF Safe

(* What tasks for the binary analyzer do to a stack.                       *)
LEMMA WithTasksFit ==
  ASSUME NEW s \in Seq(Analyzer), NEW k \in Nat, \A i \in DOMAIN s : Fit(s[i])
  PROVE  /\ \A i \in DOMAIN withTasks(s, k) : Fit(withTasks(s, k)[i])
         /\ (\A i \in DOMAIN s : s[i].kind # "dc") =>
               \A i \in DOMAIN withTasks(s, k) : withTasks(s, k)[i].kind # "dc"
  <1> DEFINE w == withTasks(s, k)
  <1>1. CASE k = 0
    BY <1>1 DEF withTasks
  <1>2. CASE k # 0 /\ s # <<>> /\ s[Len(s)].kind = "bin"
    <2> DEFINE top == s[Len(s)]
               new == [top EXCEPT !.left = @ + k]
    <2>1. Len(s) \in Nat \ {0} /\ top \in Analyzer BY <1>2, LastOfSeq
    <2>2. w = [s EXCEPT ![Len(s)] = new] BY <1>2 DEF withTasks
    <2>3. s \in [1 .. Len(s) -> Analyzer] BY LenProperties
    <2>4. new.kind = "bin" /\ new.left > 0
      <3>1. top.left \in Nat /\ new.left = top.left + k /\ new.kind = top.kind
        BY <2>1, Bounds DEF Analyzer
      <3> QED BY <1>2, <3>1
    <2> HIDE DEF new, top
    <2>5. /\ DOMAIN w = DOMAIN s /\ w[Len(s)] = new
          /\ \A i \in DOMAIN s : i # Len(s) => w[i] = s[i]
      BY <2>1, <2>2, <2>3
    <2> HIDE DEF w
    <2>6. ASSUME NEW i \in DOMAIN w
          PROVE  Fit(w[i]) /\ (w[i].kind = "bin" \/ w[i].kind = s[i].kind)
      <3>1. CASE i = Len(s) BY <2>4, <2>5, <3>1 DEF Fit
      <3>2. CASE i # Len(s) BY <2>5, <3>2
      <3> QED BY <3>1, <3>2
    <2> QED BY <2>5, <2>6 DEF w
  <1>3. CASE k # 0 /\ ~(s # <<>> /\ s[Len(s)].kind = "bin")
    <2> DEFINE new == newAnalyzer("bin", k)
    <2>1. w = Append(s, new) BY <1>3 DEF withTasks
    <2>2. new.kind = "bin" /\ new.left > 0 BY <1>3 DEF newAnalyzer
    <2> HIDE DEF new
    <2>3. /\ Len(s) \in Nat /\ DOMAIN s = 1 .. Len(s)
          /\ DOMAIN w = 1 .. Len(s) + 1 /\ w[Len(s) + 1] = new
          /\ \A i \in 1 .. Len(s) : w[i] = s[i]
      BY <2>1
    <2> HIDE DEF w
    <2>4. \A i \in DOMAIN w : i \in DOMAIN s \/ i = Len(s) + 1 BY <2>3
    <2>5. ASSUME NEW i \in DOMAIN w
          PROVE  Fit(w[i]) /\ (w[i].kind = "bin" \/ (i \in DOMAIN s /\ w[i].kind = s[i].kind))
      BY <2>2, <2>3, <2>4 DEF Fit
    <2> QED BY <2>5 DEF w
  <1> QED BY <1>1, <1>2, <1>3

LEMMA SafeInit == FlatRequests /\ Init => SafeInv
  <1> SUFFICES ASSUME FlatRequests, Init PROVE SafeInv
    OBVIOUS
  <1>1. AloneInv BY AloneInit DEF FlatRequests
  <1>2. \A i \in DOMAIN Boot : Boot[i].id \notin Formats \cup Runs \cup {"EVENT_ANLZ_PROCESS"}
    BY DEF FlatRequests, Requests, Ops, ProjectOps, Formats, Runs
  <1>3. Safe(Boot, <<>>, FALSE) BY <1>2 DEF Safe, FlatRequests
  <1>4. /\ queue = Boot /\ mAnlz = <<>> /\ core = "loop" /\ failed = "no"
        /\ mpScript.open = FALSE /\ mpScript.lines = <<>>
    BY DEF Init, NoScript
  <1>5. \A i \in 1 .. Len(mAnlz) - 1 : FALSE BY <1>4
  <1>6. \A i \in DOMAIN mpScript.lines : FALSE BY <1>4
  <1> QED BY <1>1, <1>3, <1>4, <1>5, <1>6 DEF SafeInv

(* What every event taken from the queue finds and leaves.                 *)
LEMMA SafeTakes ==
  ASSUME FlatRequests, TypeOK, SafeInv, NEW id, Take(id)
  PROVE  /\ core = "loop" /\ id # "script" /\ id # "EVENT_ANLZ_RESUME" /\ failed = "no"
         /\ id \in Line => mAnlz = <<>>
         /\ id \in Runs => Tail(queue) = <<>>
         /\ id \in Formats => \A k \in DOMAIN mAnlz : Fit(mAnlz[k]) /\ mAnlz[k].kind # "dc"
         /\ id = "EVENT_SCRIPT" =>
               /\ ~mpScript.open
               /\ \A i \in DOMAIN Tail(queue) : Tail(queue)[i].id # "EVENT_SCRIPT"
         /\ id = "EVENT_ANLZ_PROCESS" =>
               mAnlz = <<>> \/ (Tail(queue) = <<>> /\ Fit(analyzer))
         /\ \A i \in DOMAIN Tail(queue) : Tail(queue)[i].id # "EVENT_ANLZ_PROCESS"
         /\ id # "EVENT_ANLZ_PROCESS" =>
               \A i \in DOMAIN Tail(queue) : Tail(queue)[i].id \notin Runs
         /\ Safe(Tail(queue), mAnlz, mpScript.open)
         /\ Tail(queue) \in Seq(Event)
  <1>1. queue \in Seq(Event) /\ queue # <<>> /\ Head(queue).id = id /\ mpScript.open \in BOOLEAN
    BY DEF TypeOK, Take
  <1>2. Safe(queue, mAnlz, mpScript.open) BY DEF SafeInv
  <1>3. core = "loop" /\ id # "EVENT_ANLZ_RESUME" /\ (id \in Line => mAnlz = <<>>)
    BY AloneTakes DEF SafeInv, FlatRequests
  <1>4. Tail(queue) \in Seq(Event) BY <1>1, TailOfSeq
  <1> QED BY <1>1, <1>2, <1>3, <1>4, TailSafe DEF analyzer, SafeInv

LEMMA SafeTakeKeeps == FlatRequests /\ TypeOK /\ SafeInv /\ TakeEvent => SafeInv'
  <1> SUFFICES ASSUME FlatRequests, TypeOK, SafeInv, TakeEvent PROVE SafeInv'
    OBVIOUS
  <1> DEFINE t == Tail(queue)
             FitBelow(stack) == \A i \in 1 .. Len(stack) - 1 : Fit(stack[i])
  <1>0. AloneInv' BY AloneTakeKeeps DEF FlatRequests, SafeInv
  <1>1. /\ event("preformat") \in Event /\ event("preformat").id \in Formats
        /\ event("postformat") \in Event /\ event("postformat").id \in Formats
    BY EventsAreEvents DEF event, Ops, Formats
  <1>2. FitBelow(<<>>) /\ DOMAIN <<>> = {} OBVIOUS
  <1>3. mAnlz \in Seq(Analyzer) /\ mpScript.open \in BOOLEAN /\ FitBelow(mAnlz)
    BY DEF TypeOK, SafeInv
  <1> HIDE DEF FitBelow
  <1>4. /\ \A i \in DOMAIN mpScript.lines : mpScript.lines[i].id \in Line \ {"script"}
        /\ failed = "no"
    BY DEF SafeInv
  <1>5. ASSUME Safe(queue', mAnlz', mpScript.open'), FitBelow(mAnlz'), core' = "loop", failed' = "no",
               \A i \in DOMAIN mpScript'.lines : mpScript'.lines[i].id \in Line \ {"script"}
        PROVE  SafeInv'
    BY <1>0, <1>5 DEF SafeInv, FitBelow
  <1>6. CASE TakeProcess
    <2>1. Take("EVENT_ANLZ_PROCESS") /\ Keep /\ UNCHANGED <<mAnlz, mpScript, failed>>
      BY <1>6 DEF TakeProcess
    <2>2. Safe(t, mAnlz, mpScript.open) /\ (mAnlz = <<>> \/ (t = <<>> /\ Fit(analyzer)))
      BY <2>1, SafeTakes
    <2>3. core' = "loop" \/ (core' = "process" /\ mAnlz # <<>>)
      BY <1>6 DEF TakeProcess, hasAnalyzer
    <2>4. queue' = t BY <2>1 DEF Keep
    <2>5. CASE core' = "loop" BY <1>3, <1>4, <1>5, <2>1, <2>2, <2>4, <2>5
    <2>6. CASE core' = "process" /\ mAnlz # <<>>
      BY <1>0, <1>3, <1>4, <2>1, <2>2, <2>4, <2>6 DEF SafeInv, FitBelow, analyzer
    <2> QED BY <2>3, <2>5, <2>6
  <1>7. CASE TakeResume
    <2>1. Take("EVENT_ANLZ_RESUME") BY <1>7 DEF TakeResume
    <2> QED BY <2>1, SafeTakes
  <1>8. CASE TakeEventScript
    <2>1. Take("EVENT_SCRIPT") /\ Keep /\ UNCHANGED <<mAnlz, core>>
      BY <1>8 DEF TakeEventScript
    <2>2. /\ core = "loop" /\ ~mpScript.open
          /\ Safe(t, mAnlz, mpScript.open)
          /\ \A i \in DOMAIN t : t[i].id # "EVENT_SCRIPT"
          /\ \A i \in DOMAIN t : t[i].id # "EVENT_ANLZ_PROCESS"
      BY <2>1, SafeTakes
    <2>3. mpScript' = [open |-> TRUE, lines |-> Lines[Head(queue).arg]] /\ failed' = "no"
      BY <1>4, <1>8, <2>2 DEF TakeEventScript
    <2>4. Head(queue).arg \in DOMAIN Lines
      <3>1. Head(queue) \in Event /\ Head(queue).id = "EVENT_SCRIPT" BY <2>1, Taken
      <3> QED BY <3>1 DEF Event
    <2>5. \A i \in DOMAIN mpScript'.lines : mpScript'.lines[i].id \in Line \ {"script"}
      BY <2>3, <2>4 DEF FlatRequests
    <2>6. Safe(t, mAnlz, TRUE) BY <2>2 DEF Safe
    <2>7. queue' = t /\ mAnlz' = mAnlz /\ core' = "loop" /\ mpScript'.open = TRUE
      BY <2>1, <2>2, <2>3 DEF Keep
    <2> QED BY <1>3, <1>5, <2>3, <2>5, <2>6, <2>7
  <1>9. CASE TakeNew \/ TakeNewAdd \/ TakeOpen
    <2>1. PICK id \in {"new", "newadd", "open"} :
             /\ Take(id) /\ (Keep \/ ThenPost(event("preformat")))
             /\ (mAnlz' = <<>> \/ mAnlz' = mAnlz) /\ UNCHANGED <<mpScript, core, failed>>
      BY <1>9 DEF TakeNew, TakeNewAdd, TakeOpen, CloseProjectThen
    <2>2. id \in Line /\ id # "EVENT_ANLZ_PROCESS" BY Kinds
    <2>3. /\ mAnlz = <<>> /\ core = "loop"
          /\ Safe(t, mAnlz, mpScript.open) /\ t \in Seq(Event)
          /\ \A i \in DOMAIN t : t[i].id \notin Runs \cup {"EVENT_ANLZ_PROCESS"}
      BY <2>1, <2>2, SafeTakes
    <2>4. mAnlz' = <<>> BY <2>1, <2>3
    <2>5. Safe(queue', <<>>, mpScript.open)
      <3>1. CASE Keep BY <2>3, <3>1 DEF Keep
      <3>2. CASE ThenPost(event("preformat"))
        <4>1. queue' = Append(t, event("preformat")) BY <3>2 DEF ThenPost
        <4>2. \A k \in DOMAIN mAnlz : Fit(mAnlz[k]) /\ mAnlz[k].kind # "dc"
          BY <1>2, <2>3
        <4>3. Safe(Append(t, event("preformat")), mAnlz, mpScript.open)
          BY <1>1, <1>3, <2>3, <4>2, AppendSafe
        <4> QED BY <2>3, <4>1, <4>3
      <3> QED BY <2>1, <3>1, <3>2
    <2> QED BY <1>2, <1>4, <1>5, <2>1, <2>3, <2>4, <2>5
  <1>10. CASE TakePreformat
    <2>1. /\ Take("preformat") /\ (Keep \/ ThenPost(event("postformat")))
          /\ UNCHANGED <<mpScript, core, failed>>
      BY <1>10 DEF TakePreformat
    <2>2. PICK k \in 0 .. work : mAnlz' = withTasks(mAnlz, k)
      BY <1>10 DEF TakePreformat
    <2>3. k \in Nat BY <2>2 DEF TypeOK
    <2>4. /\ core = "loop" /\ Safe(t, mAnlz, mpScript.open) /\ t \in Seq(Event)
          /\ \A i \in DOMAIN mAnlz : Fit(mAnlz[i]) /\ mAnlz[i].kind # "dc"
          /\ \A i \in DOMAIN t : t[i].id \notin Runs \cup {"EVENT_ANLZ_PROCESS"}
      BY <2>1, SafeTakes DEF Formats
    <2>5. \A i \in DOMAIN mAnlz' : Fit(mAnlz'[i]) /\ mAnlz'[i].kind # "dc"
      BY <1>3, <2>2, <2>3, <2>4, WithTasksFit
    <2>6. Safe(t, mAnlz', mpScript.open)
      BY <2>4, <2>5, SafeElsewhere
    <2>7. Safe(queue', mAnlz', mpScript.open)
      <3>1. CASE Keep BY <2>6, <3>1 DEF Keep
      <3>2. CASE ThenPost(event("postformat"))
        <4>1. queue' = Append(t, event("postformat")) BY <3>2 DEF ThenPost
        <4> QED BY <1>1, <1>3, <2>4, <2>5, <2>6, <4>1, AppendSafe
      <3> QED BY <2>1, <3>1, <3>2
    <2>8. FitBelow(mAnlz')
      <3>1. mAnlz' \in Seq(Analyzer) BY TakeKeeps DEF TypeOK
      <3>2. \A i \in 1 .. Len(mAnlz') - 1 : i \in DOMAIN mAnlz' BY <3>1
      <3> QED BY <2>5, <3>2 DEF FitBelow
    <2> QED BY <1>4, <1>5, <2>1, <2>4, <2>7, <2>8
  <1>11. CASE TakePostformat
    <2>1. Take("postformat") /\ Keep /\ UNCHANGED <<mpScript, core>>
      BY <1>11 DEF TakePostformat
    <2>2. /\ core = "loop" /\ Safe(t, mAnlz, mpScript.open) /\ queue' = t
          /\ \A i \in DOMAIN mAnlz : Fit(mAnlz[i]) /\ mAnlz[i].kind # "dc"
          /\ \A i \in DOMAIN t : t[i].id # "EVENT_ANLZ_PROCESS"
      BY <2>1, SafeTakes DEF Formats, Keep
    <2>3. ~decompilerOnTop
      BY <1>3, <2>2, LastOfSeq DEF decompilerOnTop, analyzer
    <2> DEFINE new == newAnalyzer("post", MaxTasks)
    <2>4. failed' = "no" /\ (mAnlz' = mAnlz \/ mAnlz' = Append(mAnlz, new))
      BY <1>4, <1>11, <2>3 DEF TakePostformat
    <2>5. Fit(new) /\ new.kind # "dc" BY DEF Fit, newAnalyzer
    <2> HIDE DEF new
    <2>6. \A i \in DOMAIN mAnlz' : Fit(mAnlz'[i]) /\ mAnlz'[i].kind # "dc"
      <3>1. CASE mAnlz' = mAnlz BY <2>2, <3>1
      <3>2. CASE mAnlz' = Append(mAnlz, new)
        <4>1. \A i \in DOMAIN Append(mAnlz, new) :
                 \/ i \in DOMAIN mAnlz /\ Append(mAnlz, new)[i] = mAnlz[i]
                 \/ Append(mAnlz, new)[i] = new
          BY <1>3
        <4> QED BY <2>2, <2>5, <3>2, <4>1
      <3> QED BY <2>4, <3>1, <3>2
    <2>7. Safe(t, mAnlz', mpScript.open) BY <2>2, <2>6, SafeElsewhere
    <2>8. FitBelow(mAnlz')
      <3>1. mAnlz' \in Seq(Analyzer) BY TakeKeeps DEF TypeOK
      <3>2. \A i \in 1 .. Len(mAnlz') - 1 : i \in DOMAIN mAnlz' BY <3>1
      <3> QED BY <2>6, <3>2 DEF FitBelow
    <2> QED BY <1>4, <1>5, <2>1, <2>2, <2>4, <2>7, <2>8
  <1>12. CASE TakeAnalyze
    <2>1. Take("analyze") /\ Keep /\ UNCHANGED <<mpScript, core, failed>>
      BY <1>12 DEF TakeAnalyze
    <2>2. PICK k \in 0 .. work : mAnlz' = withTasks(mAnlz, k)
      BY <1>12 DEF TakeAnalyze
    <2>3. k \in Nat BY <2>2 DEF TypeOK
    <2>4. mAnlz = <<>> /\ queue' = <<>> /\ core = "loop"
      BY <2>1, Kinds, SafeTakes DEF Runs, Keep
    <2>5. \A i \in DOMAIN mAnlz' : Fit(mAnlz'[i])
      BY <1>2, <1>3, <2>2, <2>3, <2>4, WithTasksFit
    <2>6. Safe(queue', mAnlz', mpScript.open) BY <1>2, <2>4 DEF Safe
    <2>7. FitBelow(mAnlz')
      <3>1. mAnlz' \in Seq(Analyzer) BY TakeKeeps DEF TypeOK
      <3>2. \A i \in 1 .. Len(mAnlz') - 1 : i \in DOMAIN mAnlz' BY <3>1
      <3> QED BY <2>5, <3>2 DEF FitBelow
    <2> QED BY <1>4, <1>5, <2>1, <2>4, <2>6, <2>7
  <1>13. CASE TakeDc
    <2>1. Take("dc") /\ UNCHANGED <<mpScript, core, failed>> BY <1>13 DEF TakeDc
    <2>2. mAnlz = <<>> /\ t = <<>> /\ core = "loop" BY <2>1, Kinds, SafeTakes DEF Runs
    <2>3. Keep /\ mAnlz' \in {mAnlz, <<newAnalyzer("dc", MaxTasks)>>}
      BY <1>13, <2>2 DEF TakeDc
    <2>4. queue' = <<>> BY <2>2, <2>3 DEF Keep
    <2>5. Safe(queue', mAnlz', mpScript.open) BY <1>2, <2>4 DEF Safe
    <2>6. FitBelow(mAnlz')
      <3>1. \A a : Len(<<a>>) = 1 OBVIOUS
      <3>2. \A a : \A i \in 1 .. Len(<<a>>) - 1 : FALSE BY <3>1
      <3>3. \A a : FitBelow(<<a>>) BY <3>2 DEF FitBelow
      <3> QED BY <1>3, <2>3, <3>3
    <2> QED BY <1>4, <1>5, <2>1, <2>2, <2>5, <2>6
  <1>14. CASE TakeDcFile
    <2>1. Take("dcfile") /\ Keep /\ UNCHANGED <<mAnlz, core, failed>>
      BY <1>14 DEF TakeDcFile
    <2>2. queue' = <<>> /\ core = "loop" BY <2>1, SafeTakes DEF Runs, Keep
    <2>3. Safe(queue', mAnlz', mpScript'.open) BY <1>2, <2>2 DEF Safe
    <2>4. \A i \in DOMAIN mpScript'.lines : mpScript'.lines[i].id \in Line \ {"script"}
      BY <1>4, <1>14, Kinds, DcLines
    <2> QED BY <1>3, <1>4, <1>5, <2>1, <2>2, <2>3, <2>4
  <1>15. CASE TakeScript
    <2>1. Take("script") BY <1>15 DEF TakeScript
    <2> QED BY <2>1, SafeTakes
  <1>16. CASE TakeOther
    <2>1. PICK id : Take(id) /\ Keep /\ UNCHANGED <<mpScript, mAnlz, core, failed>>
      BY <1>16 DEF TakeOther
    <2>2. Safe(queue', mAnlz, mpScript.open) /\ core = "loop"
      BY <2>1, SafeTakes DEF Keep
    <2> QED BY <1>3, <1>4, <1>5, <2>1, <2>2
  <1> QED
    BY <1>6, <1>7, <1>8, <1>9, <1>10, <1>11, <1>12, <1>13, <1>14, <1>15, <1>16 DEF TakeEvent

(* The end of an analysis: the next line, behind at most a step.           *)
LEMMA PostedSafe ==
  ASSUME NEW posted \in {<<>>, <<event("EVENT_ANLZ_PROCESS")>>}, NEW open
  PROVE  /\ Safe(posted, <<>>, open)
         /\ \A e \in Event : e.id \in Line \ {"script"} => Safe(Append(posted, e), <<>>, open)
  <1> DEFINE p == event("EVENT_ANLZ_PROCESS")
  <1>1. p.id = "EVENT_ANLZ_PROCESS" /\ p \in Event BY EventsAreEvents DEF event
  <1> HIDE DEF p
  <1>2. "EVENT_ANLZ_PROCESS" \notin Runs \cup Formats \cup {"script", "EVENT_SCRIPT"}
    BY DEF Formats, Runs
  <1>3. \A k \in DOMAIN <<>> : FALSE OBVIOUS
  <1>4. ASSUME NEW e \in Event, e.id \in Line \ {"script"}
        PROVE  e.id \notin {"script", "EVENT_SCRIPT", "EVENT_ANLZ_PROCESS"} \cup Formats
    BY <1>4, Kinds DEF Formats
  <1>5. CASE posted = <<>>
    <2>1. Safe(<<>>, <<>>, open) BY <1>3 DEF Safe
    <2>2. ASSUME NEW e \in Event, e.id \in Line \ {"script"} PROVE Safe(<<e>>, <<>>, open)
      <3>1. \A i \in DOMAIN <<e>> : i = 1 /\ <<e>>[i] = e OBVIOUS
      <3> QED BY <1>4, <2>2, <3>1 DEF Safe
    <2>3. \A e \in Event : Append(<<>>, e) = <<e>> OBVIOUS
    <2> QED BY <1>5, <2>1, <2>2, <2>3
  <1>6. CASE posted = <<p>>
    <2>1. Safe(<<p>>, <<>>, open)
      <3>1. \A i \in DOMAIN <<p>> : i = 1 /\ <<p>>[i] = p OBVIOUS
      <3> QED BY <1>1, <1>2, <3>1 DEF Safe
    <2>2. ASSUME NEW e \in Event, e.id \in Line \ {"script"}
          PROVE  Safe(Append(<<p>>, e), <<>>, open)
      <3> DEFINE t == Append(<<p>>, e)
      <3>1. DOMAIN t = 1 .. 2 /\ t[1] = p /\ t[2] = e BY <1>1, TwoElements
      <3>2. \A i \in DOMAIN t : (i = 1 /\ t[i] = p) \/ (i = 2 /\ t[i] = e) BY <3>1
      <3> HIDE DEF t
      <3>3. Safe(t, <<>>, open) BY <1>1, <1>2, <1>4, <2>2, <3>2 DEF Safe
      <3> QED BY <3>3 DEF t
    <2> QED BY <1>6, <2>1, <2>2
  <1> QED BY <1>5, <1>6 DEF p

LEMMA SafeScript ==
  ASSUME FlatRequests, TypeOK, SafeInv, AloneInv', AtIdle, mAnlz' = <<>>,
         NEW script \in {mpScript, NoScript},
         NEW posted \in {<<>>, <<event("EVENT_ANLZ_PROCESS")>>}, CheckScript(script, posted)
  PROVE  SafeInv'
  <1>1. failed' = "no" BY DEF AtIdle, SafeInv
  <1>2. \A i \in 1 .. Len(mAnlz') - 1 : FALSE OBVIOUS
  <1>3. /\ script.lines \in Seq(Event)
        /\ \A i \in DOMAIN script.lines : script.lines[i].id \in Line \ {"script"}
    <2>1. CASE script = mpScript
      BY <2>1 DEF SafeInv, TypeOK
    <2>2. CASE script = NoScript
      <3>1. <<>> \in Seq(Event) /\ DOMAIN <<>> = {} OBVIOUS
      <3> QED BY <2>2, <3>1 DEF NoScript
    <2> QED BY <2>1, <2>2
  <1>4. CASE script.open /\ script.lines # <<>>
    <2> DEFINE lines == script.lines
    <2>1. /\ queue' = Append(posted, Head(lines))
          /\ mpScript' = [script EXCEPT !.lines = Tail(@)] /\ core' = "announce"
      BY <1>4 DEF CheckScript
    <2>2. script \in [open : BOOLEAN, lines : Seq(Event)]
      <3>1. script # NoScript BY <1>4 DEF NoScript
      <3> QED BY <3>1 DEF TypeOK
    <2>3. mpScript'.lines = Tail(lines) BY <2>1, <2>2
    <2>4. /\ Len(lines) \in Nat \ {0} /\ Head(lines) = lines[1] /\ Head(lines) \in Event
          /\ DOMAIN Tail(lines) = 1 .. Len(lines) - 1
          /\ \A i \in 1 .. Len(lines) - 1 : Tail(lines)[i] = lines[i + 1]
          /\ DOMAIN lines = 1 .. Len(lines)
      BY <1>3, <1>4, EmptySeq, HeadTailProperties
    <2>5. /\ Head(lines).id \in Line \ {"script"}
          /\ \A i \in DOMAIN Tail(lines) : Tail(lines)[i].id \in Line \ {"script"}
      BY <1>3, <2>4
    <2>6. Safe(queue', <<>>, mpScript'.open) BY <2>1, <2>4, <2>5, PostedSafe
    <2> QED BY <1>1, <1>2, <2>1, <2>3, <2>5, <2>6 DEF SafeInv
  <1>5. CASE ~(script.open /\ script.lines # <<>>)
    <2>1. queue' = posted /\ mpScript' = NoScript /\ NothingLeft
      BY <1>5 DEF CheckScript
    <2>2. core' \in {"loop", "exited"} BY <2>1 DEF NothingLeft, Return
    <2>3. Safe(queue', <<>>, mpScript'.open) BY <2>1, PostedSafe
    <2>4. \A i \in DOMAIN mpScript'.lines : FALSE BY <2>1 DEF NoScript
    <2> QED BY <1>1, <1>2, <2>2, <2>3, <2>4 DEF SafeInv
  <1> QED BY <1>4, <1>5

LEMMA SafeIdleKeeps == FlatRequests /\ TypeOK /\ SafeInv /\ OnIdle => SafeInv'
  <1> SUFFICES ASSUME FlatRequests, TypeOK, SafeInv, OnIdle PROVE SafeInv'
    OBVIOUS
  <1> DEFINE p == event("EVENT_ANLZ_PROCESS")
             FitBelow(stack) == \A i \in 1 .. Len(stack) - 1 : Fit(stack[i])
  <1>0. AloneInv' BY AloneIdleKeeps DEF FlatRequests, SafeInv
  <1>1. /\ \A i \in DOMAIN mpScript.lines : mpScript.lines[i].id \in Line \ {"script"}
        /\ failed = "no" /\ FitBelow(mAnlz) /\ mAnlz \in Seq(Analyzer)
    BY DEF SafeInv, TypeOK
  <1>2. ASSUME NEW stack, NEW open, Fit(stack[Len(stack)]) PROVE Safe(<<p>>, stack, open)
    <2>1. p.id = "EVENT_ANLZ_PROCESS" BY DEF event
    <2> HIDE DEF p
    <2>2. \A i \in DOMAIN <<p>> : i = 1 /\ <<p>>[i] = p OBVIOUS
    <2>3. Len(<<p>>) = 1 OBVIOUS
    <2> QED BY <1>2, <2>1, <2>2, <2>3 DEF Safe, Runs, Formats
  <1> HIDE DEF p, FitBelow
  <1>3. ASSUME AtIdle, queue' = <<p>>, core' = "announce", UNCHANGED mpScript,
               FitBelow(mAnlz'), Fit(mAnlz'[Len(mAnlz')])
        PROVE  SafeInv'
    <2>1. Safe(queue', mAnlz', mpScript'.open) BY <1>2, <1>3
    <2> QED BY <1>0, <1>1, <1>3, <2>1 DEF SafeInv, AtIdle, FitBelow
  <1>4. CASE IdleFinished
    <2>1. CASE popAnalizer # <<>>
      <3> DEFINE below == SubSeq(mAnlz, 1, Len(mAnlz) - 1)
      <3>1. /\ AtIdle /\ mAnlz' = below /\ mAnlz # <<>> /\ below # <<>>
            /\ queue' = <<p>> /\ core' = "announce" /\ UNCHANGED mpScript
        BY <1>4, <2>1 DEF IdleFinished, hasAnalyzer, popAnalizer, p
      <3>2. Len(mAnlz) \in Nat \ {0} BY <1>1, <3>1, LastOfSeq
      <3>3. /\ below \in Seq(Analyzer) /\ Len(below) = Len(mAnlz) - 1
            /\ \A i \in 1 .. Len(mAnlz) - 1 : below[i] = mAnlz[i]
        <4> DEFINE n == Len(mAnlz) - 1
        <4>0. n \in Nat /\ \A i \in 1 .. n : mAnlz[i] \in Analyzer
          BY <1>1, <3>2
        <4> HIDE DEF n
        <4>1. n \in Int /\ 1 \in Int /\ (IF 1 =< n THEN n - 1 + 1 ELSE 0) = n /\ n - 1 + 1 = n
              /\ \A i \in 1 .. n : 1 + i - 1 = i
          BY <4>0
        <4>2. /\ SubSeq(mAnlz, 1, n) \in Seq(Analyzer) /\ Len(SubSeq(mAnlz, 1, n)) = n
              /\ \A i \in 1 .. n : SubSeq(mAnlz, 1, n)[i] = mAnlz[1 + i - 1]
          BY <4>0, <4>1, SubSeqProperties
        <4> QED BY <4>1, <4>2 DEF n
      <3> HIDE DEF below
      <3>4. Len(below) \in Nat \ {0} BY <3>1, <3>3, LastOfSeq
      <3>5. \A i \in 1 .. Len(below) : Fit(below[i]) BY <1>1, <3>3 DEF FitBelow
      <3>6. FitBelow(below) /\ Fit(below[Len(below)]) BY <3>4, <3>5 DEF FitBelow
      <3> QED BY <1>3, <3>1, <3>6
    <2>2. CASE popAnalizer = <<>>
      BY <1>0, <1>4, <2>2, SafeScript DEF IdleFinished
    <2> QED BY <2>1, <2>2
  <1>5. CASE IdleAbort
    BY <1>0, <1>5, SafeScript DEF IdleAbort
  <1>6. CASE IdlePause
    <2>1. /\ queue = <<>> /\ failed' = failed /\ core' = "announce"
          /\ UNCHANGED <<mAnlz, mpScript, queue>>
      BY <1>6 DEF IdlePause, AtIdle
    <2> QED BY <1>0, <2>1 DEF SafeInv
  <1>7. CASE IdleProceed
    <2>1. /\ AtIdle /\ mAnlz # <<>> /\ ~finished /\ queue' = <<p>> /\ core' = "announce"
          /\ UNCHANGED <<mAnlz, mpScript>>
      BY <1>7 DEF IdleProceed, hasAnalyzer, p
    <2>2. Fit(mAnlz[Len(mAnlz)])
      <3>1. mAnlz[Len(mAnlz)] \in Analyzer BY <1>1, <2>1, LastOfSeq
      <3>2. mAnlz[Len(mAnlz)].left \in Nat BY <3>1, Bounds DEF Analyzer
      <3> QED BY <2>1, <3>2 DEF Fit, finished, analyzer
    <2> QED BY <1>1, <1>3, <2>1, <2>2
  <1>8. CASE IdleNoAnalyzer
    <2>1. mAnlz' = <<>> BY <1>8 DEF IdleNoAnalyzer, hasAnalyzer, TypeOK
    <2> QED BY <1>0, <1>8, <2>1, SafeScript DEF IdleNoAnalyzer
  <1>9. CASE Announce
    BY <1>0, <1>9 DEF Announce, Return, SafeInv
  <1> QED BY <1>4, <1>5, <1>6, <1>7, <1>8, <1>9 DEF OnIdle

(* A step may leave its analyzer without a task, but never one beneath.    *)
LEMMA SafeProcessKeeps == FlatRequests /\ TypeOK /\ SafeInv /\ Process => SafeInv'
  <1> SUFFICES ASSUME FlatRequests, TypeOK, SafeInv, Process PROVE SafeInv'
    OBVIOUS
  <1> DEFINE FitBelow(stack) == \A i \in 1 .. Len(stack) - 1 : Fit(stack[i])
  <1>0. /\ AloneInv' /\ TypeOK'
    BY AloneProcessKeeps, ProcessKeeps DEF SafeInv
  <1>1. /\ core = "process" /\ queue = <<>> /\ Fit(analyzer) /\ core' = "loop"
        /\ UNCHANGED <<queue, mpScript>>
    BY DEF Process, ProcessBin, ProcessPost, ProcessDc, AtProcess, SafeInv
  <1>2. /\ mAnlz \in Seq(Analyzer) /\ mAnlz # <<>> /\ FitBelow(mAnlz)
        /\ Len(mAnlz) \in Nat \ {0} /\ mAnlz' \in Seq(Analyzer)
    BY <1>0, <1>1, LastOfSeq DEF TypeOK, SafeInv
  <1> HIDE DEF FitBelow
  <1>3. ASSUME NEW a
        PROVE  /\ Len(withTop(a)) = Len(mAnlz) /\ withTop(a)[Len(mAnlz)] = a
               /\ \A i \in 1 .. Len(mAnlz) - 1 : withTop(a)[i] = mAnlz[i]
    <2>1. mAnlz \in [1 .. Len(mAnlz) -> Analyzer] BY <1>2, LenProperties
    <2> DEFINE w == withTop(a)
               n == Len(mAnlz)
    <2>2. /\ w \in [1 .. n -> Analyzer \cup {a}] /\ w[n] = a
          /\ \A i \in 1 .. n - 1 : w[i] = mAnlz[i]
      <3>1. n \in 1 .. n /\ \A i \in 1 .. n - 1 : i \in 1 .. n /\ i # n BY <1>2
      <3>2. w = [mAnlz EXCEPT ![n] = a] BY DEF withTop
      <3> HIDE DEF n, w
      <3> QED BY <2>1, <3>1, <3>2 DEF n
    <2> HIDE DEF w
    <2>3. Len(w) = n BY <1>2, <2>2
    <2> QED BY <2>2, <2>3 DEF w
  <1>4. \A a : FitBelow(withTop(a)) BY <1>2, <1>3 DEF FitBelow
  <1>5. ASSUME FitBelow(mAnlz'), failed' = "no" PROVE SafeInv'
    <2>1. Safe(queue', mAnlz', mpScript'.open) BY <1>1 DEF Safe
    <2> QED BY <1>0, <1>1, <1>5, <2>1 DEF SafeInv, FitBelow
  <1>6. failed = "no" BY DEF SafeInv
  <1>7. CASE ProcessBin
    <2>1. analyzer.left # 0
      <3>1. analyzer.kind = "bin" BY <1>7 DEF ProcessBin, AtProcess
      <3>2. analyzer.left > 0 BY <1>1, <3>1 DEF Fit
      <3> QED BY <3>2
    <2>2. failed' = "no" /\ \E a : mAnlz' = withTop(a)
      BY <1>6, <1>7, <2>1 DEF ProcessBin
    <2> QED BY <1>4, <1>5, <2>2
  <1>8. CASE ProcessDc
    <2>1. analyzer.left # 0
      <3>1. analyzer.kind = "dc" BY <1>8 DEF ProcessDc, AtProcess
      <3>2. analyzer.left > 0 BY <1>1, <3>1 DEF Fit
      <3> QED BY <3>2
    <2>2. failed' = "no" /\ \E a : mAnlz' = withTop(a)
      BY <1>6, <1>8, <2>1 DEF ProcessDc
    <2> QED BY <1>4, <1>5, <2>2
  <1>9. CASE ProcessPost
    <2>1. failed' = "no" BY <1>6, <1>9 DEF ProcessPost
    <2>2. CASE UNCHANGED mAnlz
      BY <1>2, <1>5, <2>1, <2>2
    <2>3. CASE ~UNCHANGED mAnlz
      <3>1. PICK k \in 0 .. work, done \in BOOLEAN :
               mAnlz' = withTasks(withTop([analyzer EXCEPT !.left = IF done THEN @ - 1 ELSE @]), k)
        BY <1>9, <2>3 DEF ProcessPost
      <3> DEFINE new == [analyzer EXCEPT !.left = IF done THEN @ - 1 ELSE @]
                 s == withTop(new)
      <3>2. analyzer \in Analyzer /\ analyzer.kind = "post"
        BY <1>2, <1>9, TopAnalyzer DEF ProcessPost, AtProcess
      <3>3. new.kind = "post" BY <3>2 DEF Analyzer
      <3> HIDE DEF new
      <3>4. Fit(new) BY <3>3 DEF Fit
      <3>5. /\ Len(s) = Len(mAnlz) /\ s[Len(mAnlz)] = new /\ FitBelow(s)
        BY <1>3, <1>4
      <3>6. k = 0 => mAnlz' = s BY <3>1 DEF withTasks, new
      <3>7. k # 0 => mAnlz' = Append(s, newAnalyzer("bin", k))
        BY <3>1, <3>3, <3>5 DEF withTasks, new
      <3>8. CASE k = 0
        BY <1>5, <2>1, <3>5, <3>6, <3>8
      <3>9. CASE k # 0
        <4>1. DOMAIN s = 1 .. Len(mAnlz)
          <5>1. mAnlz \in [1 .. Len(mAnlz) -> Analyzer] BY <1>2, LenProperties
          <5> QED BY <5>1 DEF withTop
        <4>2. /\ Len(mAnlz') = Len(mAnlz) + 1
              /\ \A i \in 1 .. Len(mAnlz) : mAnlz'[i] = s[i]
          BY <1>2, <3>5, <3>7, <3>9, <4>1
        <4>3. \A i \in 1 .. Len(mAnlz) : Fit(s[i])
          <5>1. \A i \in 1 .. Len(mAnlz) : i \in 1 .. Len(mAnlz) - 1 \/ i = Len(mAnlz) BY <1>2
          <5> QED BY <3>4, <3>5, <5>1 DEF FitBelow
        <4>4. FitBelow(mAnlz') BY <1>2, <4>2, <4>3 DEF FitBelow
        <4> QED BY <1>5, <2>1, <4>4
      <3> QED BY <3>8, <3>9
    <2> QED BY <2>2, <2>3
  <1> QED BY <1>7, <1>8, <1>9 DEF Process

LEMMA SafeAlways == FlatRequests => (Spec => [](TypeOK /\ (Unattended => SafeInv)))
  <1> SUFFICES ASSUME FlatRequests PROVE Spec => [](TypeOK /\ (Unattended => SafeInv))
    OBVIOUS
  <1> DEFINE Inv == Unattended => SafeInv
  <1>1. TypeOK /\ Inv /\ [Next]_vars => Inv'
    <2> SUFFICES ASSUME TypeOK, Inv, [Next]_vars, Unattended' PROVE SafeInv'
      OBVIOUS
    <2>1. CASE TakeEvent \/ Process \/ OnIdle
      <3>1. Unattended BY <2>1, CoreCountsNothing DEF Unattended
      <3> QED BY <2>1, <3>1, SafeTakeKeeps, SafeProcessKeeps, SafeIdleKeeps
    <2>2. CASE Receive \/ ClickSetsFlag \/ User \/ UNCHANGED vars
      <3>1. Unattended /\ UNCHANGED <<queue, mAnlz, mpScript, core, click, failed>>
        BY <2>2, AloneElsewhere DEF SafeInv, AloneInv
      <3> QED BY <3>1 DEF SafeInv, AloneInv, Waits, Steps, Safe, analyzer
    <2> QED BY <2>1, <2>2 DEF Next
  <1>2. Init => Inv BY SafeInit
  <1> QED BY <1>1, <1>2, TypeCorrect, PTL DEF Spec

(***************************************************************************)
(* In the batch mode, with any script whose lines neither run a script nor *)
(* ask for formatting and any command line that names at most one script:  *)
(* no assert of the core thread fails.  A step finds a task, a script no   *)
(* other in progress, a resumed analysis its project, and formatting no    *)
(* decompiler on top.                                                      *)
(***************************************************************************)
THEOREM NoAssertFails == FlatBatch => (Spec => []AllAsserts)
  <1> SUFFICES ASSUME FlatBatch PROVE Spec => []AllAsserts
    OBVIOUS
  <1>1. SafeInv => AllAsserts BY DEF SafeInv, AllAsserts
  <1>2. Silent => Unattended BY DEF Silent
  <1>3. /\ Spec => []Silent
        /\ Spec => [](TypeOK /\ (Unattended => SafeInv))
    BY BatchIsSilent, SafeAlways DEF FlatBatch
  <1> QED BY <1>1, <1>2, <1>3, PTL

-----------------------------------------------------------------------------
(* With a user, who types commands and clicks: what each kind of           *)
(* interference leaves intact.                                             *)

Typing == \A c \in UserCommands : c.id \in Ops

Closers == {"new", "newadd", "open"}

LEMMA InputsAreNumbers ==
  ASSUME TypeOK
  PROVE  /\ inputs \in [commands : Nat, clicks : Nat, toggles : Nat]
         /\ inputs.commands \in Nat /\ inputs.clicks \in Nat /\ inputs.toggles \in Nat
  BY DEF TypeOK

(* Without a click no flag is on its way to an analyzer.                   *)
Unclicked == inputs.clicks = 0 => click = "no" /\ failed # "analyzer"

LEMMA CoreClicksNot == TakeEvent \/ Process \/ OnIdle =>
         UNCHANGED click /\ failed' # "analyzer"
  <1> USE DEF guiVars, Running
  <1>1. TakeEvent => UNCHANGED click /\ failed' # "analyzer"
    BY DEF TakeEvent, TakeProcess, TakeResume, TakeEventScript, TakeNew, TakeNewAdd, TakeOpen,
           TakePreformat, TakePostformat, TakeAnalyze, TakeDc, TakeDcFile, TakeScript,
           TakeOther, Take
  <1>2. Process => UNCHANGED click /\ failed' # "analyzer"
    BY DEF Process, ProcessBin, ProcessPost, ProcessDc, AtProcess
  <1>3. OnIdle => UNCHANGED click /\ failed' # "analyzer"
    BY DEF OnIdle, IdleFinished, IdleAbort, IdlePause, IdleProceed, IdleNoAnalyzer, Announce,
           AtIdle
  <1> QED BY <1>1, <1>2, <1>3

LEMMA UnclickedAlways == Spec => []Unclicked
  <1>1. Init => Unclicked BY DEF Init, Unclicked
  <1>2. TypeOK /\ Unclicked /\ [Next]_vars => Unclicked'
    <2> SUFFICES ASSUME TypeOK, Unclicked, [Next]_vars, inputs'.clicks = 0
                 PROVE  click' = "no" /\ failed' # "analyzer"
      BY DEF Unclicked
    <2>1. CASE TakeEvent \/ Process \/ OnIdle
      BY <2>1, CoreClicksNot, CoreCountsNothing DEF Unclicked
    <2>2. CASE Receive
      BY <2>2 DEF Receive, Unclicked
    <2>3. CASE ClickSetsFlag
      BY <2>3 DEF ClickSetsFlag, Unclicked
    <2>4. CASE PostCommand \/ ToggleDebugMode
      <3>1. inputs.clicks = 0
        BY <2>4, InputsAreNumbers DEF PostCommand, ToggleDebugMode
      <3> QED BY <2>4, <3>1 DEF PostCommand, ToggleDebugMode, Unclicked
    <2>5. CASE Click
      BY <2>5, InputsAreNumbers DEF Click
    <2>6. CASE UNCHANGED vars
      BY <2>6 DEF vars, guiVars, Unclicked
    <2> QED BY <2>1, <2>2, <2>3, <2>4, <2>5, <2>6 DEF Next, User
  <1> QED BY <1>1, <1>2, TypeCorrect, PTL DEF Spec

-----------------------------------------------------------------------------
(* Without a click and with at most one command typed: a resumption finds  *)
(* its project, because nothing before it in the queue closes it; and a    *)
(* decompilation asked for finds no analysis that it would resume, or it   *)
(* was typed, and nothing behind it closes the project.                    *)
Resumable(q, stack, project, typed) ==
    /\ \A i \in DOMAIN q : q[i].id = "EVENT_ANLZ_RESUME" =>
          project /\ \A j \in DOMAIN q : j < i => q[j].id \notin Closers
    /\ \A i \in DOMAIN q : q[i].id = "dc" =>
          \/ stack = <<>> /\ \A j \in DOMAIN q : j < i => q[j].id \notin ProjectOps
          \/ typed /\ \A j \in DOMAIN q : j > i => q[j].id \notin Closers

OrderlyInv ==
    /\ failed # "project"
    /\ \A i \in DOMAIN mpScript.lines : mpScript.lines[i].id \in Ops
    /\ Resumable(queue, mAnlz, mpProject, inputs.commands > 0)

LEMMA TailResumable ==
  ASSUME NEW q \in Seq(Event), q # <<>>, NEW stack, NEW project \in BOOLEAN,
         NEW typed \in BOOLEAN, Resumable(q, stack, project, typed)
  PROVE  /\ Resumable(Tail(q), stack, project, typed)
         /\ Head(q).id \in ProjectOps => \A other : Resumable(Tail(q), other, project, typed)
         /\ Head(q).id = "EVENT_ANLZ_RESUME" => project = TRUE
         /\ Head(q).id \in Closers => \A other : Resumable(Tail(q), stack, other, typed)
         /\ Head(q).id = "dc" /\ stack # <<>> =>
               \A i \in DOMAIN Tail(q) : Tail(q)[i].id \notin Closers
  <1> DEFINE t == Tail(q)
  <1>1. /\ Len(q) \in Nat \ {0} /\ DOMAIN q = 1 .. Len(q) /\ Head(q) = q[1]
        /\ DOMAIN t = 1 .. Len(q) - 1
        /\ \A i \in 1 .. Len(q) - 1 : t[i] = q[i + 1]
    BY EmptySeq, HeadTailProperties
  <1> HIDE DEF t
  <1>2. \A i \in DOMAIN t : i + 1 \in DOMAIN q /\ t[i] = q[i + 1] /\ i \in Nat /\ 1 < i + 1
    BY <1>1
  <1>3. 1 \in DOMAIN q /\ \A i \in DOMAIN t, j \in DOMAIN t : /\ j < i => j + 1 < i + 1
                                                             /\ j > i => j + 1 > i + 1
    BY <1>1, <1>2
  <1>4. ASSUME NEW i \in DOMAIN t, t[i].id = "EVENT_ANLZ_RESUME"
        PROVE  /\ project = TRUE /\ Head(q).id \notin Closers
               /\ \A j \in DOMAIN t : j < i => t[j].id \notin Closers
    <2>1. i + 1 \in DOMAIN q /\ q[i + 1].id = "EVENT_ANLZ_RESUME" BY <1>2, <1>4
    <2>2. project = TRUE /\ \A j \in DOMAIN q : j < i + 1 => q[j].id \notin Closers
      BY <2>1 DEF Resumable
    <2> QED BY <1>1, <1>2, <1>3, <2>2
  <1>5. ASSUME NEW i \in DOMAIN t, t[i].id = "dc"
        PROVE  \/ /\ stack = <<>> /\ Head(q).id \notin ProjectOps
                  /\ \A j \in DOMAIN t : j < i => t[j].id \notin ProjectOps
               \/ typed = TRUE /\ \A j \in DOMAIN t : j > i => t[j].id \notin Closers
    <2>1. i + 1 \in DOMAIN q /\ q[i + 1].id = "dc" BY <1>2, <1>5
    <2>2. \/ stack = <<>> /\ \A j \in DOMAIN q : j < i + 1 => q[j].id \notin ProjectOps
          \/ typed = TRUE /\ \A j \in DOMAIN q : j > i + 1 => q[j].id \notin Closers
      BY <2>1 DEF Resumable
    <2> QED BY <1>1, <1>2, <1>3, <2>2
  <1>6. Resumable(t, stack, project, typed) BY <1>4, <1>5 DEF Resumable
  <1>7. Head(q).id \in ProjectOps => \A other : Resumable(t, other, project, typed)
    BY <1>4, <1>5 DEF Resumable
  <1>8. Head(q).id \in Closers => \A other : Resumable(t, stack, other, typed)
    BY <1>4, <1>5 DEF Resumable
  <1>9. Head(q).id = "EVENT_ANLZ_RESUME" => project = TRUE BY <1>1, <1>3 DEF Resumable
  <1>10. Head(q).id = "dc" /\ stack # <<>> => \A i \in DOMAIN t : t[i].id \notin Closers
    <2> SUFFICES ASSUME Head(q).id = "dc", stack # <<>>
                 PROVE  \A i \in DOMAIN t : t[i].id \notin Closers
      OBVIOUS
    <2>1. \A j \in DOMAIN q : j > 1 => q[j].id \notin Closers BY <1>1, <1>3 DEF Resumable
    <2> QED BY <1>2, <2>1
  <1> QED BY <1>6, <1>7, <1>8, <1>9, <1>10 DEF t

(* What is posted behind the queue: the one command of the user, or events *)
(* that close nothing.                                                     *)
LEMMA AppendResumable ==
  ASSUME NEW q \in Seq(Event), NEW stack, NEW project \in BOOLEAN, NEW typed \in BOOLEAN,
         Resumable(q, stack, project, typed), NEW e \in Event,
         NEW typed2 \in BOOLEAN, typed => typed2,
         e.id \notin Closers \/ ~typed,
         e.id = "EVENT_ANLZ_RESUME" => project /\ \A i \in DOMAIN q : q[i].id \notin Closers,
         e.id = "dc" => typed2
  PROVE  Resumable(Append(q, e), stack, project, typed2)
  <1> DEFINE t == Append(q, e)
             n == Len(q) + 1
  <1>1. /\ Len(q) \in Nat /\ DOMAIN q = 1 .. Len(q) /\ DOMAIN t = 1 .. n
        /\ \A i \in DOMAIN q : t[i] = q[i]
        /\ t[n] = e
    OBVIOUS
  <1> HIDE DEF t
  <1>2. /\ \A i \in DOMAIN t : i \in DOMAIN q \/ i = n
        /\ \A i \in DOMAIN q : i < n
        /\ \A i \in DOMAIN t : ~(i > n)
        /\ \A i \in DOMAIN t, j \in DOMAIN q : i < j => i \in DOMAIN q
    BY <1>1
  <1> HIDE DEF n
  <1>3. ASSUME NEW i \in DOMAIN t, t[i].id = "EVENT_ANLZ_RESUME"
        PROVE  project /\ \A j \in DOMAIN t : j < i => t[j].id \notin Closers
    <2>1. CASE i \in DOMAIN q
      <3>1. project /\ \A j \in DOMAIN q : j < i => q[j].id \notin Closers
        BY <1>1, <1>3, <2>1 DEF Resumable
      <3> QED BY <1>1, <1>2, <2>1, <3>1
    <2>2. CASE i = n
      <3>1. project /\ \A j \in DOMAIN q : q[j].id \notin Closers BY <1>1, <1>3, <2>2
      <3>2. e.id \notin Closers BY <1>1, <1>3, <2>2 DEF Closers
      <3> QED BY <1>1, <1>2, <3>1, <3>2
    <2> QED BY <1>2, <2>1, <2>2
  <1>4. ASSUME NEW i \in DOMAIN t, t[i].id = "dc"
        PROVE  \/ stack = <<>> /\ \A j \in DOMAIN t : j < i => t[j].id \notin ProjectOps
               \/ typed2 /\ \A j \in DOMAIN t : j > i => t[j].id \notin Closers
    <2>1. CASE i \in DOMAIN q
      <3>1. \/ stack = <<>> /\ \A j \in DOMAIN q : j < i => q[j].id \notin ProjectOps
            \/ typed /\ \A j \in DOMAIN q : j > i => q[j].id \notin Closers
        BY <1>1, <1>4, <2>1 DEF Resumable
      <3> QED BY <1>1, <1>2, <2>1, <3>1
    <2>2. CASE i = n
      BY <1>1, <1>2, <1>4, <2>2
    <2> QED BY <1>2, <2>1, <2>2
  <1> QED BY <1>3, <1>4 DEF Resumable, t

(* Nothing in the queue minds what becomes of an analysis in progress.     *)
LEMMA ResumableElsewhere ==
  ASSUME NEW q, NEW stack, NEW project, NEW typed, Resumable(q, stack, project, typed),
         NEW stack2, stack # <<>> \/ stack2 = <<>>
  PROVE  Resumable(q, stack2, project, typed)
  BY DEF Resumable

(* What OnIdle posts.                                                      *)
LEMMA PostedResumable ==
  ASSUME NEW posted \in {<<>>, <<event("EVENT_ANLZ_PROCESS")>>}, NEW project, NEW typed
  PROVE  /\ \A stack : Resumable(posted, stack, project, typed)
         /\ \A e \in Event : e.id \in Ops => Resumable(Append(posted, e), <<>>, project, typed)
  <1> DEFINE p == event("EVENT_ANLZ_PROCESS")
  <1>1. p.id = "EVENT_ANLZ_PROCESS" /\ p \in Event BY EventsAreEvents DEF event
  <1> HIDE DEF p
  <1>2. "EVENT_ANLZ_PROCESS" \notin ProjectOps BY DEF ProjectOps
  <1>3. "EVENT_ANLZ_RESUME" \notin Ops BY DEF Ops
  <1>4. CASE posted = <<>>
    <2>1. \A stack : Resumable(posted, stack, project, typed) BY <1>4 DEF Resumable
    <2>2. ASSUME NEW e \in Event, e.id \in Ops PROVE Resumable(<<e>>, <<>>, project, typed)
      <3>1. \A i \in DOMAIN <<e>> : i = 1 /\ <<e>>[i] = e OBVIOUS
      <3>2. \A i, j \in DOMAIN <<e>> : ~(j < i) BY <3>1
      <3> QED BY <1>3, <2>2, <3>1, <3>2 DEF Resumable
    <2>3. \A e \in Event : Append(<<>>, e) = <<e>> OBVIOUS
    <2> QED BY <1>4, <2>1, <2>2, <2>3
  <1>5. CASE posted = <<p>>
    <2>1. \A stack : Resumable(<<p>>, stack, project, typed)
      <3>1. \A i \in DOMAIN <<p>> : i = 1 /\ <<p>>[i] = p OBVIOUS
      <3> QED BY <1>1, <3>1 DEF Resumable
    <2>2. ASSUME NEW e \in Event, e.id \in Ops
          PROVE  Resumable(Append(<<p>>, e), <<>>, project, typed)
      <3> DEFINE t == Append(<<p>>, e)
      <3>1. DOMAIN t = 1 .. 2 /\ t[1] = p /\ t[2] = e BY <1>1, TwoElements
      <3>2. \A i \in DOMAIN t : (i = 1 /\ t[i] = p) \/ (i = 2 /\ t[i] = e) BY <3>1
      <3>3. \A i \in DOMAIN t, j \in DOMAIN t : j < i => t[j] = p BY <3>2
      <3> HIDE DEF t
      <3>4. Resumable(t, <<>>, project, typed)
        BY <1>1, <1>2, <1>3, <2>2, <3>2, <3>3 DEF Resumable
      <3> QED BY <3>4 DEF t
    <2> QED BY <1>5, <2>1, <2>2
  <1> QED BY <1>4, <1>5 DEF p

LEMMA OrderlyInit == Requests /\ Init => OrderlyInv
  <1> SUFFICES ASSUME Requests, Init PROVE OrderlyInv
    OBVIOUS
  <1>1. \A i \in DOMAIN Boot : Boot[i].id \notin {"dc", "EVENT_ANLZ_RESUME"}
    BY DEF Requests, Ops, ProjectOps
  <1>2. Resumable(Boot, <<>>, FALSE, inputs.commands > 0) BY <1>1 DEF Resumable
  <1>3. queue = Boot /\ mAnlz = <<>> /\ mpProject = FALSE /\ failed = "no"
        /\ mpScript.lines = <<>>
    BY DEF Init, NoScript
  <1>4. \A i \in DOMAIN mpScript.lines : FALSE BY <1>3
  <1>5. Resumable(queue, mAnlz, mpProject, inputs.commands > 0) BY <1>2, <1>3
  <1> QED BY <1>3, <1>4, <1>5 DEF OrderlyInv

LEMMA OrderlyTakeKeeps == Requests /\ TypeOK /\ OrderlyInv /\ TakeEvent => OrderlyInv'
  <1> SUFFICES ASSUME Requests, TypeOK, OrderlyInv, TakeEvent PROVE OrderlyInv'
    OBVIOUS
  <1> DEFINE t == Tail(queue)
             typed == inputs.commands > 0
             InOps(script) == \A i \in DOMAIN script.lines : script.lines[i].id \in Ops
             Behind == {"preformat", "postformat", "EVENT_SCRIPT", "EVENT_ANLZ_PROCESS"}
  <1>1. /\ Resumable(queue, mAnlz, mpProject, typed) /\ InOps(mpScript)
        /\ mpProject \in BOOLEAN /\ typed \in BOOLEAN /\ queue \in Seq(Event)
    <2>1. inputs.commands \in Nat BY InputsAreNumbers
    <2> QED BY <2>1 DEF OrderlyInv, TypeOK
  <1>2. typed' = typed /\ failed = "no"
    <2>1. UNCHANGED inputs BY CoreCountsNothing
    <2>2. failed = "no"
      BY DEF TakeEvent, TakeProcess, TakeResume, TakeEventScript, TakeNew, TakeNewAdd, TakeOpen,
           TakePreformat, TakePostformat, TakeAnalyze, TakeDc, TakeDcFile, TakeScript,
           TakeOther, Take, Running
    <2> QED BY <2>1, <2>2
  <1>3. /\ \A id \in Behind : id \in Ops \cup {"EVENT_SCRIPT", "EVENT_ANLZ_PROCESS"}
                              /\ id \notin Closers \cup {"dc", "EVENT_ANLZ_RESUME"}
        /\ {"preformat", "postformat", "analyze", "dc", "dcfile"} = ProjectOps
        /\ "dc" \in Ops
    BY DEF Ops, Closers, ProjectOps
  <1>4. /\ event("preformat") \in Event /\ event("preformat").id \in Behind
        /\ event("postformat") \in Event /\ event("postformat").id \in Behind
        /\ event("EVENT_ANLZ_PROCESS") \in Event /\ event("EVENT_ANLZ_PROCESS").id \in Behind
        /\ event("EVENT_ANLZ_RESUME") \in Event
        /\ event("EVENT_ANLZ_RESUME").id = "EVENT_ANLZ_RESUME"
    BY EventsAreEvents DEF event, Ops
  <1> HIDE DEF typed, Behind
  <1>5. ASSUME NEW id, Take(id)
        PROVE  /\ Resumable(t, mAnlz, mpProject, typed) /\ t \in Seq(Event)
               /\ id \in ProjectOps => \A other : Resumable(t, other, mpProject, typed)
               /\ id = "EVENT_ANLZ_RESUME" => mpProject = TRUE
               /\ id \in Closers => \A other : Resumable(t, mAnlz, other, typed)
               /\ id = "dc" /\ mAnlz # <<>> => \A i \in DOMAIN t : t[i].id \notin Closers
    <2>1. queue # <<>> /\ Head(queue).id = id BY <1>5 DEF Take
    <2>2. t \in Seq(Event) BY <1>1, <2>1, TailOfSeq
    <2> QED BY <1>1, <2>1, <2>2, TailResumable
  <1>6. ASSUME NEW stack, NEW project \in BOOLEAN, Resumable(t, stack, project, typed),
               t \in Seq(Event), NEW e \in Event, e.id \in Behind
        PROVE  Resumable(Append(t, e), stack, project, typed)
    <2>1. e.id \notin Closers \cup {"dc", "EVENT_ANLZ_RESUME"} BY <1>3, <1>6
    <2>2. typed \in BOOLEAN BY <1>1
    <2> QED BY ONLY <1>6, <2>1, <2>2, AppendResumable
  <1>7. ASSUME failed' # "project", InOps(mpScript'), Resumable(queue', mAnlz', mpProject', typed)
        PROVE  OrderlyInv'
    <2>1. inputs' = inputs BY CoreCountsNothing
    <2>2. Resumable(queue', mAnlz', mpProject', inputs'.commands > 0) BY <1>7, <2>1 DEF typed
    <2> QED BY <1>7, <2>2 DEF OrderlyInv
  <1> HIDE DEF InOps
  <1>8. CASE TakeProcess \/ TakeOther
    <2>1. PICK id : Take(id) /\ Keep /\ UNCHANGED <<mpProject, mAnlz, mpScript, failed>>
      BY <1>8 DEF TakeProcess, TakeOther
    <2>2. queue' = t BY <2>1 DEF Keep
    <2> QED BY <1>1, <1>2, <1>5, <1>7, <2>1, <2>2
  <1>9. CASE TakeResume
    <2>1. /\ Take("EVENT_ANLZ_RESUME") /\ queue' = Append(t, event("EVENT_ANLZ_PROCESS"))
          /\ UNCHANGED <<mpProject, mAnlz, mpScript>>
      BY <1>9 DEF TakeResume
    <2>2. mpProject = TRUE /\ Resumable(t, mAnlz, mpProject, typed) /\ t \in Seq(Event)
      BY <1>5, <2>1
    <2>3. failed' = "no" BY <1>9, <2>2 DEF TakeResume
    <2>4. Resumable(queue', mAnlz, mpProject, typed) BY <1>1, <1>4, <1>6, <2>1, <2>2
    <2> QED BY <1>1, <1>7, <2>1, <2>3, <2>4
  <1>10. CASE TakeEventScript
    <2>1. /\ Take("EVENT_SCRIPT") /\ Keep /\ UNCHANGED <<mpProject, mAnlz>>
          /\ failed' # "project"
          /\ \/ UNCHANGED mpScript
             \/ mpScript' = [open |-> TRUE, lines |-> Lines[Head(queue).arg]]
      BY <1>2, <1>10 DEF TakeEventScript
    <2>2. Head(queue).arg \in DOMAIN Lines
      <3>1. Head(queue) \in Event /\ Head(queue).id = "EVENT_SCRIPT" BY <2>1, Taken
      <3> QED BY <3>1 DEF Event
    <2>3. InOps(mpScript') BY <1>1, <2>1, <2>2 DEF InOps, Requests
    <2>4. queue' = t BY <2>1 DEF Keep
    <2> QED BY <1>5, <1>7, <2>1, <2>3, <2>4
  <1>11. CASE TakeNew \/ TakeNewAdd \/ TakeOpen
    <2>1. PICK id \in Closers :
             /\ Take(id) /\ (Keep \/ ThenPost(event("preformat")))
             /\ (mAnlz' = <<>> \/ mAnlz' = mAnlz) /\ UNCHANGED <<mpScript, failed>>
      BY <1>11 DEF TakeNew, TakeNewAdd, TakeOpen, CloseProjectThen, Closers
    <2>2. mpProject' \in BOOLEAN BY TakeKeeps DEF TypeOK
    <2>3. Resumable(t, mAnlz, mpProject', typed) /\ t \in Seq(Event) BY <1>5, <2>1
    <2>4. Resumable(t, mAnlz', mpProject', typed) BY <2>1, <2>3, ResumableElsewhere
    <2>5. Resumable(queue', mAnlz', mpProject', typed)
      <3>1. CASE Keep BY <2>4, <3>1 DEF Keep
      <3>2. CASE ThenPost(event("preformat"))
        BY <1>4, <1>6, <2>2, <2>3, <2>4, <3>2 DEF ThenPost
      <3> QED BY <2>1, <3>1, <3>2
    <2> QED BY <1>1, <1>2, <1>7, <2>1, <2>5
  <1>12. CASE TakePreformat \/ TakePostformat \/ TakeAnalyze
    <2>1. PICK id \in ProjectOps :
             /\ Take(id) /\ (Keep \/ ThenPost(event("postformat")))
             /\ UNCHANGED <<mpProject, mpScript>> /\ failed' # "project"
      BY <1>2, <1>12 DEF TakePreformat, TakePostformat, TakeAnalyze, ProjectOps
    <2>2. Resumable(t, mAnlz', mpProject, typed) /\ t \in Seq(Event) BY <1>5, <2>1
    <2>3. Resumable(queue', mAnlz', mpProject, typed)
      <3>1. CASE Keep BY <2>2, <3>1 DEF Keep
      <3>2. CASE ThenPost(event("postformat"))
        BY <1>1, <1>4, <1>6, <2>2, <3>2 DEF ThenPost
      <3> QED BY <2>1, <3>1, <3>2
    <2> QED BY <1>1, <1>7, <2>1, <2>3
  <1>13. CASE TakeDc
    <2>1. Take("dc") /\ UNCHANGED <<mpProject, mpScript, failed>> BY <1>13 DEF TakeDc
    <2>2. /\ Resumable(t, mAnlz', mpProject, typed) /\ t \in Seq(Event)
          /\ mAnlz # <<>> => \A i \in DOMAIN t : t[i].id \notin Closers
      BY <1>3, <1>5, <2>1
    <2>3. Resumable(queue', mAnlz', mpProject, typed)
      <3>1. CASE Keep BY <2>2, <3>1 DEF Keep
      <3>2. CASE mAnlz # <<>> /\ ThenPost(event("EVENT_ANLZ_RESUME"))
        <4>1. mpProject = TRUE BY <1>13 DEF TakeDc
        <4>2. queue' = Append(t, event("EVENT_ANLZ_RESUME")) BY <3>2 DEF ThenPost
        <4>3. event("EVENT_ANLZ_RESUME").id \notin Closers \cup {"dc"}
          BY <1>4 DEF Closers
        <4> QED BY <1>1, <1>4, <2>2, <3>2, <4>1, <4>2, <4>3, AppendResumable
      <3> QED BY <1>13, <3>1, <3>2 DEF TakeDc
    <2> QED BY <1>1, <1>2, <1>7, <2>1, <2>3
  <1>14. CASE TakeDcFile
    <2>1. Take("dcfile") /\ Keep /\ UNCHANGED <<mpProject, mAnlz, failed>>
      BY <1>14 DEF TakeDcFile
    <2>2. InOps(mpScript') BY <1>1, <1>3, <1>14, DcLines DEF InOps
    <2>3. queue' = t BY <2>1 DEF Keep
    <2> QED BY <1>2, <1>5, <1>7, <2>1, <2>2, <2>3
  <1>15. CASE TakeScript
    <2> DEFINE e == [id |-> "EVENT_SCRIPT", arg |-> Head(queue).arg]
    <2>1. Take("script") /\ ThenPost(e) /\ UNCHANGED <<mpProject, mAnlz, mpScript, failed>>
      BY <1>15 DEF TakeScript
    <2>2. e \in Event
      <3>1. Head(queue) \in Event /\ Head(queue).id = "script" BY <2>1, Taken
      <3> QED BY <3>1, EventsAreEvents DEF Event
    <2>3. e.id \in Behind BY DEF Behind
    <2>4. queue' = Append(t, e) BY <2>1 DEF ThenPost
    <2> HIDE DEF e
    <2> QED BY <1>1, <1>2, <1>5, <1>6, <1>7, <2>1, <2>2, <2>3, <2>4
  <1> QED
    BY <1>8, <1>9, <1>10, <1>11, <1>12, <1>13, <1>14, <1>15 DEF TakeEvent

LEMMA OrderlyProcessKeeps == TypeOK /\ OrderlyInv /\ Process => OrderlyInv'
  <1> SUFFICES ASSUME TypeOK, OrderlyInv, Process PROVE OrderlyInv'
    OBVIOUS
  <1>1. /\ UNCHANGED <<queue, mpScript, mpProject, inputs>> /\ core = "process"
        /\ failed' # "project"
    BY DEF Process, ProcessBin, ProcessPost, ProcessDc, AtProcess, guiVars, Running
  <1>2. mAnlz # <<>> BY <1>1 DEF TypeOK
  <1>3. Resumable(queue, mAnlz', mpProject, inputs.commands > 0)
    BY <1>2, ResumableElsewhere DEF OrderlyInv
  <1> QED BY <1>1, <1>3 DEF OrderlyInv

LEMMA OrderlyIdleKeeps == TypeOK /\ OrderlyInv /\ OnIdle => OrderlyInv'
  <1> SUFFICES ASSUME TypeOK, OrderlyInv, OnIdle PROVE OrderlyInv'
    OBVIOUS
  <1> DEFINE p == event("EVENT_ANLZ_PROCESS")
             typed == inputs.commands > 0
  <1>0. typed' = typed /\ \A i \in DOMAIN mpScript.lines : mpScript.lines[i].id \in Ops
    BY CoreCountsNothing DEF OrderlyInv
  <1>1. failed' # "project" /\ UNCHANGED mpProject
    BY DEF OnIdle, IdleFinished, IdleAbort, IdlePause, IdleProceed, IdleNoAnalyzer, Announce,
           AtIdle, Running
  <1> HIDE DEF typed, p
  <1>2. ASSUME \A i \in DOMAIN mpScript'.lines : mpScript'.lines[i].id \in Ops,
               Resumable(queue', mAnlz', mpProject, typed)
        PROVE  OrderlyInv'
    BY <1>0, <1>1, <1>2 DEF OrderlyInv, typed
  <1>3. ASSUME NEW script \in {mpScript, NoScript}, NEW posted \in {<<>>, <<p>>},
               CheckScript(script, posted), mAnlz' = <<>>
        PROVE  OrderlyInv'
    <2>1. /\ \A i \in DOMAIN mpScript'.lines : mpScript'.lines[i].id \in Ops
          /\ queue' = posted \/ \E e \in Event : e.id \in Ops /\ queue' = Append(posted, e)
      BY <1>0, <1>3, ScriptLines
    <2>2. Resumable(queue', <<>>, mpProject, typed) BY <1>3, <2>1, PostedResumable DEF p
    <2> QED BY <1>2, <1>3, <2>1, <2>2
  <1>4. ASSUME queue' \in {<<>>, <<p>>}, UNCHANGED mpScript PROVE OrderlyInv'
    <2>1. Resumable(queue', mAnlz', mpProject, typed) BY <1>4, PostedResumable DEF p
    <2> QED BY <1>0, <1>2, <1>4, <2>1
  <1>5. CASE IdleFinished
    <2>1. CASE popAnalizer # <<>>
      BY <1>4, <1>5, <2>1 DEF IdleFinished, p
    <2>2. CASE popAnalizer = <<>>
      BY <1>3, <1>5, <2>2 DEF IdleFinished, p
    <2> QED BY <2>1, <2>2
  <1>6. CASE IdleAbort
    BY <1>3, <1>6 DEF IdleAbort
  <1>7. CASE IdlePause \/ IdleProceed
    BY <1>4, <1>7 DEF IdlePause, IdleProceed, AtIdle, p
  <1>8. CASE IdleNoAnalyzer
    <2>1. mAnlz' = <<>> BY <1>8 DEF IdleNoAnalyzer, hasAnalyzer, TypeOK
    <2> QED BY <1>3, <1>8, <2>1 DEF IdleNoAnalyzer
  <1>9. CASE Announce
    <2>1. UNCHANGED <<queue, mAnlz, mpScript>> BY <1>9 DEF Announce
    <2>2. Resumable(queue, mAnlz, mpProject, typed) BY DEF OrderlyInv, typed
    <2> QED BY <1>0, <1>2, <2>1, <2>2
  <1> QED BY <1>5, <1>6, <1>7, <1>8, <1>9 DEF OnIdle

(* The first command may be any: what is asked for already minds none      *)
(* behind it.                                                              *)
LEMMA OrderlyCommandKeeps ==
  ASSUME Typing, TypeOK, OrderlyInv, PostCommand, inputs'.commands =< 1
  PROVE  OrderlyInv'
  <1>1. inputs.commands = 0 /\ inputs'.commands = 1
    BY InputsAreNumbers DEF PostCommand
  <1>2. PICK c \in UserCommands : queue' = Append(queue, c)
    BY DEF PostCommand
  <1>3. /\ UNCHANGED <<mpProject, mAnlz, mpScript, failed>>
    BY DEF PostCommand, coreVars
  <1>4. c \in Event /\ c.id \in Ops /\ queue \in Seq(Event) /\ mpProject \in BOOLEAN
    BY EventsAssumption DEF Typing, EventsAssumption, TypeOK
  <1>5. c.id # "EVENT_ANLZ_RESUME" BY <1>4 DEF Ops
  <1>6. Resumable(queue, mAnlz, mpProject, FALSE)
    <2>1. (inputs.commands > 0) = FALSE BY <1>1
    <2> QED BY <2>1 DEF OrderlyInv
  <1>7. Resumable(Append(queue, c), mAnlz, mpProject, TRUE)
    BY <1>4, <1>5, <1>6, AppendResumable
  <1>8. (inputs'.commands > 0) = TRUE BY <1>1
  <1> QED BY <1>2, <1>3, <1>7, <1>8 DEF OrderlyInv

Sparing == inputs.clicks = 0 /\ inputs.commands =< 1

LEMMA OrderlyAlways == Requests /\ Typing => (Spec => [](Sparing => OrderlyInv))
  <1> SUFFICES ASSUME Requests, Typing PROVE Spec => [](Sparing => OrderlyInv)
    OBVIOUS
  <1> DEFINE Inv == Sparing => OrderlyInv
  <1>1. TypeOK /\ Unclicked /\ Inv /\ [Next]_vars => Inv'
    <2> SUFFICES ASSUME TypeOK, Unclicked, Inv, [Next]_vars, Sparing' PROVE OrderlyInv'
      OBVIOUS
    <2>1. CASE TakeEvent \/ Process \/ OnIdle
      <3>1. Sparing BY <2>1, CoreCountsNothing DEF Sparing
      <3> QED BY <2>1, <3>1, OrderlyTakeKeeps, OrderlyProcessKeeps, OrderlyIdleKeeps
    <2>2. CASE PostCommand
      <3>1. Sparing BY <2>2, InputsAreNumbers DEF PostCommand, Sparing
      <3> QED BY <2>2, <3>1, OrderlyCommandKeeps DEF Sparing
    <2>3. CASE Click
      BY <2>3, InputsAreNumbers DEF Click, Sparing
    <2>4. CASE ClickSetsFlag
      <3>1. inputs.clicks # 0 BY <2>4 DEF ClickSetsFlag, Unclicked
      <3> QED BY <2>4, <3>1 DEF ClickSetsFlag, Sparing
    <2>5. CASE Receive \/ ToggleDebugMode \/ UNCHANGED vars
      <3>1. /\ UNCHANGED <<queue, mAnlz, mpProject, mpScript, failed>>
            /\ inputs'.commands = inputs.commands /\ inputs'.clicks = inputs.clicks
        <4>1. CASE Receive
          BY <4>1 DEF Receive, coreVars
        <4>2. CASE ToggleDebugMode
          BY <4>2, InputsAreNumbers DEF ToggleDebugMode, coreVars
        <4>3. CASE UNCHANGED vars
          BY <4>3 DEF vars, coreVars, guiVars
        <4> QED BY <2>5, <4>1, <4>2, <4>3
      <3> QED BY <3>1 DEF Sparing, OrderlyInv
    <2> QED BY <2>1, <2>2, <2>3, <2>4, <2>5 DEF Next, User
  <1>2. Init => Inv BY OrderlyInit
  <1> QED BY <1>1, <1>2, TypeCorrect, UnclickedAlways, PTL DEF Spec

-----------------------------------------------------------------------------
(* Without a command typed: a script is asked for once, and not while one  *)
(* is in progress; and what leads to formatting is never in the queue with *)
(* a decompilation, or while a decompiler is on the stack.                 *)
NoDc(stack) == \A k \in DOMAIN stack : stack[k].kind # "dc"

Apart(q, stack, open) ==
    /\ \A i \in DOMAIN q : q[i].id # "script"
    /\ \A i \in DOMAIN q : q[i].id = "EVENT_SCRIPT" =>
          ~open /\ \A j \in DOMAIN q : q[j].id = "EVENT_SCRIPT" => i = j
    /\ \A i \in DOMAIN q : q[i].id = "dcfile" => open
    /\ \A i \in DOMAIN q : q[i].id \in Closers \cup Formats =>
          NoDc(stack) /\ \A j \in DOMAIN q : q[j].id # "dc"

ApartInv ==
    /\ failed \notin {"script", "decompiler"}
    /\ \A i \in DOMAIN mpScript.lines : mpScript.lines[i].id \in Line \ {"script"}
    /\ Apart(queue, mAnlz, mpScript.open)

LEMMA TailApart ==
  ASSUME NEW q \in Seq(Event), q # <<>>, NEW stack, NEW open \in BOOLEAN, Apart(q, stack, open)
  PROVE  /\ Apart(Tail(q), stack, open)
         /\ Head(q).id # "script"
         /\ Head(q).id = "EVENT_SCRIPT" => open = FALSE /\ Apart(Tail(q), stack, TRUE)
         /\ Head(q).id = "dcfile" => open = TRUE
         /\ Head(q).id \in Closers \cup Formats =>
               NoDc(stack) /\ \A i \in DOMAIN Tail(q) : Tail(q)[i].id # "dc"
         /\ Head(q).id = "dc" => \A other : Apart(Tail(q), other, open)
  <1> DEFINE t == Tail(q)
  <1>1. /\ Len(q) \in Nat \ {0} /\ DOMAIN q = 1 .. Len(q) /\ Head(q) = q[1]
        /\ DOMAIN t = 1 .. Len(q) - 1
        /\ \A i \in 1 .. Len(q) - 1 : t[i] = q[i + 1]
    BY EmptySeq, HeadTailProperties
  <1> HIDE DEF t
  <1>2. \A i \in DOMAIN t : i + 1 \in DOMAIN q /\ t[i] = q[i + 1] /\ i \in Nat /\ i + 1 # 1
    BY <1>1
  <1>3. 1 \in DOMAIN q /\ \A i \in DOMAIN t, j \in DOMAIN t : i + 1 = j + 1 => i = j
    BY <1>1, <1>2
  <1>4. /\ \A i \in DOMAIN t : t[i].id # "script"
        /\ \A i \in DOMAIN t : t[i].id = "dcfile" => open = TRUE
        /\ Head(q).id # "script"
        /\ Head(q).id = "dcfile" => open = TRUE
    BY <1>1, <1>2, <1>3 DEF Apart
  <1>5. ASSUME NEW i \in DOMAIN t, t[i].id = "EVENT_SCRIPT"
        PROVE  /\ open = FALSE /\ Head(q).id # "EVENT_SCRIPT"
               /\ \A j \in DOMAIN t : t[j].id = "EVENT_SCRIPT" => i = j
    <2>1. i + 1 \in DOMAIN q /\ q[i + 1].id = "EVENT_SCRIPT" BY <1>2, <1>5
    <2>2. open = FALSE /\ \A j \in DOMAIN q : q[j].id = "EVENT_SCRIPT" => i + 1 = j
      BY <2>1 DEF Apart
    <2> QED BY <1>1, <1>2, <1>3, <2>2
  <1>6. ASSUME NEW i \in DOMAIN q, q[i].id \in Closers \cup Formats
        PROVE  NoDc(stack) /\ Head(q).id # "dc" /\ \A j \in DOMAIN t : t[j].id # "dc"
    BY <1>1, <1>2, <1>3, <1>6 DEF Apart
  <1>7. \A i \in DOMAIN t : t[i].id \in Closers \cup Formats =>
           NoDc(stack) /\ Head(q).id # "dc" /\ \A j \in DOMAIN t : t[j].id # "dc"
    BY <1>2, <1>6
  <1>8. Apart(t, stack, open) BY <1>4, <1>5, <1>7 DEF Apart
  <1>9. Head(q).id = "EVENT_SCRIPT" => open = FALSE /\ Apart(t, stack, TRUE)
    <2> SUFFICES ASSUME Head(q).id = "EVENT_SCRIPT"
                 PROVE  open = FALSE /\ Apart(t, stack, TRUE)
      OBVIOUS
    <2>1. open = FALSE BY <1>1, <1>3 DEF Apart
    <2>2. \A i \in DOMAIN t : t[i].id # "EVENT_SCRIPT" BY <1>5
    <2> QED BY <1>4, <1>7, <2>1, <2>2 DEF Apart
  <1>10. Head(q).id \in Closers \cup Formats =>
            NoDc(stack) /\ \A i \in DOMAIN t : t[i].id # "dc"
    BY <1>1, <1>3, <1>6
  <1>11. Head(q).id = "dc" => \A other : Apart(t, other, open)
    BY <1>4, <1>5, <1>7 DEF Apart
  <1> QED BY <1>4, <1>8, <1>9, <1>10, <1>11 DEF t

(* What the core thread and a click post behind the queue.                 *)
LEMMA AppendApart ==
  ASSUME NEW q \in Seq(Event), NEW stack, NEW open \in BOOLEAN, Apart(q, stack, open),
         NEW e \in Event,
         e.id \in Formats \cup {"EVENT_ANLZ_PROCESS", "EVENT_ANLZ_RESUME"},
         e.id \in Formats => NoDc(stack) /\ \A i \in DOMAIN q : q[i].id # "dc"
  PROVE  Apart(Append(q, e), stack, open)
  <1> DEFINE t == Append(q, e)
             n == Len(q) + 1
  <1>1. /\ Len(q) \in Nat /\ DOMAIN q = 1 .. Len(q) /\ DOMAIN t = 1 .. n
        /\ \A i \in DOMAIN q : t[i] = q[i]
        /\ t[n] = e
    OBVIOUS
  <1> HIDE DEF t
  <1>2. \A i \in DOMAIN t : i \in DOMAIN q \/ i = n BY <1>1
  <1>3. e.id \notin {"script", "EVENT_SCRIPT", "dcfile", "dc"} \cup Closers
    BY DEF Formats, Closers
  <1>4. /\ \A i \in DOMAIN t : t[i].id # "script"
        /\ \A i \in DOMAIN t : t[i].id = "dcfile" => open
    BY <1>1, <1>2, <1>3 DEF Apart
  <1>5. \A i \in DOMAIN t : t[i].id = "EVENT_SCRIPT" =>
           ~open /\ \A j \in DOMAIN t : t[j].id = "EVENT_SCRIPT" => i = j
    BY <1>1, <1>2, <1>3 DEF Apart
  <1>6. ASSUME NEW i \in DOMAIN t, t[i].id \in Closers \cup Formats
        PROVE  NoDc(stack) /\ \A j \in DOMAIN t : t[j].id # "dc"
    <2>1. NoDc(stack) /\ \A j \in DOMAIN q : q[j].id # "dc"
      <3>1. CASE i = n
        BY <1>1, <1>3, <1>6, <3>1
      <3>2. CASE i \in DOMAIN q
        BY <1>1, <1>6, <3>2 DEF Apart
      <3> QED BY <1>2, <3>1, <3>2
    <2> QED BY <1>1, <1>2, <1>3, <2>1
  <1> QED BY <1>4, <1>5, <1>6 DEF Apart, t

LEMMA ApartElsewhere ==
  ASSUME NEW q, NEW stack, NEW open, Apart(q, stack, open),
         NEW stack2, NoDc(stack) => NoDc(stack2)
  PROVE  Apart(q, stack2, open)
  BY DEF Apart

(* What OnIdle posts: a step at most, and a line of an open script when no *)
(* analysis is left.                                                       *)
LEMMA PostedApart ==
  ASSUME NEW posted \in {<<>>, <<event("EVENT_ANLZ_PROCESS")>>}
  PROVE  /\ \A stack : \A open \in BOOLEAN : Apart(posted, stack, open)
         /\ \A e \in Event : e.id \in Line \ {"script"} => Apart(Append(posted, e), <<>>, TRUE)
  <1> DEFINE p == event("EVENT_ANLZ_PROCESS")
  <1>1. p.id = "EVENT_ANLZ_PROCESS" /\ p \in Event BY EventsAreEvents DEF event
  <1> HIDE DEF p
  <1>2. "EVENT_ANLZ_PROCESS" \notin Closers \cup Formats \cup {"script", "EVENT_SCRIPT", "dc"}
    BY DEF Closers, Formats
  <1>3. NoDc(<<>>)
    <2>1. DOMAIN <<>> = {} OBVIOUS
    <2> QED BY <2>1 DEF NoDc
  <1>4. ASSUME NEW e \in Event, e.id \in Line \ {"script"}
        PROVE  /\ e.id \notin {"script", "EVENT_SCRIPT"}
               /\ e.id \in Closers \cup Formats => e.id # "dc"
    BY <1>4, Kinds DEF Formats, Closers
  <1>5. CASE posted = <<>>
    <2>1. \A stack : \A open \in BOOLEAN : Apart(posted, stack, open) BY <1>5 DEF Apart
    <2>2. ASSUME NEW e \in Event, e.id \in Line \ {"script"} PROVE Apart(<<e>>, <<>>, TRUE)
      <3>1. \A i \in DOMAIN <<e>> : i = 1 /\ <<e>>[i] = e OBVIOUS
      <3> QED BY <1>3, <1>4, <2>2, <3>1 DEF Apart
    <2>3. \A e \in Event : Append(<<>>, e) = <<e>> OBVIOUS
    <2> QED BY <1>5, <2>1, <2>2, <2>3
  <1>6. CASE posted = <<p>>
    <2>1. \A stack : \A open \in BOOLEAN : Apart(<<p>>, stack, open)
      <3>1. \A i \in DOMAIN <<p>> : i = 1 /\ <<p>>[i] = p OBVIOUS
      <3> QED BY <1>1, <1>2, <3>1 DEF Apart
    <2>2. ASSUME NEW e \in Event, e.id \in Line \ {"script"}
          PROVE  Apart(Append(<<p>>, e), <<>>, TRUE)
      <3> DEFINE t == Append(<<p>>, e)
      <3>1. DOMAIN t = 1 .. 2 /\ t[1] = p /\ t[2] = e BY <1>1, TwoElements
      <3>2. \A i \in DOMAIN t : (i = 1 /\ t[i] = p) \/ (i = 2 /\ t[i] = e) BY <3>1
      <3> HIDE DEF t
      <3>3. Apart(t, <<>>, TRUE) BY <1>1, <1>2, <1>3, <1>4, <2>2, <3>2 DEF Apart
      <3> QED BY <3>3 DEF t
    <2> QED BY <1>6, <2>1, <2>2
  <1> QED BY <1>5, <1>6 DEF p

(* No operation on the stack but that of dc brings a decompiler there.     *)
LEMMA NoDcKept ==
  ASSUME NEW s \in Seq(Analyzer), NoDc(s)
  PROVE  /\ \A k \in Nat : NoDc(withTasks(s, k))
         /\ \A a : a.kind # "dc" => NoDc(Append(s, a)) /\ NoDc([s EXCEPT ![Len(s)] = a])
  <1>1. ASSUME NEW a, a.kind # "dc" PROVE NoDc(Append(s, a))
    <2>1. \A i \in DOMAIN Append(s, a) :
             \/ i \in DOMAIN s /\ Append(s, a)[i] = s[i]
             \/ Append(s, a)[i] = a
      OBVIOUS
    <2> QED BY <1>1, <2>1 DEF NoDc
  <1>2. ASSUME NEW a, a.kind # "dc" PROVE NoDc([s EXCEPT ![Len(s)] = a])
    <2>1. \A i \in DOMAIN s : \/ [s EXCEPT ![Len(s)] = a][i] = s[i]
                              \/ [s EXCEPT ![Len(s)] = a][i] = a
      OBVIOUS
    <2> QED BY <1>2, <2>1 DEF NoDc
  <1>3. ASSUME NEW k \in Nat PROVE NoDc(withTasks(s, k))
    <2>1. CASE k = 0
      BY <2>1 DEF withTasks
    <2>2. CASE k # 0 /\ s # <<>> /\ s[Len(s)].kind = "bin"
      <3> DEFINE a == [s[Len(s)] EXCEPT !.left = @ + k]
      <3>1. withTasks(s, k) = [s EXCEPT ![Len(s)] = a] BY <2>2 DEF withTasks
      <3>2. a.kind # "dc"
        <4>1. s[Len(s)] \in Analyzer BY <2>2, LastOfSeq
        <4> QED BY <2>2, <4>1 DEF Analyzer
      <3> HIDE DEF a
      <3> QED BY <1>2, <3>1, <3>2
    <2>3. CASE k # 0 /\ ~(s # <<>> /\ s[Len(s)].kind = "bin")
      <3>1. withTasks(s, k) = Append(s, newAnalyzer("bin", k)) BY <2>3 DEF withTasks
      <3>2. newAnalyzer("bin", k).kind # "dc" BY DEF newAnalyzer
      <3> QED BY <1>1, <3>1, <3>2
    <2> QED BY <2>1, <2>2, <2>3
  <1> QED BY <1>1, <1>2, <1>3

LEMMA NoDcOnTop ==
  ASSUME TypeOK, NoDc(mAnlz), mAnlz # <<>>
  PROVE  /\ ~decompilerOnTop
         /\ \A a : a.kind = analyzer.kind => NoDc(withTop(a))
  <1>1. mAnlz \in Seq(Analyzer) BY DEF TypeOK
  <1>2. Len(mAnlz) \in DOMAIN mAnlz BY <1>1, LastOfSeq
  <1>3. analyzer.kind # "dc" BY <1>2 DEF NoDc, analyzer
  <1> QED BY <1>1, <1>3, NoDcKept DEF decompilerOnTop, withTop

LEMMA ApartInit == FlatRequests /\ Init => ApartInv
  <1> SUFFICES ASSUME FlatRequests, Init PROVE ApartInv
    OBVIOUS
  <1>1. \A i \in DOMAIN Boot : Boot[i].id \notin {"dc", "dcfile", "script"}
    BY DEF FlatRequests, Requests, Ops, ProjectOps
  <1>2. NoDc(<<>>)
    <2>1. DOMAIN <<>> = {} OBVIOUS
    <2> QED BY <2>1 DEF NoDc
  <1>3. Apart(Boot, <<>>, FALSE) BY <1>1, <1>2 DEF Apart, FlatRequests
  <1>4. queue = Boot /\ mAnlz = <<>> /\ mpScript.open = FALSE /\ failed = "no"
        /\ mpScript.lines = <<>>
    BY DEF Init, NoScript
  <1>5. \A i \in DOMAIN mpScript.lines : FALSE BY <1>4
  <1> QED BY <1>3, <1>4, <1>5 DEF ApartInv

LEMMA ApartTakeKeeps == FlatRequests /\ TypeOK /\ ApartInv /\ TakeEvent => ApartInv'
  <1> SUFFICES ASSUME FlatRequests, TypeOK, ApartInv, TakeEvent PROVE ApartInv'
    OBVIOUS
  <1> DEFINE t == Tail(queue)
             open == mpScript.open
             Flat(script) ==
                \A i \in DOMAIN script.lines : script.lines[i].id \in Line \ {"script"}
  <1>1. /\ Apart(queue, mAnlz, open) /\ Flat(mpScript) /\ open \in BOOLEAN
        /\ queue \in Seq(Event) /\ mAnlz \in Seq(Analyzer)
    BY DEF ApartInv, TypeOK
  <1>2. failed = "no"
    BY DEF TakeEvent, TakeProcess, TakeResume, TakeEventScript, TakeNew, TakeNewAdd, TakeOpen,
           TakePreformat, TakePostformat, TakeAnalyze, TakeDc, TakeDcFile, TakeScript,
           TakeOther, Take, Running
  <1>3. /\ event("preformat") \in Event /\ event("preformat").id \in Formats
        /\ event("postformat") \in Event /\ event("postformat").id \in Formats
        /\ event("EVENT_ANLZ_PROCESS") \in Event
        /\ event("EVENT_ANLZ_PROCESS").id = "EVENT_ANLZ_PROCESS"
        /\ event("EVENT_ANLZ_RESUME") \in Event
        /\ event("EVENT_ANLZ_RESUME").id = "EVENT_ANLZ_RESUME"
        /\ "EVENT_ANLZ_PROCESS" \notin Formats /\ "EVENT_ANLZ_RESUME" \notin Formats
    BY EventsAreEvents DEF event, Ops, Formats
  <1>4. NoDc(<<>>)
    <2>1. DOMAIN <<>> = {} OBVIOUS
    <2> QED BY <2>1 DEF NoDc
  <1> HIDE DEF open
  <1>5. ASSUME NEW id, Take(id)
        PROVE  /\ Apart(t, mAnlz, open) /\ t \in Seq(Event) /\ id # "script"
               /\ id = "EVENT_SCRIPT" => open = FALSE /\ Apart(t, mAnlz, TRUE)
               /\ id = "dcfile" => open = TRUE
               /\ id \in Closers \cup Formats => NoDc(mAnlz) /\ \A i \in DOMAIN t : t[i].id # "dc"
               /\ id = "dc" => \A other : Apart(t, other, open)
    <2>1. queue # <<>> /\ Head(queue).id = id BY <1>5 DEF Take
    <2>2. t \in Seq(Event) BY <1>1, <2>1, TailOfSeq
    <2> QED BY <1>1, <2>1, <2>2, TailApart
  <1>6. ASSUME failed' \notin {"script", "decompiler"}, Flat(mpScript'),
               Apart(queue', mAnlz', mpScript'.open)
        PROVE  ApartInv'
    BY <1>6 DEF ApartInv
  <1> HIDE DEF Flat
  <1>7. CASE TakeProcess \/ TakeOther
    <2>1. PICK id : Take(id) /\ Keep /\ UNCHANGED <<mAnlz, mpScript, failed>>
      BY <1>7 DEF TakeProcess, TakeOther
    <2>2. Apart(queue', mAnlz', mpScript'.open) BY <1>5, <2>1 DEF Keep, open
    <2> QED BY <1>1, <1>2, <1>6, <2>1, <2>2
  <1>8. CASE TakeResume
    <2>1. /\ Take("EVENT_ANLZ_RESUME") /\ queue' = Append(t, event("EVENT_ANLZ_PROCESS"))
          /\ UNCHANGED <<mAnlz, mpScript>> /\ failed' \in {"no", "project"}
      BY <1>8 DEF TakeResume
    <2>2. Apart(queue', mAnlz, open) BY <1>1, <1>3, <1>5, <2>1, AppendApart
    <2> QED BY <1>1, <1>6, <2>1, <2>2 DEF open
  <1>9. CASE TakeEventScript
    <2>1. Take("EVENT_SCRIPT") /\ Keep /\ UNCHANGED mAnlz BY <1>9 DEF TakeEventScript
    <2>2. open = FALSE /\ Apart(t, mAnlz, TRUE) BY <1>5, <2>1
    <2>3. mpScript' = [open |-> TRUE, lines |-> Lines[Head(queue).arg]] /\ failed' = failed
      BY <1>9, <2>2 DEF TakeEventScript, open
    <2>4. Head(queue).arg \in DOMAIN Lines
      <3>1. Head(queue) \in Event /\ Head(queue).id = "EVENT_SCRIPT" BY <2>1, Taken
      <3> QED BY <3>1 DEF Event
    <2>5. Flat(mpScript') BY <2>3, <2>4 DEF Flat, FlatRequests
    <2>6. queue' = t /\ mpScript'.open = TRUE BY <2>1, <2>3 DEF Keep
    <2> QED BY <1>2, <1>6, <2>1, <2>2, <2>3, <2>5, <2>6
  <1>10. CASE TakeNew \/ TakeNewAdd \/ TakeOpen
    <2>1. PICK id \in Closers :
             /\ Take(id) /\ (Keep \/ ThenPost(event("preformat")))
             /\ (mAnlz' = <<>> \/ mAnlz' = mAnlz) /\ UNCHANGED <<mpScript, failed>>
      BY <1>10 DEF TakeNew, TakeNewAdd, TakeOpen, CloseProjectThen, Closers
    <2>2. /\ Apart(t, mAnlz, open) /\ t \in Seq(Event)
          /\ NoDc(mAnlz) /\ \A i \in DOMAIN t : t[i].id # "dc"
      BY <1>5, <2>1
    <2>3. NoDc(mAnlz') /\ Apart(t, mAnlz', open) BY <1>4, <2>1, <2>2, ApartElsewhere
    <2>4. Apart(queue', mAnlz', open)
      <3>1. CASE Keep BY <2>3, <3>1 DEF Keep
      <3>2. CASE ThenPost(event("preformat"))
        BY <1>1, <1>3, <2>2, <2>3, <3>2, AppendApart DEF ThenPost
      <3> QED BY <2>1, <3>1, <3>2
    <2> QED BY <1>1, <1>2, <1>6, <2>1, <2>4 DEF open
  <1>11. CASE TakePreformat \/ TakePostformat
    <2>1. PICK id \in Formats :
             Take(id) /\ (Keep \/ ThenPost(event("postformat"))) /\ UNCHANGED mpScript
      BY <1>11 DEF TakePreformat, TakePostformat, Formats
    <2>2. /\ Apart(t, mAnlz, open) /\ t \in Seq(Event)
          /\ NoDc(mAnlz) /\ \A i \in DOMAIN t : t[i].id # "dc"
      BY <1>5, <2>1
    <2>3. NoDc(mAnlz') /\ failed' = "no"
      <3>1. CASE TakePreformat
        <4>1. PICK k \in 0 .. work : mAnlz' = withTasks(mAnlz, k)
          BY <3>1 DEF TakePreformat
        <4>2. k \in Nat BY <4>1 DEF TypeOK
        <4> QED BY <1>1, <1>2, <2>2, <3>1, <4>1, <4>2, NoDcKept DEF TakePreformat
      <3>2. CASE TakePostformat
        <4>1. ~decompilerOnTop
          BY <2>2, NoDcOnTop DEF decompilerOnTop
        <4>2. /\ failed' = failed
              /\ mAnlz' = mAnlz \/ mAnlz' = Append(mAnlz, newAnalyzer("post", MaxTasks))
          BY <3>2, <4>1 DEF TakePostformat
        <4>3. newAnalyzer("post", MaxTasks).kind # "dc" BY DEF newAnalyzer
        <4> QED BY <1>1, <1>2, <2>2, <4>2, <4>3, NoDcKept
      <3> QED BY <1>11, <3>1, <3>2
    <2>4. Apart(t, mAnlz', open) BY <2>2, <2>3, ApartElsewhere
    <2>5. Apart(queue', mAnlz', open)
      <3>1. CASE Keep BY <2>4, <3>1 DEF Keep
      <3>2. CASE ThenPost(event("postformat"))
        BY <1>1, <1>3, <2>2, <2>3, <2>4, <3>2, AppendApart DEF ThenPost
      <3> QED BY <2>1, <3>1, <3>2
    <2> QED BY <1>1, <1>6, <2>1, <2>3, <2>5 DEF open
  <1>12. CASE TakeAnalyze
    <2>1. Take("analyze") /\ Keep /\ UNCHANGED <<mpScript, failed>> BY <1>12 DEF TakeAnalyze
    <2>2. PICK k \in 0 .. work : mAnlz' = withTasks(mAnlz, k) BY <1>12 DEF TakeAnalyze
    <2>3. k \in Nat BY <2>2 DEF TypeOK
    <2>4. NoDc(mAnlz) => NoDc(mAnlz') BY <1>1, <2>2, <2>3, NoDcKept
    <2>5. Apart(queue', mAnlz', open) BY <1>5, <2>1, <2>4, ApartElsewhere DEF Keep
    <2> QED BY <1>1, <1>2, <1>6, <2>1, <2>5 DEF open
  <1>13. CASE TakeDc
    <2>1. /\ Take("dc") /\ (Keep \/ ThenPost(event("EVENT_ANLZ_RESUME")))
          /\ UNCHANGED <<mpScript, failed>>
      BY <1>13 DEF TakeDc
    <2>2. Apart(t, mAnlz', open) /\ t \in Seq(Event) BY <1>5, <2>1
    <2>3. Apart(queue', mAnlz', open)
      <3>1. CASE Keep BY <2>2, <3>1 DEF Keep
      <3>2. CASE ThenPost(event("EVENT_ANLZ_RESUME"))
        BY <1>1, <1>3, <2>2, <3>2, AppendApart DEF ThenPost
      <3> QED BY <2>1, <3>1, <3>2
    <2> QED BY <1>1, <1>2, <1>6, <2>1, <2>3 DEF open
  <1>14. CASE TakeDcFile
    <2>1. Take("dcfile") /\ Keep /\ UNCHANGED <<mAnlz, failed>> BY <1>14 DEF TakeDcFile
    <2>2. Flat(mpScript')
      <3>1. "dc" \in Line \ {"script"} BY Kinds
      <3> QED BY <1>1, <1>14, <3>1, DcLines DEF Flat
    <2>3. open = TRUE /\ Apart(t, mAnlz, open) BY <1>5, <2>1
    <2>4. mpScript'.open = TRUE BY <1>14, <2>3 DEF TakeDcFile, open
    <2>5. queue' = t BY <2>1 DEF Keep
    <2> QED BY <1>2, <1>6, <2>1, <2>2, <2>3, <2>4, <2>5
  <1>15. CASE TakeScript
    <2>1. Take("script") BY <1>15 DEF TakeScript
    <2> QED BY <1>5, <2>1
  <1> QED
    BY <1>7, <1>8, <1>9, <1>10, <1>11, <1>12, <1>13, <1>14, <1>15 DEF TakeEvent

LEMMA ApartProcessKeeps == TypeOK /\ ApartInv /\ Process => ApartInv'
  <1> SUFFICES ASSUME TypeOK, ApartInv, Process PROVE ApartInv'
    OBVIOUS
  <1>1. /\ UNCHANGED <<queue, mpScript>> /\ core = "process"
        /\ failed' \notin {"script", "decompiler"}
    BY DEF Process, ProcessBin, ProcessPost, ProcessDc, AtProcess, Running
  <1>2. mAnlz \in Seq(Analyzer) /\ mAnlz # <<>> /\ analyzer \in Analyzer
    BY <1>1, TopAnalyzer DEF TypeOK
  <1>3. ASSUME NoDc(mAnlz) PROVE NoDc(mAnlz')
    <2>1. ~decompilerOnTop /\ \A a : a.kind = analyzer.kind => NoDc(withTop(a))
      BY <1>2, <1>3, NoDcOnTop
    <2>2. \A n : [analyzer EXCEPT !.left = n].kind = analyzer.kind BY <1>2 DEF Analyzer
    <2>3. CASE ProcessBin
      <3>1. mAnlz' = mAnlz \/ \E n : mAnlz' = withTop([analyzer EXCEPT !.left = n])
        BY <2>3 DEF ProcessBin
      <3> QED BY <1>3, <2>1, <2>2, <3>1
    <2>4. CASE ProcessPost
      <3>1. CASE analyzer.left = 0
        BY <1>3, <2>4, <3>1 DEF ProcessPost
      <3>2. CASE analyzer.left # 0
        <4>1. PICK k \in 0 .. work, done \in BOOLEAN :
                 mAnlz' = withTasks(withTop([analyzer EXCEPT !.left = IF done THEN @ - 1 ELSE @]), k)
          BY <2>4, <3>2 DEF ProcessPost
        <4> DEFINE n == IF done THEN analyzer.left - 1 ELSE analyzer.left
                   s == withTop([analyzer EXCEPT !.left = n])
        <4>2. k \in Nat /\ analyzer.left \in 0 .. MaxTasks
          BY <1>2, <4>1 DEF TypeOK, Analyzer
        <4>3. n \in 0 .. MaxTasks BY <3>2, <4>2, Bounds
        <4>4. mAnlz' = withTasks(s, k) BY <4>1
        <4>5. NoDc(s) /\ s \in Seq(Analyzer)
          BY <1>2, <2>1, <2>2, <4>3, TopAnalyzer, Touched
        <4> HIDE DEF s
        <4> QED BY <4>2, <4>4, <4>5, NoDcKept
      <3> QED BY <3>1, <3>2
    <2>5. ~ProcessDc BY <1>2, <2>1 DEF ProcessDc, AtProcess, decompilerOnTop
    <2> QED BY <2>3, <2>4, <2>5 DEF Process
  <1>4. Apart(queue, mAnlz', mpScript.open) BY <1>3, ApartElsewhere DEF ApartInv
  <1> QED BY <1>1, <1>4 DEF ApartInv

LEMMA ApartIdleKeeps == TypeOK /\ ApartInv /\ OnIdle => ApartInv'
  <1> SUFFICES ASSUME TypeOK, ApartInv, OnIdle PROVE ApartInv'
    OBVIOUS
  <1> DEFINE p == event("EVENT_ANLZ_PROCESS")
             Flat(script) ==
                \A i \in DOMAIN script.lines : script.lines[i].id \in Line \ {"script"}
  <1>1. /\ Flat(mpScript) /\ mpScript.open \in BOOLEAN /\ TypeOK'
        /\ mpScript'.open \in BOOLEAN
    BY IdleKeeps DEF ApartInv, TypeOK
  <1>2. failed' \notin {"script", "decompiler"}
    BY DEF OnIdle, IdleFinished, IdleAbort, IdlePause, IdleProceed, IdleNoAnalyzer, Announce,
           AtIdle, Running
  <1>3. ASSUME Flat(mpScript'), Apart(queue', mAnlz', mpScript'.open) PROVE ApartInv'
    BY <1>2, <1>3 DEF ApartInv
  <1> HIDE DEF Flat, p
  <1>4. ASSUME queue' \in {<<>>, <<p>>}, Flat(mpScript') PROVE ApartInv'
    BY <1>1, <1>3, <1>4, PostedApart DEF p
  <1>5. ASSUME NEW script \in {mpScript, NoScript}, NEW posted \in {<<>>, <<p>>},
               CheckScript(script, posted), mAnlz' = <<>>
        PROVE  ApartInv'
    <2>1. /\ Flat(mpScript')
          /\ \/ queue' = posted
             \/ /\ mpScript'.open = TRUE
                /\ \E e \in Event : e.id \in Line \ {"script"} /\ queue' = Append(posted, e)
      BY <1>1, <1>5, ScriptLines DEF Flat
    <2>2. CASE queue' = posted
      BY <1>4, <1>5, <2>1, <2>2
    <2>3. CASE /\ mpScript'.open = TRUE
               /\ \E e \in Event : e.id \in Line \ {"script"} /\ queue' = Append(posted, e)
      BY <1>3, <1>5, <2>1, <2>3, PostedApart DEF p
    <2> QED BY <2>1, <2>2, <2>3
  <1>6. CASE IdleFinished
    <2>1. CASE popAnalizer # <<>>
      BY <1>1, <1>4, <1>6, <2>1 DEF IdleFinished, p
    <2>2. CASE popAnalizer = <<>>
      BY <1>5, <1>6, <2>2 DEF IdleFinished, p
    <2> QED BY <2>1, <2>2
  <1>7. CASE IdleAbort
    BY <1>5, <1>7 DEF IdleAbort
  <1>8. CASE IdlePause \/ IdleProceed
    BY <1>1, <1>4, <1>8 DEF IdlePause, IdleProceed, AtIdle, p
  <1>9. CASE IdleNoAnalyzer
    <2>1. mAnlz' = <<>> BY <1>9 DEF IdleNoAnalyzer, hasAnalyzer, TypeOK
    <2> QED BY <1>5, <1>9, <2>1 DEF IdleNoAnalyzer
  <1>10. CASE Announce
    <2>1. UNCHANGED <<queue, mAnlz, mpScript>> BY <1>10 DEF Announce
    <2> QED BY <1>1, <1>3, <2>1 DEF ApartInv
  <1> QED BY <1>6, <1>7, <1>8, <1>9, <1>10 DEF OnIdle

LEMMA ApartClickKeeps == TypeOK /\ ApartInv /\ ClickSetsFlag => ApartInv'
  <1> SUFFICES ASSUME TypeOK, ApartInv, ClickSetsFlag PROVE ApartInv'
    OBVIOUS
  <1> DEFINE r == event("EVENT_ANLZ_RESUME")
  <1>1. r \in Event /\ r.id = "EVENT_ANLZ_RESUME" /\ r.id \notin Formats
    BY EventsAreEvents DEF event, Formats
  <1>2. queue \in Seq(Event) /\ mpScript.open \in BOOLEAN BY DEF TypeOK
  <1>3. CASE hasAnalyzer
    <2>1. /\ mAnlz' = withTop([analyzer EXCEPT !.stopFlag = click])
          /\ queue' = Append(queue, r) /\ UNCHANGED <<failed, mpScript>>
      BY <1>3 DEF ClickSetsFlag
    <2>2. mAnlz # <<>> /\ analyzer \in Analyzer BY <1>3, TopAnalyzer DEF hasAnalyzer
    <2>3. [analyzer EXCEPT !.stopFlag = click].kind = analyzer.kind BY <2>2 DEF Analyzer
    <2>4. NoDc(mAnlz) => NoDc(mAnlz') BY <2>1, <2>2, <2>3, NoDcOnTop
    <2> HIDE DEF r
    <2>5. Apart(queue, mAnlz', mpScript.open) BY <2>4, ApartElsewhere DEF ApartInv
    <2>6. Apart(queue', mAnlz', mpScript.open) BY <1>1, <1>2, <2>1, <2>5, AppendApart
    <2> QED BY <2>1, <2>6 DEF ApartInv
  <1>4. CASE ~hasAnalyzer
    <2>1. /\ UNCHANGED <<mAnlz, queue, mpScript>>
          /\ failed' \in {"analyzer", "project"}
      BY <1>4 DEF ClickSetsFlag
    <2> QED BY <2>1 DEF ApartInv
  <1> QED BY <1>3, <1>4

LEMMA ApartAlways == FlatRequests => (Spec => [](inputs.commands = 0 => ApartInv))
  <1> SUFFICES ASSUME FlatRequests PROVE Spec => [](inputs.commands = 0 => ApartInv)
    OBVIOUS
  <1> DEFINE Inv == inputs.commands = 0 => ApartInv
  <1>1. TypeOK /\ Inv /\ [Next]_vars => Inv'
    <2> SUFFICES ASSUME TypeOK, Inv, [Next]_vars, inputs'.commands = 0 PROVE ApartInv'
      OBVIOUS
    <2>1. CASE TakeEvent \/ Process \/ OnIdle
      BY <2>1, CoreCountsNothing, ApartTakeKeeps, ApartProcessKeeps, ApartIdleKeeps
    <2>2. CASE ClickSetsFlag
      BY <2>2, ApartClickKeeps DEF ClickSetsFlag
    <2>3. ~PostCommand BY InputsAreNumbers DEF PostCommand
    <2>4. CASE Receive \/ Click \/ ToggleDebugMode \/ UNCHANGED vars
      <3>1. UNCHANGED <<queue, mAnlz, mpScript, failed>> /\ inputs.commands = 0
        <4>1. CASE Receive
          BY <4>1 DEF Receive, coreVars
        <4>2. CASE Click \/ ToggleDebugMode
          BY <4>2, InputsAreNumbers DEF Click, ToggleDebugMode, coreVars
        <4>3. CASE UNCHANGED vars
          BY <4>3 DEF vars, coreVars, guiVars
        <4> QED BY <2>4, <4>1, <4>2, <4>3
      <3> QED BY <3>1 DEF ApartInv
    <2> QED BY <2>1, <2>2, <2>3, <2>4 DEF Next, User
  <1>2. Init => Inv BY ApartInit
  <1> QED BY <1>1, <1>2, TypeCorrect, PTL DEF Spec

(***************************************************************************)
(* With or without a GUI, with any scripts whose lines neither run a       *)
(* script nor ask for formatting, any command line that names at most one  *)
(* script, and a user who may type any command and click at any time: each *)
(* assert of the core thread that can fail does so only on account of the  *)
(* kind of interference that AssertsNeedUser names.  In particular the     *)
(* step mode alone, switched at any time, makes none fail.                 *)
(***************************************************************************)
THEOREM AssertsFailByUsersOnly ==
  FlatRequests /\ Typing => (Spec => []AssertsNeedUser)
  <1> SUFFICES ASSUME FlatRequests, Typing PROVE Spec => []AssertsNeedUser
    OBVIOUS
  <1>1. /\ TypeOK /\ Unclicked /\ (Unattended => SafeInv) /\ (Sparing => OrderlyInv)
        /\ (inputs.commands = 0 => ApartInv)
        => AssertsNeedUser
    <2> SUFFICES ASSUME TypeOK, Unclicked, Unattended => SafeInv, Sparing => OrderlyInv,
                        inputs.commands = 0 => ApartInv
                 PROVE  AssertsNeedUser
      OBVIOUS
    <2>1. inputs.commands \in Nat /\ inputs.clicks \in Nat BY InputsAreNumbers
    <2>2. failed = "process" => inputs.commands + inputs.clicks > 0
      BY <2>1 DEF SafeInv, Unattended
    <2>3. failed = "project" => inputs.clicks > 0 \/ inputs.commands > 1
      BY <2>1 DEF OrderlyInv, Sparing
    <2>4. failed = "analyzer" => inputs.clicks > 0
      BY <2>1 DEF Unclicked
    <2>5. failed \in {"script", "decompiler"} => inputs.commands > 0
      BY <2>1 DEF ApartInv
    <2> QED BY <2>2, <2>3, <2>4, <2>5 DEF AssertsNeedUser
  <1>2. /\ Spec => [](TypeOK /\ (Unattended => SafeInv))
        /\ Spec => [](Sparing => OrderlyInv)
        /\ Spec => [](inputs.commands = 0 => ApartInv)
        /\ Spec => []Unclicked
    BY SafeAlways, OrderlyAlways, ApartAlways, UnclickedAlways DEF FlatRequests
  <1> QED BY <1>1, <1>2, PTL
=============================================================================
