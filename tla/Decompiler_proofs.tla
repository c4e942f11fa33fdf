------------------------- MODULE Decompiler_proofs --------------------------
(***************************************************************************)
(* The decompiler of one function, for any code, any length of the         *)
(* pipeline and whatever the callee removes. First that the status tells   *)
(* what has been done, for which the steps of a stage are looked at only   *)
(* for what they do to the status. Then that the body stays in order while *)
(* it is generated, split, rolled back and cleaned, that only code the     *)
(* function can reach gets into it, and that none is missing when it is    *)
(* handed on.                                                              *)
(***************************************************************************)
EXTENDS Decompiler, PathTree_proofs

(* The status is one of those there are and fits the stage.                *)
Life ==
    /\ active \in BOOLEAN
    /\ stage \in 1 .. Stages + 1
    /\ status \in {Undefined, Finished, Phase0, Phase1, Phase2, Error}
    /\ StatusFits

LEMMA PipelineLength == Stages \in Nat /\ Stages > 1
  BY StagesAssumption DEF StagesAssumption

(* The flag never goes down, and only an error is above Phase2.            *)
LEMMA RaisedStatus ==
  /\ \A s \in {Phase0, Phase1, Phase2} : Raised(s, Phase2) = Phase2
  /\ \A s \in {Undefined, Finished} : Raised(s, Phase1) = Phase1
  /\ \A s \in {Undefined, Finished, Phase0, Phase1, Phase2, Error} : Raised(s, Error) = Error
  /\ \A s \in {Finished, Error} : Raised(s, Finished) = s
  /\ Raised(Error, Phase1) = Error
  BY DEF Raised, Undefined, Finished, Phase0, Phase1, Phase2, Error

(* The status within the first stage: it stays, or an error is found.      *)
Stays == UNCHANGED <<active, stage>> /\ status' \in {status, Error}

LEMMA WithinKeeps ==
  ASSUME Life, active, stage = 1, Stays
  PROVE  Life'
  BY DEF Life, StatusFits, Stays

LEMMA ReturnIsWithin ==
  ASSUME NEW o, NEW in, AtReturn(o, in)
  PROVE  status' \in {status, Error}
  BY DEF AtReturn

(* The end of a stage that did not fail.                                   *)
LEMMA StageDoneKeeps ==
  ASSUME Life, active, stage \in 1 .. Stages - 1, active' = active, StageDone(status)
  PROVE  Life'
  <1>1. stage + 1 \in 2 .. Stages /\ Stages + 1 \in 1 .. Stages + 1 /\ Stages + 1 \notin 2 .. Stages
    BY PipelineLength
  <1>2. CASE status = Error
    BY <1>1, <1>2, PipelineLength DEF Life, StatusFits, StageDone
  <1>3. CASE status # Error
    <2>1. status' = Phase2
      <3>1. CASE stage = 1
        BY <1>3, <3>1, RaisedStatus DEF Life, StatusFits, StageDone
      <3>2. CASE stage # 1
        <4>1. stage \in 2 .. Stages BY <3>2, PipelineLength
        <4>2. status = Phase2 BY <4>1, <3>2 DEF Life, StatusFits
        <4> QED BY <1>3, <3>2, <4>2 DEF StageDone
      <3> QED BY <3>1, <3>2
    <2>2. stage' = stage + 1 BY <1>3 DEF StageDone
    <2> QED BY <1>1, <2>1, <2>2, PipelineLength DEF Life, StatusFits
  <1> QED BY <1>2, <1>3

LEMMA CloseKeeps ==
  ASSUME Life, Close
  PROVE  Life' /\ active' = FALSE
  <1>1. active' = FALSE /\ stage' = Stages + 1 BY DEF Close
  <1>2. status' \in {Finished, Error}
    BY RaisedStatus DEF Life, Close
  <1>3. active' \in BOOLEAN /\ stage' \in 1 .. Stages + 1
    <2>1. Stages + 1 \in 1 .. Stages + 1 BY PipelineLength
    <2> QED BY <1>1, <2>1
  <1>4. StatusFits' BY <1>1, <1>2 DEF StatusFits
  <1>5. status' \in {Undefined, Finished, Phase0, Phase1, Phase2, Error} BY <1>2
  <1> QED BY <1>1, <1>3, <1>4, <1>5 DEF Life

(* What a step of the stages does to the status.                           *)
LEMMA GenerationIsWithin ==
  ASSUME StartTask \/ RunInto \/ CallUnknown \/ Straight \/ Jump \/ Return \/ Drop \/ Analyze
  PROVE  active /\ stage = 1 /\ Stays
  <1>1. CASE StartTask BY <1>1 DEF StartTask, Generating, Stays, lifeVars, funcVars
  <1>2. CASE RunInto BY <1>2 DEF RunInto, Generating, Stays, lifeVars
  <1>3. CASE CallUnknown BY <1>3 DEF CallUnknown, Generating, Stays, funcVars
  <1>4. CASE Straight BY <1>4 DEF Straight, Generating, Stays, lifeVars, funcVars
  <1>5. CASE Jump BY <1>5 DEF Jump, Generating, Stays, lifeVars, funcVars
  <1>6. CASE Return BY <1>6, ReturnIsWithin DEF Return, Generating, Stays, lifeVars
  <1>7. CASE Drop BY <1>7 DEF Drop, Analyzing, Stays, lifeVars
  <1>8. CASE Analyze BY <1>8, ReturnIsWithin DEF Analyze, Analyzing, Stays, funcVars
  <1> QED BY <1>1, <1>2, <1>3, <1>4, <1>5, <1>6, <1>7, <1>8

LEMMA InitLife == Init => Life
  <1> SUFFICES ASSUME Init PROVE Life
    OBVIOUS
  <1>1. active = FALSE /\ stage = Stages + 1 /\ status = Undefined BY DEF Init
  <1>2. body.root = FALSE BY DEF Init, EmptyBody
  <1>3. active \in BOOLEAN /\ stage \in 1 .. Stages + 1
    <2>1. Stages + 1 \in 1 .. Stages + 1 BY PipelineLength
    <2> QED BY <1>1, <2>1
  <1>4. StatusFits BY <1>1, <1>2 DEF StatusFits
  <1> QED BY <1>1, <1>3, <1>4 DEF Life

LEMMA NextLife == Life /\ [Next]_vars => Life'
  <1> SUFFICES ASSUME Life, [Next]_vars PROVE Life'
    OBVIOUS
  <1>1. CASE StartTask \/ RunInto \/ CallUnknown \/ Straight \/ Jump \/ Return \/ Drop \/ Analyze
    BY <1>1, GenerationIsWithin, WithinKeeps
  <1>2. CASE GenerateDone
    BY <1>2, StageDoneKeeps, PipelineLength DEF GenerateDone, Generating
  <1>3. CASE FlowDone
    BY <1>3, StageDoneKeeps, PipelineLength DEF FlowDone, Analyzing
  <1>4. CASE LaterStage
    <2>1. active /\ active' = active /\ stage \in 2 .. Stages - 1 BY <1>4 DEF LaterStage
    <2>2. stage \in 2 .. Stages /\ stage # 1 BY <2>1, PipelineLength
    <2>3. status = Phase2 BY <2>1, <2>2 DEF Life, StatusFits
    <2>4. CASE StageDone(status) BY <2>1, <2>4, StageDoneKeeps, PipelineLength
    <2>5. CASE stage' = Stages + 1 /\ status' \in {Error, Phase2}
      BY <2>1, <2>5, PipelineLength DEF Life, StatusFits
    <2>6. StageDone(Error) => stage' = Stages + 1 /\ status' = Error BY DEF StageDone
    <2> QED BY <1>4, <2>3, <2>4, <2>5, <2>6 DEF LaterStage
  <1>5. CASE FinalStage
    <2>1. active' = active /\ active /\ stage' = Stages + 1 /\ status' = Finished
      BY <1>5, PipelineLength DEF FinalStage, StageDone, Finished, Error
    <2> QED BY <2>1, PipelineLength DEF Life, StatusFits
  <1>6. CASE Finish \/ Stop
    BY <1>6, CloseKeeps DEF Finish, Stop
  <1>7. CASE Decompile
    <2>1. ~active /\ active' = TRUE /\ stage' = 1 BY <1>7 DEF Decompile
    <2>2. status' \in {Phase0, Phase1, Error}
      <3>1. CASE body.root BY <1>7, <3>1 DEF Decompile
      <3>2. CASE ~body.root
        <4>1. status \in {Undefined, Finished, Error} BY <2>1, <3>2 DEF Life, StatusFits
        <4>2. status' = Raised(status, Phase1) BY <1>7, <3>2 DEF Decompile
        <4> QED BY <4>1, <4>2, RaisedStatus
      <3> QED BY <3>1, <3>2
    <2> QED BY <2>1, <2>2, PipelineLength DEF Life, StatusFits
  <1>8. CASE Purge
    <2>1. ~active /\ body.root /\ UNCHANGED <<active, stage>> /\ status' = Raised(status, Finished)
      BY <1>8 DEF Purge, lifeVars
    <2>2. status \in {Finished, Error} BY <2>1 DEF Life, StatusFits
    <2> QED BY <2>1, <2>2, RaisedStatus DEF Life, StatusFits
  <1>9. CASE SupplyStub \/ Resume \/ UNCHANGED vars
    BY <1>9 DEF SupplyStub, Resume, vars, lifeVars, funcVars, Life, StatusFits
  <1> QED
    BY <1>1, <1>2, <1>3, <1>4, <1>5, <1>6, <1>7, <1>8, <1>9
    DEF Next, Core, User, Generation, Analysis

LEMMA AlwaysLife == Spec => []Life
  BY InitLife, NextLife, PTL DEF Spec

(* The status fits what was done (ana_main.cpp: runOnce, the destructors   *)
(* of the first stage and of the decompiler), for any code and however     *)
(* many stages there are.                                                  *)
THEOREM StatusAlwaysFits == Spec => []StatusFits
  <1>1. Life => StatusFits BY DEF Life
  <1> QED BY <1>1, AlwaysLife, PTL

(* SetFuncStatus never lowers a status, but SetFuncStatusFinished does: no *)
(* decompiler that has found an error gets that far.                       *)
LEMMA ErrorStays ==
  ASSUME Life, [Next]_vars, active, active', status = Error
  PROVE  status' = Error
  <1>1. CASE StartTask \/ RunInto \/ CallUnknown \/ Straight \/ Jump \/ Return \/ Drop \/ Analyze
    BY <1>1, GenerationIsWithin DEF Stays
  <1>2. CASE GenerateDone \/ FlowDone
    BY <1>2 DEF GenerateDone, FlowDone, StageDone
  <1>3. CASE LaterStage \/ FinalStage
    <2>1. stage \in 2 .. Stages BY <1>3, PipelineLength DEF LaterStage, FinalStage
    <2>2. status = Phase2 BY <2>1, PipelineLength DEF Life, StatusFits
    <2> QED BY <2>2 DEF Phase2, Error
  <1>4. CASE Finish \/ Stop
    BY <1>4, CloseKeeps DEF Finish, Stop
  <1>5. CASE Decompile \/ Purge
    BY <1>5 DEF Decompile, Purge
  <1>6. CASE SupplyStub \/ Resume \/ UNCHANGED vars
    BY <1>6 DEF SupplyStub, Resume, vars, funcVars
  <1> QED
    BY <1>1, <1>2, <1>3, <1>4, <1>5, <1>6 DEF Next, Core, User, Generation, Analysis

(* An error the decompiler has found (SetFuncStatus(FDEF_DC_ERROR)) stays  *)
(* until it is gone.                                                       *)
THEOREM ErrorsStay == Spec => ErrorIsFinal
  <1>1. Life /\ [Next]_vars => [active /\ active' /\ status = Error => status' = Error]_vars
    BY ErrorStays
  <1> QED BY <1>1, AlwaysLife, PTL DEF Spec, ErrorIsFinal

-----------------------------------------------------------------------------
(* The inductive invariant.                                                *)

Task == [at : Addr, ref : Addr \cup {0}, roll : 0 .. 2]

Way == [path : Addr \cup {Exit, None}, from : Addr \cup {None}]

Typed ==
    /\ code \in Programs
    /\ stub \in Cleanups \cup {None}
    /\ purge \in Int
    /\ redo \in BOOLEAN /\ paused \in BOOLEAN /\ busy \in BOOLEAN /\ cut \in BOOLEAN
    /\ at \in Addr \cup {0}
    /\ tasks \in Seq(Task)
    /\ flow \in Seq(Way)
    /\ resume \in Op \cup {NoOp}
    /\ redone \subseteq Addr
    /\ body \in Body

(* A task for a call that could not be generated: its operations go first. *)
Rolls(t) == t # <<>> /\ Head(t).roll > 0

(* The instructions in a body, those to be removed again left out.         *)
Has(b, t) ==
    {a \in Addr : Last(Parts(a)) \in Contents(b)
                  /\ \A i \in DOMAIN t : t[i].roll > 0 => t[i].at # a}

(* The addresses generation goes on with, x the next one and t what waits. *)
Waits(t, x) == ({t[i].at : i \in 1 .. Len(t)} \cup {x}) \ {0}

(* The code a body leads to.                                               *)
Leading(F) == {a \in Addr : a = 1 \/ \E c \in F : a \in Succ(c)}

(* Nothing reachable is forgotten, and nothing else is waited for.         *)
Covers(b, t, x) ==
    /\ Leading(Has(b, t)) \subseteq Has(b, t) \cup Waits(t, x)
    /\ Waits(t, x) \subseteq Leading(Has(b, t))

(* The operations of the call a task rolls back are the last of the path.  *)
RollsBack(b, c) == b.cur # None /\ b.ops[b.cur] # <<>> /\ Last(b.ops[b.cur]) = <<c, 2>>

(* The current path ends where the next instruction goes; between two      *)
(* tasks, where something is known to begin.                               *)
Rests(b, t, x) ==
    /\ Rolls(t) => RollsBack(b, Head(t).at) /\ code[Head(t).at].kind = "call"
    /\ x # 0 => CurEnds(b, x)
    /\ x = 0 /\ ~Rolls(t) /\ b.cur # None => Closed(b, b.cur)

(* Only the task at hand rolls back, and only before it is begun.          *)
RollsOnce(t, x) ==
    \A i \in 1 .. Len(t) : t[i].roll \in {0, 2} /\ (i > 1 \/ x # 0 => t[i].roll = 0)

(* A body being generated.                                                 *)
Builds(b, t, x) ==
    Tiled(b) /\ Mapped(b) /\ RollsOnce(t, x) /\ Rests(b, t, x) /\ Covers(b, t, x)

(* A body nothing reachable is missing in.                                 *)
Complete(b) == Leading(Has(b, <<>>)) \subseteq Has(b, <<>>)

(* The iterator goes over paths of the tree, and stands in the one to go   *)
(* on with.                                                                *)
WayIn(b) == {w \in Way : w.path \in Range(b.tree) \cup {None}}

Walks(b, s, o) ==
    /\ s \in Seq(WayIn(b))
    /\ o # NoOp => s # <<>> /\ Last(s).path \in Addr \ b.done /\ o \in Range(b.ops[Last(s).path])

Gen == active /\ stage = 1 /\ ~redo
Ana == active /\ stage = 1 /\ redo

Placed ==
    /\ active => body.root
    /\ ~body.root => body = EmptyBody /\ ~cut
    /\ at # 0 => Gen /\ ~paused
    /\ Gen => ~cut
    /\ ~Gen => tasks = <<>>
    /\ resume # NoOp => Ana

InOrder ==
    ~body.broken =>
        /\ IF Gen THEN Builds(body, tasks, at)
           ELSE Tiled(body) /\ (body.root /\ ~cut => Complete(body))
        /\ Ana => Walks(body, flow, resume)

IInv == Typed /\ Placed /\ Life /\ InOrder

-----------------------------------------------------------------------------
(* The steps of the generation.                                            *)

LEMMA CodeIs == code \in Programs => \A a \in Addr : code[a] \in Instr
  <1>1. Programs \subseteq [Addr -> Instr] BY ProgramsAssumption DEF ProgramsAssumption
  <1> QED BY <1>1

LEMMA CleanupIs == stub \in Cleanups \cup {None} => stub \in Int
  BY StagesAssumption, Bounds DEF StagesAssumption

LEMMA StackIsInt ==
  ASSUME code \in Programs, stub \in Cleanups \cup {None}, NEW o \in Op, NEW s \in Int
  PROVE  StackOut(o, s) \in Int
  <1>1. o[1] \in Addr /\ code[o[1]] \in Instr BY OpPair, CodeIs
  <1>2. code[o[1]].by \in Int BY <1>1 DEF Instr
  <1>3. stub \in Int BY CleanupIs
  <1> QED BY <1>2, <1>3 DEF StackOut, IsCall, Kind

LEMMA LevelIsInt ==
  ASSUME code \in Programs, stub \in Cleanups \cup {None}, NEW b \in Body, NEW o \in Op
  PROVE  Level(b, o) \in Int
  <1>1. b.sin[o] \in Int BY DEF Body
  <1> QED BY <1>1, StackIsInt DEF Level

LEMMA PutIs ==
  ASSUME code \in Programs, stub \in Cleanups \cup {None},
         NEW b \in Body, b.cur \in Addr, NEW o \in Op
  PROVE  LET c == Put(b, o)
         IN  /\ c \in Body /\ SameMap(b, c)
             /\ c.ops[b.cur] = Append(b.ops[b.cur], o)
             /\ c.root = b.root /\ c.broken = b.broken
  <1> DEFINE s == Append(b.ops[b.cur], o)
             v == IF b.last = NoOp THEN 0 ELSE Level(b, b.last)
             c == [b EXCEPT !.ops = [b.ops EXCEPT ![b.cur] = s],
                            !.sin = [b.sin EXCEPT ![o] = v], !.last = o]
  <1>1. Put(b, o) = c BY DEF Put, Body
  <1>2. s \in Seq(Op) BY AppendOf, BodyFields
  <1>3. v \in Int
    <2>1. b.last \in Op \cup {NoOp} BY DEF Body
    <2> QED BY <2>1, LevelIsInt
  <1> HIDE DEF s, v
  <1>4. c.ops = [b.ops EXCEPT ![b.cur] = s] /\ c.tree = b.tree /\ c.map = b.map
        /\ c.cur = b.cur /\ c.ref = b.ref /\ c.root = b.root /\ c.broken = b.broken
    BY DEF Body
  <1>5. c \in Body BY <1>2, <1>3 DEF Body
  <1>6. c.ops[b.cur] = s /\ \A q \in Addr \ {b.cur} : c.ops[q] = b.ops[q]
    BY <1>4, BodyFields
  <1> HIDE DEF c
  <1> QED BY <1>1, <1>4, <1>5, <1>6 DEF SameMap, s

(* The operations of the next instruction are put down.                    *)
LEMMA GenerateIs ==
  ASSUME code \in Programs, stub \in Cleanups \cup {None}, NEW a \in Addr,
         NEW b \in Body, b.cur \in Addr
  PROVE  LET p == Put(b, <<a, 1>>)
             c == IF code[a].kind = "call" THEN Put(p, <<a, 2>>) ELSE p
         IN  /\ c \in Body /\ SameMap(b, c)
             /\ c.ops[b.cur] = PathWith(b.ops[b.cur], a)
             /\ c.root = b.root /\ c.broken = b.broken
  <1> DEFINE o == <<a, 1>>
             r == <<a, 2>>
             p == Put(b, o)
             s == b.ops[b.cur]
  <1>1. o \in Op /\ r \in Op BY PartsAreOps
  <1>2. PathWith(s, a) = IF code[a].kind = "call" THEN Append(Append(s, o), r) ELSE Append(s, o)
    BY DEF PathWith
  <1> HIDE DEF o, r
  <1>3. /\ p \in Body /\ SameMap(b, p) /\ p.ops[b.cur] = Append(s, o)
        /\ p.root = b.root /\ p.broken = b.broken
    BY <1>1, PutIs
  <1>4. p.cur = b.cur BY <1>3 DEF SameMap
  <1> DEFINE q == Put(p, r)
  <1>5. /\ q \in Body /\ SameMap(p, q) /\ q.ops[b.cur] = Append(Append(s, o), r)
        /\ q.root = b.root /\ q.broken = b.broken
    <2> HIDE DEF p
    <2>1. p.cur \in Addr BY <1>4
    <2>2. /\ q \in Body /\ SameMap(p, q) /\ q.ops[p.cur] = Append(p.ops[p.cur], r)
          /\ q.root = p.root /\ q.broken = p.broken
      BY <1>1, <1>3, <2>1, PutIs
    <2> QED BY <1>3, <1>4, <2>2
  <1> HIDE DEF p, q
  <1>6. SameMap(b, q) BY <1>3, <1>4, <1>5 DEF SameMap
  <1>7. CASE code[a].kind = "call"
    <2>1. q.ops[b.cur] = PathWith(s, a) BY <1>2, <1>5, <1>7
    <2> QED BY <1>5, <1>6, <1>7, <2>1 DEF p, q, o, r
  <1>8. CASE code[a].kind # "call"
    <2>1. p.ops[b.cur] = PathWith(s, a) BY <1>2, <1>3, <1>8
    <2> QED BY <1>3, <1>8, <2>1 DEF p, o
  <1> QED BY <1>7, <1>8

(* The path an instruction is put in: it ends before the instruction, and  *)
(* no other is known to begin there.                                       *)
Takes(b, c, a) ==
    /\ c \in Body /\ Tiled(c) /\ Mapped(c)
    /\ c.cur \in Addr /\ EndOf(c, c.cur) = a /\ c.map[a] \notin Addr \ {c.cur}
    /\ Contents(c) = Contents(b) /\ c.root = b.root /\ c.broken = b.broken

LEMMA RegisteredIs ==
  ASSUME body \in Body, Tiled(body), Mapped(body), at \in Addr, CurEnds(body, at)
  PROVE  LET r == Registered
         IN  /\ r \in Body /\ Tiled(r) /\ Mapped(r) /\ CurEnds(r, at)
             /\ r.root = body.root /\ r.broken = body.broken
             /\ Contents(r) = Contents(body)
             /\ r.cur = None => at \in Paths(r)
  <1>1. CASE body.cur = None
    <2> DEFINE r == AssurePathBeginsAt(body, at, at)
    <2>1. Registers(body, at, r) BY <1>1, AssureKeeps DEF CurEnds
    <2>2. Registered = r BY <1>1 DEF Registered
    <2> HIDE DEF r
    <2>3. r.cur = None BY <1>1, <2>1 DEF Registers, SameEnd
    <2> QED BY <2>1, <2>2, <2>3 DEF Registers, SameRest, CurEnds
  <1>2. CASE body.cur # None
    BY <1>2 DEF Registered
  <1> QED BY <1>1, <1>2

LEMMA EnteredIs ==
  ASSUME body \in Body, Tiled(body), Mapped(body), at \in Addr, CurEnds(body, at), ~IsProcessed
  PROVE  Takes(body, Entered, at)
  <1> DEFINE r == Registered
  <1>1. /\ r \in Body /\ Tiled(r) /\ Mapped(r) /\ CurEnds(r, at)
        /\ r.root = body.root /\ r.broken = body.broken
        /\ Contents(r) = Contents(body)
        /\ r.cur = None => at \in Paths(r)
    BY RegisteredIs
  <1>2. Entered = IF NewPath(r)
                  THEN [r EXCEPT !.cur = r.map[at], !.done = r.done \cup {r.map[at]}]
                  ELSE r
    <2>1. r.done = r.done OBVIOUS
    <2> QED BY <1>1 DEF Entered, Body
  <1>3. ~(NewPath(r) /\ OpsOf(r, r.map[at]) # <<>>) BY DEF IsProcessed
  <1> HIDE DEF r
  <1>4. r.cur \in Paths(r) \cup {None} BY <1>1 DEF Mapped
  <1>5. CASE NewPath(r)
    <2> DEFINE c == [r EXCEPT !.cur = r.map[at], !.done = r.done \cup {r.map[at]}]
    <2>1. r.map[at] = at /\ at \in Paths(r)
      BY <1>1, <1>5, Bounds DEF Mapped, NewPath
    <2>2. r.ops[at] = <<>> BY <1>1, <1>3, <1>5, <2>1, BodyFields
    <2>3. /\ c \in Body /\ c.cur = at /\ c.tree = r.tree /\ c.ops = r.ops /\ c.ref = r.ref
          /\ c.map = r.map /\ c.root = r.root /\ c.broken = r.broken
      BY <1>1, <2>1 DEF Body
    <2> HIDE DEF c
    <2>4. r.cur # None => Closed(r, r.cur)
      BY <1>1, <2>1, Bounds DEF CurEnds, Closed
    <2>5. Tiled(c) /\ Mapped(c) /\ Contents(c) = Contents(r)
      BY <1>1, <2>1, <2>2, <2>3, <2>4, TurnKeeps
    <2>6. EndOf(c, at) = at BY <2>2, <2>3 DEF EndOf
    <2>7. Entered = c BY <1>2, <1>5 DEF c
    <2> QED BY <1>1, <2>1, <2>3, <2>5, <2>6, <2>7 DEF Takes
  <1>6. CASE ~NewPath(r)
    <2>1. r.cur # None
      <3> SUFFICES ASSUME r.cur = None PROVE FALSE
        OBVIOUS
      <3>1. r.map[at] = at BY <1>1 DEF Mapped
      <3> QED BY <1>6, <3>1, Bounds DEF NewPath
    <2>2. r.cur \in Addr BY <1>1, <1>4, <2>1, BodyFields
    <2>3. r.map[at] \notin Addr \ {r.cur} BY <1>6 DEF NewPath
    <2> QED BY <1>1, <1>2, <1>6, <2>1, <2>2, <2>3 DEF Takes, CurEnds
  <1> QED BY <1>5, <1>6

LEMMA GenerateKeeps ==
  ASSUME Typed, at \in Addr, Takes(body, Entered, at)
  PROVE  LET c == Generate
         IN  /\ c \in Body /\ Tiled(c) /\ Mapped(c)
             /\ c.cur \in Addr /\ c.ops[c.cur] # <<>> /\ EndOf(c, c.cur) = at + 1
             /\ Last(c.ops[c.cur]) = Last(Parts(at))
             /\ Contents(c) = Contents(body) \cup Range(Parts(at))
             /\ c.root = body.root /\ c.broken = body.broken
  <1> DEFINE e == Entered
             p == Put(e, <<at, 1>>)
             c == IF code[at].kind = "call" THEN Put(p, <<at, 2>>) ELSE p
  <1>1. Generate = c BY DEF Generate
  <1>2. /\ e \in Body /\ Tiled(e) /\ Mapped(e)
        /\ e.cur \in Addr /\ EndOf(e, e.cur) = at /\ e.map[at] \notin Addr \ {e.cur}
        /\ Contents(e) = Contents(body) /\ e.root = body.root /\ e.broken = body.broken
    BY DEF Takes
  <1>3. code \in Programs /\ stub \in Cleanups \cup {None} BY DEF Typed
  <1>4. e.cur # None BY <1>2, Bounds
  <1> HIDE DEF e
  <1>5. /\ c \in Body /\ SameMap(e, c) /\ c.ops[e.cur] = PathWith(e.ops[e.cur], at)
        /\ c.root = e.root /\ c.broken = e.broken
    BY <1>2, <1>3, GenerateIs
  <1> HIDE DEF c
  <1>6. /\ Tiled(c) /\ Mapped(c) /\ Paths(c) = Paths(e)
        /\ c.cur # None /\ c.ops[c.cur] # <<>> /\ EndOf(c, c.cur) = at + 1
        /\ Last(c.ops[c.cur]) = Last(Parts(at))
        /\ Contents(c) = Contents(e) \cup Range(Parts(at))
    BY <1>2, <1>4, <1>5, GrowKeeps
  <1>7. c.cur \in Addr BY <1>2, <1>5 DEF SameMap
  <1> QED BY <1>1, <1>2, <1>5, <1>6, <1>7

LEMMA InWaits ==
  ASSUME NEW t, NEW y
  PROVE  y \in Waits(t, 0) <=> y # 0 /\ \E i \in 1 .. Len(t) : t[i].at = y
  BY DEF Waits

(* What waits, with a task more or less.                                   *)
LEMMA WaitsFor ==
  ASSUME NEW t \in Seq(Task), NEW x \in Addr \cup {0}
  PROVE  /\ Waits(t, x) = Waits(t, 0) \cup ({x} \ {0})
         /\ Waits(t, x) \subseteq Addr
         /\ t # <<>> => Waits(t, 0) = Waits(Tail(t), 0) \cup {Head(t).at}
         /\ \A k \in Task : /\ Waits(Append(t, k), 0) = Waits(t, 0) \cup {k.at}
                            /\ Waits(<<k>> \o t, 0) = Waits(t, 0) \cup {k.at}
  <1>1. \A i \in 1 .. Len(t) : t[i] \in Task /\ t[i].at \in Addr
    <2>1. \A i \in 1 .. Len(t) : t[i] \in Task OBVIOUS
    <2> QED BY <2>1 DEF Task
  <1>2. Waits(t, x) = Waits(t, 0) \cup ({x} \ {0}) BY DEF Waits
  <1>3. Waits(t, x) \subseteq Addr BY <1>1 DEF Waits
  <1>4. ASSUME t # <<>> PROVE Waits(t, 0) = Waits(Tail(t), 0) \cup {Head(t).at}
    <2>1. Len(t) \in Nat \ {0} BY <1>4
    <2>2. Head(t) = t[1] /\ Len(Tail(t)) = Len(t) - 1
          /\ \A i \in 1 .. Len(t) - 1 : Tail(t)[i] = t[i + 1]
      BY <1>4
    <2>3. t[1].at # 0
      <3>1. 1 \in 1 .. Len(t) BY <2>1
      <3>2. t[1].at \in Addr BY <1>1, <3>1
      <3> QED BY <3>2, Bounds
    <2>4. ASSUME NEW i \in 1 .. Len(t)
          PROVE  i = 1 \/ \E j \in 1 .. Len(Tail(t)) : Tail(t)[j] = t[i]
      <3>1. CASE i # 1
        <4>1. i - 1 \in 1 .. Len(t) - 1 /\ (i - 1) + 1 = i BY <2>1, <3>1
        <4> QED BY <2>2, <4>1
      <3> QED BY <3>1
    <2>5. ASSUME NEW j \in 1 .. Len(Tail(t)) PROVE \E i \in 1 .. Len(t) : Tail(t)[j] = t[i]
      <3>1. j \in 1 .. Len(t) - 1 /\ j + 1 \in 1 .. Len(t) BY <2>1, <2>2
      <3> QED BY <2>2, <3>1
    <2>6. 1 \in 1 .. Len(t) BY <2>1
    <2>7. ASSUME NEW y PROVE y \in Waits(t, 0) <=> y \in Waits(Tail(t), 0) \cup {t[1].at}
      <3>1. y \in Waits(t, 0) <=> y # 0 /\ \E i \in 1 .. Len(t) : t[i].at = y BY InWaits
      <3>2. y \in Waits(Tail(t), 0) <=> y # 0 /\ \E j \in 1 .. Len(Tail(t)) : Tail(t)[j].at = y
        BY InWaits
      <3> QED BY <2>3, <2>4, <2>5, <2>6, <3>1, <3>2
    <2> QED BY <2>2, <2>7
  <1>5. ASSUME NEW k \in Task
        PROVE  /\ Waits(Append(t, k), 0) = Waits(t, 0) \cup {k.at}
               /\ Waits(<<k>> \o t, 0) = Waits(t, 0) \cup {k.at}
    <2>1. k.at \in Addr /\ k.at # 0 BY Bounds DEF Task
    <2>2. Waits(Append(t, k), 0) = Waits(t, 0) \cup {k.at}
      <3> DEFINE u == Append(t, k)
      <3>1. /\ Len(u) = Len(t) + 1 /\ u[Len(t) + 1] = k
            /\ \A i \in 1 .. Len(t) : u[i] = t[i]
        BY AppendOf
      <3> HIDE DEF u
      <3>2. \A i \in 1 .. Len(u) : i = Len(t) + 1 \/ i \in 1 .. Len(t) BY <3>1
      <3>3. Len(t) + 1 \in 1 .. Len(u) /\ 1 .. Len(t) \subseteq 1 .. Len(u) BY <3>1
      <3>4. Waits(u, 0) = Waits(t, 0) \cup {k.at} BY <2>1, <3>1, <3>2, <3>3 DEF Waits
      <3> QED BY <3>4 DEF u
    <2>3. Waits(<<k>> \o t, 0) = Waits(t, 0) \cup {k.at}
      <3> DEFINE u == <<k>> \o t
      <3>1. <<k>> \in Seq(Task) /\ Len(<<k>>) = 1 /\ <<k>>[1] = k OBVIOUS
      <3>2. Len(u) = Len(t) + 1 /\ u[1] = k /\ \A i \in 1 .. Len(t) : u[i + 1] = t[i]
        BY <3>1
      <3> HIDE DEF u
      <3>3. ASSUME NEW i \in 1 .. Len(u) PROVE i = 1 \/ \E j \in 1 .. Len(t) : u[i] = t[j]
        <4>1. CASE i # 1
          <5>1. i - 1 \in 1 .. Len(t) /\ (i - 1) + 1 = i BY <3>2, <4>1
          <5> QED BY <3>2, <5>1
        <4> QED BY <4>1
      <3>4. 1 \in 1 .. Len(u) /\ \A j \in 1 .. Len(t) : j + 1 \in 1 .. Len(u) BY <3>2
      <3>5. ASSUME NEW y PROVE y \in Waits(u, 0) <=> y \in Waits(t, 0) \cup {k.at}
        <4>1. y \in Waits(u, 0) <=> y # 0 /\ \E i \in 1 .. Len(u) : u[i].at = y BY InWaits
        <4>2. y \in Waits(t, 0) <=> y # 0 /\ \E j \in 1 .. Len(t) : t[j].at = y BY InWaits
        <4>3. (\E i \in 1 .. Len(u) : u[i].at = y)
              <=> k.at = y \/ \E j \in 1 .. Len(t) : t[j].at = y
          BY <3>2, <3>3, <3>4
        <4> QED BY <2>1, <4>1, <4>2, <4>3
      <3>6. Waits(u, 0) = Waits(t, 0) \cup {k.at} BY <3>5
      <3> QED BY <3>6 DEF u
    <2> QED BY <2>2, <2>3
  <1> QED BY <1>2, <1>3, <1>4, <1>5

(* Nothing is to be rolled back.                                           *)
NoRoll(t) == \A i \in 1 .. Len(t) : t[i].roll = 0

LEMMA NothingRolls ==
  ASSUME NEW t \in Seq(Task), NEW x, RollsOnce(t, x), x # 0 \/ ~Rolls(t)
  PROVE  NoRoll(t)
  <1> SUFFICES ASSUME NEW i \in 1 .. Len(t) PROVE t[i].roll = 0
    BY DEF NoRoll
  <1>1. t[i].roll \in {0, 2} /\ (i > 1 \/ x # 0 => t[i].roll = 0) BY DEF RollsOnce
  <1>2. CASE x # 0 \/ i > 1 BY <1>1, <1>2
  <1>3. CASE ~Rolls(t) /\ i = 1
    <2>1. t # <<>> /\ Head(t) = t[1] OBVIOUS
    <2> QED BY <1>1, <1>3, <2>1 DEF Rolls
  <1> QED BY <1>2, <1>3

LEMMA NoRollMore ==
  ASSUME NEW t \in Seq(Task), NoRoll(t)
  PROVE  /\ \A x : RollsOnce(t, x)
         /\ ~Rolls(t)
         /\ \A k \in Task : k.roll = 0 => Append(t, k) \in Seq(Task) /\ NoRoll(Append(t, k))
  <1>1. \A x : RollsOnce(t, x) BY DEF NoRoll, RollsOnce
  <1>2. ~Rolls(t)
    <2>1. CASE t # <<>>
      <3>1. 1 \in 1 .. Len(t) /\ Head(t) = t[1] BY <2>1
      <3> QED BY <3>1 DEF NoRoll, Rolls
    <2> QED BY <2>1 DEF Rolls
  <1>3. ASSUME NEW k \in Task, k.roll = 0 PROVE Append(t, k) \in Seq(Task) /\ NoRoll(Append(t, k))
    <2>1. /\ Append(t, k) \in Seq(Task) /\ Len(Append(t, k)) = Len(t) + 1
          /\ Append(t, k)[Len(t) + 1] = k
          /\ \A i \in 1 .. Len(t) : Append(t, k)[i] = t[i]
      BY AppendOf
    <2>2. \A i \in 1 .. Len(Append(t, k)) : i = Len(t) + 1 \/ i \in 1 .. Len(t) BY <2>1
    <2> QED BY <1>3, <2>1, <2>2 DEF NoRoll
  <1> QED BY <1>1, <1>2, <1>3

LEMMA HasWhenNoRoll ==
  ASSUME NEW b, NEW t \in Seq(Task), NoRoll(t)
  PROVE  Has(b, t) = {a \in Addr : Last(Parts(a)) \in Contents(b)}
  <1>1. DOMAIN t = 1 .. Len(t) OBVIOUS
  <1>2. \A i \in DOMAIN t : ~(t[i].roll > 0) BY <1>1 DEF NoRoll
  <1> QED BY <1>2 DEF Has

LEMMA HasMore ==
  ASSUME NEW b, NEW c, NEW t \in Seq(Task), NEW u \in Seq(Task), NoRoll(t), NoRoll(u),
         NEW a \in Addr, Contents(c) = Contents(b) \cup Range(Parts(a))
  PROVE  Has(c, u) = Has(b, t) \cup {a}
  <1>1. Has(c, u) = {x \in Addr : Last(Parts(x)) \in Contents(c)}
        /\ Has(b, t) = {x \in Addr : Last(Parts(x)) \in Contents(b)}
    BY HasWhenNoRoll
  <1>2. \A o \in Range(Parts(a)) : o[1] = a BY DEF Parts, Range
  <1>3. Last(Parts(a)) \in Range(Parts(a))
    <2>1. CASE code[a].kind = "call"
      <3>1. Parts(a) = <<<<a, 1>>, <<a, 2>>>> /\ Last(Parts(a)) = <<a, 2>>
        BY <2>1, LastPart DEF Parts
      <3>2. Range(<<<<a, 1>>, <<a, 2>>>>) = {<<a, 1>>, <<a, 2>>} BY DEF Range
      <3> QED BY <3>1, <3>2
    <2>2. CASE code[a].kind # "call"
      <3>1. Parts(a) = <<<<a, 1>>>> /\ Last(Parts(a)) = <<a, 1>> BY <2>2, LastPart DEF Parts
      <3>2. Range(<<<<a, 1>>>>) = {<<a, 1>>} BY DEF Range
      <3> QED BY <3>1, <3>2
    <2> QED BY <2>1, <2>2
  <1>4. \A x \in Addr : Last(Parts(x))[1] = x BY LastPart
  <1>5. \A x \in Addr : Last(Parts(x)) \in Range(Parts(a)) <=> x = a BY <1>2, <1>3, <1>4
  <1> QED BY <1>1, <1>5

(* A step of the generation: the body is one being generated again, and at *)
(* most one instruction is new in it, one it led to.                       *)
Step(b, t, x) ==
    /\ b \in Body /\ t \in Seq(Task) /\ x \in Addr \cup {0} /\ b.root = body.root
    /\ ~b.broken =>
          /\ Builds(b, t, x)
          /\ \/ Has(b, t) = Has(body, tasks)
             \/ \E a \in Leading(Has(body, tasks)) : Has(b, t) = Has(body, tasks) \cup {a}

(* The instruction at hand is in the body, and where it leads is waited    *)
(* for.                                                                    *)
LEMMA GeneratedStep ==
  ASSUME tasks \in Seq(Task), at \in Addr, Builds(body, tasks, at),
         NEW b \in Body, b.root = body.root,
         NEW t \in Seq(Task), NoRoll(t), NEW x \in Addr \cup {0},
         Waits(tasks, 0) \subseteq Waits(t, x),
         Waits(t, x) \subseteq Waits(tasks, 0) \cup Succ(at),
         Succ(at) \cap Addr \subseteq Waits(t, x),
         ~b.broken => /\ Tiled(b) /\ Mapped(b)
                      /\ Contents(b) = Contents(body) \cup Range(Parts(at))
                      /\ x # 0 => CurEnds(b, x)
                      /\ x = 0 /\ b.cur # None => Closed(b, b.cur)
  PROVE  Step(b, t, x) /\ (~b.broken => Has(b, t) = Has(body, tasks) \cup {at})
  <1> SUFFICES ASSUME ~b.broken
               PROVE  /\ Builds(b, t, x)
                      /\ at \in Leading(Has(body, tasks))
                      /\ Has(b, t) = Has(body, tasks) \cup {at}
    BY DEF Step
  <1> DEFINE F == Has(body, tasks)
             G == Has(b, t)
  <1>1. NoRoll(tasks) BY NothingRolls, Bounds DEF Builds
  <1>2. G = F \cup {at} BY <1>1, HasMore
  <1>3. Leading(F) \subseteq F \cup Waits(tasks, at) /\ Waits(tasks, at) \subseteq Leading(F)
    BY DEF Builds, Covers
  <1>4. at \in Waits(tasks, at) /\ Waits(tasks, at) = Waits(tasks, 0) \cup {at}
    BY WaitsFor, Bounds
  <1>5. Waits(t, x) \subseteq Addr BY WaitsFor
  <1> HIDE DEF F, G
  <1>6. Leading(G) = Leading(F) \cup (Succ(at) \cap Addr) BY <1>2 DEF Leading
  <1>7. Leading(G) \subseteq G \cup Waits(t, x) BY <1>2, <1>3, <1>4, <1>6
  <1>8. Waits(t, x) \subseteq Leading(G) BY <1>3, <1>4, <1>5, <1>6
  <1>9. RollsOnce(t, x) /\ ~Rolls(t) BY NoRollMore
  <1>10. Builds(b, t, x) BY <1>7, <1>8, <1>9 DEF Builds, Covers, Rests, G
  <1> QED BY <1>2, <1>3, <1>4, <1>10 DEF F, G

LEMMA EnteredAt ==
  ASSUME Typed, at \in Addr, Builds(body, tasks, at)
  PROVE  /\ body \in Body /\ Tiled(body) /\ Mapped(body) /\ CurEnds(body, at)
         /\ tasks \in Seq(Task) /\ NoRoll(tasks)
         /\ ~IsProcessed => Takes(body, Entered, at)
  <1>1. body \in Body /\ Tiled(body) /\ Mapped(body) /\ CurEnds(body, at) /\ tasks \in Seq(Task)
    BY Bounds DEF Typed, Builds, Rests
  <1>2. NoRoll(tasks) BY <1>1, NothingRolls, Bounds DEF Builds
  <1> QED BY <1>1, <1>2, EnteredIs

LEMMA StraightStep ==
  ASSUME Typed, at \in Addr, Builds(body, tasks, at), Straight
  PROVE  /\ Step(body', tasks', at')
         /\ ~body'.broken => Has(body', tasks') = Has(body, tasks) \cup {at}
  <1> DEFINE g == Generate
  <1>1. Takes(body, Entered, at) /\ tasks \in Seq(Task) /\ NoRoll(tasks) /\ body \in Body
    BY EnteredAt DEF Straight
  <1>2. /\ g \in Body /\ Tiled(g) /\ Mapped(g)
        /\ g.cur \in Addr /\ g.ops[g.cur] # <<>> /\ EndOf(g, g.cur) = at + 1
        /\ Contents(g) = Contents(body) \cup Range(Parts(at))
        /\ g.root = body.root /\ g.broken = body.broken
    BY <1>1, GenerateKeeps
  <1> DEFINE c == [g EXCEPT !.cur = None, !.last = NoOp]
  <1>3. IF at < N THEN body' = g /\ at' = at + 1 /\ tasks' = tasks
        ELSE body' = c /\ at' = 0 /\ tasks' = tasks
    BY DEF Straight, EndTask
  <1>4. Succ(at) = {at + 1} BY DEF Straight, Succ
  <1>5. Waits(tasks, 0) \subseteq Addr BY <1>1, WaitsFor
  <1> HIDE DEF g
  <1>6. CASE at < N
    <2>1. at + 1 \in Addr /\ at + 1 # 0 BY <1>6, Bounds
    <2>2. Waits(tasks, at + 1) = Waits(tasks, 0) \cup {at + 1} BY <1>1, <2>1, WaitsFor
    <2>3. CurEnds(g, at + 1) BY <1>2 DEF CurEnds
    <2>4. /\ Step(g, tasks, at + 1)
          /\ ~g.broken => Has(g, tasks) = Has(body, tasks) \cup {at}
      BY <1>1, <1>2, <1>4, <2>1, <2>2, <2>3, GeneratedStep
    <2> QED BY <1>3, <1>6, <2>4
  <1>7. CASE ~(at < N)
    <2>1. at + 1 = Out /\ at + 1 \notin Addr BY <1>7, Bounds
    <2>2. c \in Body /\ c.cur = None /\ c.tree = g.tree /\ c.ops = g.ops /\ c.ref = g.ref
          /\ c.map = g.map /\ c.root = g.root /\ c.broken = g.broken
      BY <1>2 DEF Body
    <2> HIDE DEF c
    <2>3. Closed(g, g.cur) BY <1>2, <2>1 DEF Closed
    <2>4. Tiled(c) /\ Mapped(c) /\ Contents(c) = Contents(g) BY <1>2, <2>2, <2>3, TurnKeeps
    <2>5. Step(c, tasks, 0) /\ (~c.broken => Has(c, tasks) = Has(body, tasks) \cup {at})
      BY <1>1, <1>2, <1>4, <1>5, <2>1, <2>2, <2>4, GeneratedStep
    <2> QED BY <1>3, <1>7, <2>5
  <1> QED BY <1>6, <1>7

LEMMA JumpStep ==
  ASSUME Typed, at \in Addr, Builds(body, tasks, at), Jump
  PROVE  /\ Step(body', tasks', at')
         /\ ~body'.broken => Has(body', tasks') = Has(body, tasks) \cup {at}
  <1> DEFINE g == Generate
             to == code[at].to
             k == [at |-> to, ref |-> at, roll |-> 0]
             r == AssurePathBeginsAt(g, to, at)
             b == IF to \in Addr THEN [r EXCEPT !.ref[at] = to] ELSE g
             t == IF to \in Addr THEN Append(tasks, k) ELSE tasks
             f == FinalizePath(b, at)
             c == [f EXCEPT !.last = NoOp]
  <1>1. Takes(body, Entered, at) /\ tasks \in Seq(Task) /\ NoRoll(tasks) /\ body \in Body
    BY EnteredAt DEF Jump
  <1>2. /\ g \in Body /\ Tiled(g) /\ Mapped(g)
        /\ g.cur \in Addr /\ g.ops[g.cur] # <<>> /\ EndOf(g, g.cur) = at + 1
        /\ Contents(g) = Contents(body) \cup Range(Parts(at))
        /\ g.root = body.root /\ g.broken = body.broken
    BY <1>1, GenerateKeeps
  <1>3. \/ code[at].kind = "jmp" /\ body' = c /\ at' = 0 /\ tasks' = t
        \/ at = N /\ body' = c /\ at' = 0 /\ tasks' = t
        \/ code[at].kind # "jmp" /\ at # N /\ body' = f /\ at' = at + 1 /\ tasks' = t
    BY DEF Jump, EndTask
  <1>4. Succ(at) = IF code[at].kind = "jmp" THEN {to} ELSE {to, at + 1}
    BY DEF Jump, Jumps, Succ
  <1>5. ~body.broken BY DEF Jump, Generating
  <1>6. /\ b \in Body /\ Tiled(b) /\ Mapped(b)
        /\ b.cur # None /\ b.ops[b.cur] # <<>> /\ EndOf(b, b.cur) = at + 1
        /\ Contents(b) = Contents(g) /\ b.root = g.root /\ b.broken = g.broken
    <2>1. CASE to \in Addr
      <3>1. g.cur # None /\ CurEnds(g, at + 1) BY <1>2, Bounds DEF CurEnds
      <3> HIDE DEF g, to
      <3>2. Registers(g, to, r) BY <1>2, <2>1, <3>1, AssureKeeps
      <3> HIDE DEF r
      <3>3. r \in Body /\ Tiled(r) /\ Mapped(r) /\ Contents(r) = Contents(g) /\ to \in Range(r.tree)
            /\ r.root = g.root /\ r.broken = g.broken
        BY <3>2 DEF Registers, SameRest
      <3>4. r.cur # None /\ r.ops[r.cur] # <<>> /\ EndOf(r, r.cur) = at + 1
        BY <1>2, <3>1, <3>2 DEF Registers, SameEnd
      <3> DEFINE d == [r EXCEPT !.ref[at] = to]
      <3>5. /\ d \in Body /\ Tiled(d) /\ Mapped(d) /\ d.root = r.root /\ d.broken = r.broken
            /\ d.ops = r.ops /\ d.cur = r.cur
        BY <3>3, ReferKeeps
      <3>6. b = d BY <2>1
      <3> HIDE DEF d
      <3> QED BY <3>3, <3>4, <3>5, <3>6 DEF Contents, EndOf
    <2>2. CASE to \notin Addr BY <1>2, <2>2, Bounds
    <2> QED BY <2>1, <2>2
  <1>7. t \in Seq(Task) /\ NoRoll(t) /\ Waits(t, 0) = Waits(tasks, 0) \cup ({to} \cap Addr)
    <2>1. CASE to \in Addr
      <3>1. k \in Task /\ k.roll = 0 /\ k.at = to BY <2>1 DEF Task
      <3>2. t = Append(tasks, k) BY <2>1
      <3> HIDE DEF k, to, t
      <3>3. Append(tasks, k) \in Seq(Task) /\ NoRoll(Append(tasks, k))
        BY <1>1, <3>1, NoRollMore
      <3>4. Waits(Append(tasks, k), 0) = Waits(tasks, 0) \cup {k.at} BY <1>1, <3>1, WaitsFor
      <3> QED BY <2>1, <3>1, <3>2, <3>3, <3>4
    <2>2. CASE to \notin Addr BY <1>1, <2>2
    <2> QED BY <2>1, <2>2
  <1> HIDE DEF g, to, k, r, b, t
  <1>8. /\ f \in Body /\ f.root = b.root
        /\ ~f.broken => Tiled(f) /\ Mapped(f) /\ f.cur = None /\ Contents(f) = Contents(b)
    <2>1. ~b.broken BY <1>2, <1>5, <1>6
    <2>2. /\ f \in Body /\ f.root = b.root
          /\ ~f.broken => Tiled(f) /\ Mapped(f) /\ f.cur = None /\ f.ops = b.ops
      BY <1>6, <2>1, FinalizeKeeps
    <2> QED BY <2>2 DEF Contents
  <1> HIDE DEF f
  <1>9. /\ c \in Body /\ c.root = f.root /\ c.broken = f.broken
        /\ ~f.broken => Tiled(c) /\ Mapped(c) /\ c.cur = None /\ Contents(c) = Contents(f)
    <2>1. c \in Body /\ c.cur = f.cur /\ c.tree = f.tree /\ c.ops = f.ops /\ c.ref = f.ref
          /\ c.map = f.map /\ c.root = f.root /\ c.broken = f.broken
      BY <1>8 DEF Body
    <2> HIDE DEF c
    <2> QED BY <1>8, <2>1, TurnKeeps
  <1> HIDE DEF c
  <1>10. Waits(tasks, 0) \subseteq Addr BY <1>1, WaitsFor
  <1>11. CASE code[at].kind = "jmp" \/ at = N
    <2>1. Succ(at) \cap Addr = {to} \cap Addr BY <1>4, <1>11, Bounds
    <2>2. Step(c, t, 0) /\ (~c.broken => Has(c, t) = Has(body, tasks) \cup {at})
      BY <1>1, <1>2, <1>6, <1>7, <1>8, <1>9, <1>10, <2>1, GeneratedStep
    <2> QED BY <1>3, <1>11, <2>2
  <1>12. CASE code[at].kind # "jmp" /\ at # N
    <2>1. at + 1 \in Addr /\ at + 1 # 0 BY <1>12, Bounds
    <2>2. Waits(t, at + 1) = Waits(t, 0) \cup {at + 1} BY <1>7, <2>1, WaitsFor
    <2>3. Succ(at) = {to, at + 1} BY <1>4, <1>12
    <2>4. f.cur = None => CurEnds(f, at + 1) BY DEF CurEnds
    <2>5. Step(f, t, at + 1) /\ (~f.broken => Has(f, t) = Has(body, tasks) \cup {at})
      BY <1>1, <1>2, <1>6, <1>7, <1>8, <2>1, <2>2, <2>3, <2>4, GeneratedStep
    <2> QED BY <1>3, <1>12, <2>5
  <1> QED BY <1>11, <1>12

LEMMA ReturnStep ==
  ASSUME Typed, at \in Addr, Builds(body, tasks, at), Return
  PROVE  /\ Step(body', tasks', at')
         /\ ~body'.broken => Has(body', tasks') = Has(body, tasks) \cup {at}
  <1> DEFINE g == Generate
             r == CreateTailPath(g)
             b == [r EXCEPT !.ref[at] = Exit]
             f == FinalizePath(b, at)
             c == [f EXCEPT !.last = NoOp]
  <1>1. Takes(body, Entered, at) /\ tasks \in Seq(Task) /\ NoRoll(tasks) /\ body \in Body
    BY EnteredAt DEF Return
  <1>2. /\ g \in Body /\ Tiled(g) /\ Mapped(g)
        /\ g.cur \in Addr /\ g.ops[g.cur] # <<>> /\ EndOf(g, g.cur) = at + 1
        /\ Contents(g) = Contents(body) \cup Range(Parts(at))
        /\ g.root = body.root /\ g.broken = body.broken
    BY <1>1, GenerateKeeps
  <1>3. body' = c /\ at' = 0 /\ tasks' = tasks BY DEF Return, EndTask
  <1>4. Succ(at) = {} BY DEF Return, Succ
  <1>5. ~body.broken BY DEF Return, Generating
  <1> HIDE DEF g
  <1>6. /\ r \in Body /\ Tiled(r) /\ Mapped(r) /\ Exit \in Range(r.tree)
        /\ r.root = g.root /\ r.broken = g.broken /\ r.ops = g.ops /\ r.cur = g.cur
    BY <1>2, TailPathKeeps DEF SameRest
  <1> HIDE DEF r
  <1>7. /\ b \in Body /\ Tiled(b) /\ Mapped(b) /\ b.root = r.root /\ b.broken = r.broken
        /\ b.ops = r.ops /\ b.cur = r.cur
    BY <1>6, ReferKeeps
  <1> HIDE DEF b
  <1>8. /\ f \in Body /\ f.root = b.root
        /\ ~f.broken => Tiled(f) /\ Mapped(f) /\ f.cur = None /\ f.ops = b.ops
    <2>1. b.cur # None /\ b.ops[b.cur] # <<>> /\ EndOf(b, b.cur) = at + 1 /\ ~b.broken
      BY <1>2, <1>5, <1>6, <1>7, Bounds DEF EndOf
    <2> QED BY <1>7, <2>1, FinalizeKeeps
  <1> HIDE DEF f
  <1>9. /\ c \in Body /\ c.root = f.root /\ c.broken = f.broken
        /\ ~f.broken => Tiled(c) /\ Mapped(c) /\ c.cur = None /\ Contents(c) = Contents(f)
    <2>1. c \in Body /\ c.cur = f.cur /\ c.tree = f.tree /\ c.ops = f.ops /\ c.ref = f.ref
          /\ c.map = f.map /\ c.root = f.root /\ c.broken = f.broken
      BY <1>8 DEF Body
    <2> HIDE DEF c
    <2> QED BY <1>8, <2>1, TurnKeeps
  <1> HIDE DEF c
  <1>10. ~f.broken => Contents(f) = Contents(g) BY <1>6, <1>7, <1>8 DEF Contents
  <1>11. Step(c, tasks, 0) /\ (~c.broken => Has(c, tasks) = Has(body, tasks) \cup {at})
    BY <1>1, <1>2, <1>4, <1>6, <1>7, <1>8, <1>9, <1>10, GeneratedStep
  <1> QED BY <1>3, <1>11

LEMMA RunIntoStep ==
  ASSUME Typed, at \in Addr, Builds(body, tasks, at), RunInto
  PROVE  Step(body', tasks', at') /\ Has(body', tasks') = Has(body, tasks) /\ at \in Has(body, tasks)
  <1> DEFINE r == Registered
             F == Has(body, tasks)
  <1>1. /\ body \in Body /\ Tiled(body) /\ Mapped(body) /\ CurEnds(body, at)
        /\ tasks \in Seq(Task) /\ NoRoll(tasks)
    BY EnteredAt
  <1>2. /\ r \in Body /\ Tiled(r) /\ Mapped(r) /\ CurEnds(r, at)
        /\ r.root = body.root /\ r.broken = body.broken /\ Contents(r) = Contents(body)
    BY <1>1, RegisteredIs
  <1>3. r.map[at] \in Addr /\ OpsOf(r, r.map[at]) # <<>>
    BY DEF RunInto, IsProcessed, NewPath
  <1>4. body' = r /\ tasks' = tasks /\ at' = 0 BY DEF RunInto, EndTask
  <1> HIDE DEF r
  <1>5. at \in Paths(r) /\ r.map[at] = at /\ r.ops[at] # <<>> /\ r.ops[at] \in Seq(Op)
    <2>1. at \in Paths(r) /\ r.map[at] = at BY <1>2, <1>3, Bounds DEF Mapped
    <2> QED BY <1>2, <1>3, <2>1, BodyFields
  <1>6. Last(Parts(at)) \in Contents(r)
    BY <1>2, <1>5, RunIsWhole DEF Tiled, Contents
  <1>7. Has(r, tasks) = F /\ at \in F
    <2>1. /\ F = {x \in Addr : Last(Parts(x)) \in Contents(body)}
          /\ Has(r, tasks) = {x \in Addr : Last(Parts(x)) \in Contents(r)}
      BY <1>1, HasWhenNoRoll
    <2> QED BY <1>2, <1>6, <2>1
  <1>8. Leading(F) \subseteq F \cup Waits(tasks, at) /\ Waits(tasks, at) \subseteq Leading(F)
    BY DEF Builds, Covers
  <1> HIDE DEF F
  <1>9. Waits(tasks, at) = Waits(tasks, 0) \cup {at} BY <1>1, WaitsFor, Bounds
  <1>10. Covers(r, tasks, 0) BY <1>7, <1>8, <1>9 DEF Covers
  <1>11. RollsOnce(tasks, 0) /\ ~Rolls(tasks) BY <1>1, NoRollMore
  <1>12. r.cur # None => Closed(r, r.cur) BY <1>2, <1>5, Bounds DEF Closed, CurEnds
  <1>13. Builds(r, tasks, 0) BY <1>2, <1>10, <1>11, <1>12 DEF Builds, Rests
  <1> QED BY <1>1, <1>2, <1>4, <1>7, <1>13 DEF Step, F

LEMMA TaskBefore ==
  ASSUME NEW t \in Seq(Task), NEW k \in Task
  PROVE  /\ <<k>> \o t \in Seq(Task) /\ <<k>> \o t # <<>> /\ Head(<<k>> \o t) = k
         /\ Len(<<k>> \o t) = Len(t) + 1
         /\ (<<k>> \o t)[1] = k
         /\ \A i \in 1 .. Len(t) : (<<k>> \o t)[i + 1] = t[i]
         /\ \A i \in 2 .. Len(<<k>> \o t) : i - 1 \in 1 .. Len(t) /\ (<<k>> \o t)[i] = t[i - 1]
  <1> DEFINE u == <<k>> \o t
  <1>1. <<k>> \in Seq(Task) /\ Len(<<k>>) = 1 /\ <<k>>[1] = k OBVIOUS
  <1>2. u \in Seq(Task) /\ Len(u) = Len(t) + 1 /\ u[1] = k
        /\ \A i \in 1 .. Len(t) : u[i + 1] = t[i]
    BY <1>1
  <1>3. \A i \in 2 .. Len(t) + 1 : i - 1 \in 1 .. Len(t) /\ (i - 1) + 1 = i OBVIOUS
  <1> HIDE DEF u
  <1>4. u # <<>> /\ Head(u) = u[1] BY <1>2
  <1>5. \A i \in 2 .. Len(u) : i - 1 \in 1 .. Len(t) /\ u[i] = t[i - 1] BY <1>2, <1>3
  <1> QED BY <1>2, <1>4, <1>5 DEF u

LEMMA CallUnknownStep ==
  ASSUME Typed, at \in Addr, Builds(body, tasks, at), CallUnknown
  PROVE  Step(body', tasks', at') /\ Has(body', tasks') = Has(body, tasks) /\ at \notin Has(body, tasks)
  <1> DEFINE e == Entered
             o == <<at, 1>>
             r == <<at, 2>>
             p == Put(e, o)
             s == Append(p.ops[e.cur], r)
             b == [p EXCEPT !.ops = [p.ops EXCEPT ![e.cur] = s], !.last = body.last]
             k == [at |-> at, ref |-> 0, roll |-> 2]
             t == <<k>> \o tasks
             F == Has(body, tasks)
  <1>1. /\ body \in Body /\ tasks \in Seq(Task) /\ NoRoll(tasks) /\ Takes(body, e, at)
    BY EnteredAt DEF CallUnknown
  <1>2. /\ e \in Body /\ Tiled(e) /\ Mapped(e)
        /\ e.cur \in Addr /\ EndOf(e, e.cur) = at /\ e.map[at] \notin Addr \ {e.cur}
        /\ Contents(e) = Contents(body) /\ e.root = body.root /\ e.broken = body.broken
    BY <1>1 DEF Takes
  <1>3. body' = [p EXCEPT !.ops[e.cur] = s, !.last = body.last] /\ tasks' = t /\ at' = 0
    BY DEF CallUnknown, EndTask
  <1>4. code[at].kind = "call" BY DEF CallUnknown, Fault
  <1>5. code \in Programs /\ stub \in Cleanups \cup {None} BY DEF Typed
  <1>6. o \in Op /\ r \in Op BY PartsAreOps
  <1>7. PathWith(e.ops[e.cur], at) = Append(Append(e.ops[e.cur], o), r) BY <1>4 DEF PathWith
  <1>8. Last(Parts(at)) = r BY <1>4, LastPart
  <1>9. body.last \in Op \cup {NoOp} BY <1>1 DEF Body
  <1>10. e.cur # None BY <1>2, Bounds
  <1> HIDE DEF e, o, r
  <1>11. /\ p \in Body /\ SameMap(e, p) /\ p.ops[e.cur] = Append(e.ops[e.cur], o)
         /\ p.root = e.root /\ p.broken = e.broken
    BY <1>2, <1>5, <1>6, PutIs
  <1> HIDE DEF p
  <1>12. s \in Seq(Op) /\ s = PathWith(e.ops[e.cur], at)
    <2>1. p.ops[e.cur] \in Seq(Op) BY <1>2, <1>11, BodyFields
    <2> QED BY <1>6, <1>7, <1>11, <2>1, AppendOf
  <1> HIDE DEF s
  <1>13. body' = b BY <1>3, <1>11 DEF Body
  <1>14. /\ b \in Body /\ b.ops = [p.ops EXCEPT ![e.cur] = s] /\ b.tree = p.tree /\ b.map = p.map
         /\ b.cur = p.cur /\ b.ref = p.ref /\ b.root = p.root /\ b.broken = p.broken
    BY <1>2, <1>9, <1>11, <1>12 DEF Body
  <1> HIDE DEF b
  <1>15. SameMap(e, b) /\ b.ops[e.cur] = s
    BY <1>2, <1>11, <1>14, BodyFields DEF SameMap
  <1>16. /\ Tiled(b) /\ Mapped(b)
         /\ b.cur # None /\ b.ops[b.cur] # <<>> /\ Last(b.ops[b.cur]) = Last(Parts(at))
         /\ Contents(b) = Contents(e) \cup Range(Parts(at))
    <2>1. b \in Body /\ b.ops[e.cur] = PathWith(e.ops[e.cur], at) BY <1>12, <1>14, <1>15
    <2> QED BY <1>2, <1>10, <1>15, <2>1, GrowKeeps
  <1>17. k \in Task /\ k.roll = 2 /\ k.at = at BY Bounds DEF Task
  <1> HIDE DEF k
  <1>18. /\ t \in Seq(Task) /\ t # <<>> /\ Head(t) = k /\ Len(t) = Len(tasks) + 1 /\ t[1] = k
         /\ \A i \in 2 .. Len(t) : i - 1 \in 1 .. Len(tasks) /\ t[i] = tasks[i - 1]
    BY <1>1, <1>17, TaskBefore
  <1>19. Waits(t, 0) = Waits(tasks, 0) \cup {at} BY <1>1, <1>17, WaitsFor
  <1> HIDE DEF t
  <1>20. \A i \in 1 .. Len(t) : i = 1 \/ i \in 2 .. Len(t) BY <1>1, <1>18
  <1>21. 1 \in 1 .. Len(t) BY <1>1, <1>18
  <1>22. RollsOnce(t, 0) /\ Rolls(t)
    <2>1. \A i \in 2 .. Len(t) : t[i].roll = 0 BY <1>1, <1>18 DEF NoRoll
    <2>2. \A i \in 1 .. Len(t) : i > 1 => i \in 2 .. Len(t) BY <1>1, <1>18
    <2> QED BY <1>17, <1>18, <1>20, <2>1, <2>2 DEF RollsOnce, Rolls
  <1>23. Has(b, t) = F /\ at \notin F
    <2>1. at \notin F
      <3>1. Last(Parts(at)) \notin Contents(e) BY <1>2, <1>10, NotThereYet
      <3> QED BY <1>2, <3>1 DEF Has
    <2>2. F = {x \in Addr : Last(Parts(x)) \in Contents(body)} BY <1>1, HasWhenNoRoll
    <2>3. \A x \in Addr : Last(Parts(x)) \in Contents(b) <=> x \in F \cup {at}
      <3>1. Has(b, tasks) = F \cup {at} BY <1>1, <1>2, <1>16, HasMore
      <3>2. Has(b, tasks) = {x \in Addr : Last(Parts(x)) \in Contents(b)} BY <1>1, HasWhenNoRoll
      <3> QED BY <3>1, <3>2
    <2>4. \A x \in Addr : (\A i \in DOMAIN t : t[i].roll > 0 => t[i].at # x) <=> x # at
      <3>1. DOMAIN t = 1 .. Len(t) BY <1>18
      <3>2. \A i \in 2 .. Len(t) : ~(t[i].roll > 0) BY <1>1, <1>18 DEF NoRoll
      <3>3. t[1].roll > 0 /\ t[1].at = at BY <1>17, <1>18
      <3> QED BY <1>20, <1>21, <3>1, <3>2, <3>3
    <2> QED BY <2>1, <2>2, <2>3, <2>4 DEF Has
  <1>24. Leading(F) \subseteq F \cup Waits(tasks, at) /\ Waits(tasks, at) \subseteq Leading(F)
    BY DEF Builds, Covers
  <1> HIDE DEF F
  <1>25. Waits(tasks, at) = Waits(tasks, 0) \cup {at} BY <1>1, WaitsFor, Bounds
  <1>26. Covers(b, t, 0) BY <1>19, <1>23, <1>24, <1>25 DEF Covers
  <1>27. Rests(b, t, 0)
    BY <1>4, <1>8, <1>16, <1>17, <1>18, <1>22 DEF Rests, RollsBack, r
  <1>28. Builds(b, t, 0) BY <1>16, <1>22, <1>26, <1>27 DEF Builds
  <1> QED BY <1>2, <1>3, <1>11, <1>13, <1>14, <1>18, <1>23, <1>28 DEF Step, F

LEMMA RefOpIs ==
  ASSUME NEW b \in Body, NEW a
  PROVE  GetRefOp(b, a) \in Op \cup {NoOp}
  BY TailIs DEF GetRefOp

LEMMA RestOfTasks ==
  ASSUME NEW t \in Seq(Task), t # <<>>, RollsOnce(t, 0)
  PROVE  /\ Tail(t) \in Seq(Task) /\ NoRoll(Tail(t)) /\ Head(t) \in Task /\ Head(t).at \in Addr
         /\ DOMAIN t = 1 .. Len(t) /\ 1 \in 1 .. Len(t) /\ t[1] = Head(t)
         /\ \A i \in 1 .. Len(t) : i = 1 \/ t[i].roll = 0
         /\ Head(t).roll \in {0, 2}
  <1>1. Len(t) \in Nat \ {0} OBVIOUS
  <1>2. /\ Head(t) = t[1] /\ Len(Tail(t)) = Len(t) - 1 /\ Tail(t) \in Seq(Task)
        /\ \A i \in 1 .. Len(t) - 1 : Tail(t)[i] = t[i + 1]
    OBVIOUS
  <1>3. \A i \in 1 .. Len(t) - 1 : i + 1 \in 1 .. Len(t) /\ i + 1 > 1 BY <1>1
  <1>4. \A i \in 1 .. Len(t) : t[i].roll \in {0, 2} /\ (i > 1 => t[i].roll = 0) BY DEF RollsOnce
  <1>5. NoRoll(Tail(t))
    <2>1. ASSUME NEW i \in 1 .. Len(Tail(t)) PROVE Tail(t)[i].roll = 0
      <3>1. i \in 1 .. Len(t) - 1 BY <1>2
      <3> QED BY <1>2, <1>3, <1>4, <3>1
    <2> QED BY <2>1 DEF NoRoll
  <1>6. 1 \in 1 .. Len(t) BY <1>1
  <1>7. \A i \in 1 .. Len(t) : i = 1 \/ i > 1 BY <1>1
  <1>8. Head(t) \in Task BY <1>2, <1>6
  <1> QED BY <1>2, <1>4, <1>5, <1>6, <1>7, <1>8 DEF Task

(* The operations of an unknown call go, and then it is as it was before:  *)
(* the instruction is not in the body.                                     *)
LEMMA RolledBack ==
  ASSUME NEW b \in Body, Tiled(b), Mapped(b), NEW a \in Addr, RollsBack(b, a),
         code[a].kind = "call", NEW c \in Body, SameMap(b, c),
         c.ops[b.cur] = SubSeq(b.ops[b.cur], 1, Len(b.ops[b.cur]) - 2)
  PROVE  /\ Tiled(c) /\ Mapped(c) /\ CurEnds(c, a)
         /\ \A x \in Addr : Last(Parts(x)) \in Contents(c)
                            <=> x # a /\ Last(Parts(x)) \in Contents(b)
  <1>1. b.cur # None /\ b.ops[b.cur] # <<>> /\ Last(b.ops[b.cur]) = <<a, 2>> BY DEF RollsBack
  <1>2. /\ Tiled(c) /\ Mapped(c) /\ Paths(c) = Paths(b) /\ CurEnds(c, a)
        /\ Contents(c) \subseteq Contents(b)
        /\ Contents(b) \subseteq Contents(c) \cup {<<a, 1>>, <<a, 2>>}
    BY <1>1, RollbackKeeps
  <1>3. c.cur = b.cur /\ EndOf(c, c.cur) = a BY <1>1, <1>2 DEF SameMap, CurEnds
  <1>4. EndOf(b, b.cur) = a + 1
    <2>1. <<a, 2>>[1] = a OBVIOUS
    <2> QED BY <1>1, <2>1 DEF EndOf
  <1>5. b.cur \in Paths(b) /\ b.cur \in Addr BY <1>1, BodyFields DEF Mapped
  <1>6. c.map[a] \notin Addr \ {c.cur}
    <2> SUFFICES ASSUME c.map[a] \in Addr, c.map[a] # c.cur PROVE FALSE
      OBVIOUS
    <2>1. a \in Paths(b) /\ c.map[a] = a BY <1>2, Bounds DEF Mapped
    <2>2. c.cur \in Paths(c) BY <1>2, <1>3, <1>5
    <2>3. c.cur <= a BY <1>2, <1>3, <2>2, EndOfBounds
    <2>4. b.cur < a BY <1>3, <1>5, <2>1, <2>3, Bounds
    <2>5. EndOf(b, b.cur) <= a BY <1>5, <2>1, <2>4 DEF Tiled
    <2> QED BY <1>4, <2>5, Bounds
  <1>7. Last(Parts(a)) \notin Contents(c) BY <1>1, <1>2, <1>3, <1>6, NotThereYet
  <1>8. \A x \in Addr \ {a} : Last(Parts(x)) \notin {<<a, 1>>, <<a, 2>>}
    <2>1. \A x \in Addr : Last(Parts(x))[1] = x BY LastPart
    <2>2. <<a, 1>>[1] = a /\ <<a, 2>>[1] = a OBVIOUS
    <2> QED BY <2>1, <2>2
  <1> QED BY <1>2, <1>7, <1>8

LEMMA StartTaskStep ==
  ASSUME Typed, Builds(body, tasks, at), StartTask
  PROVE  Step(body', tasks', at') /\ Has(body', tasks') = Has(body, tasks)
  <1> DEFINE t == Head(tasks)
             F == Has(body, tasks)
             os == SubSeq(body.ops[body.cur], 1, Len(body.ops[body.cur]) - t.roll)
             b == IF t.roll > 0
                  THEN [body EXCEPT !.ops = [body.ops EXCEPT ![body.cur] = os]]
                  ELSE [body EXCEPT !.cur = None]
             from == IF t.ref # 0 THEN GetRefOp(b, t.ref) ELSE b.last
             c == [b EXCEPT !.last = from]
  <1>1. /\ body \in Body /\ tasks \in Seq(Task) /\ tasks # <<>> /\ at = 0
        /\ Tiled(body) /\ Mapped(body) /\ RollsOnce(tasks, 0) /\ Rests(body, tasks, 0)
        /\ Covers(body, tasks, 0)
    BY DEF Typed, StartTask, Builds
  <1>2. /\ Tail(tasks) \in Seq(Task) /\ NoRoll(Tail(tasks)) /\ t \in Task /\ t.at \in Addr
        /\ DOMAIN tasks = 1 .. Len(tasks) /\ 1 \in 1 .. Len(tasks) /\ tasks[1] = t
        /\ \A i \in 1 .. Len(tasks) : i = 1 \/ tasks[i].roll = 0
        /\ t.roll \in {0, 2}
    BY <1>1, RestOfTasks
  <1>3. body' = c /\ tasks' = Tail(tasks) /\ at' = t.at
    <2>1. t.roll > 0 => [body EXCEPT !.ops[body.cur] = SubSeq(@, 1, Len(@) - t.roll)]
                        = [body EXCEPT !.ops = [body.ops EXCEPT ![body.cur] = os]]
      BY <1>1 DEF Body
    <2> HIDE DEF t, os
    <2> QED BY <2>1 DEF StartTask, t
  <1>4. Waits(tasks, 0) = Waits(Tail(tasks), t.at)
    <2>1. Waits(tasks, 0) = Waits(Tail(tasks), 0) \cup {t.at} BY <1>1, WaitsFor, Bounds
    <2>2. Waits(Tail(tasks), t.at) = Waits(Tail(tasks), 0) \cup {t.at}
      <3> DEFINE u == Tail(tasks)
                 x == t.at
      <3>1. u \in Seq(Task) /\ x \in Addr BY <1>2
      <3> HIDE DEF u, x
      <3>2. x # 0 BY <3>1, Bounds
      <3>3. Waits(u, x) = Waits(u, 0) \cup ({x} \ {0}) BY <3>1, WaitsFor
      <3>4. Waits(u, x) = Waits(u, 0) \cup {x} BY <3>2, <3>3
      <3> QED BY <3>4 DEF u, x
    <2> QED BY <2>1, <2>2
  <1>5. Rolls(tasks) <=> t.roll > 0 BY <1>1 DEF Rolls
  <1>6. RollsOnce(Tail(tasks), t.at) /\ ~Rolls(Tail(tasks)) BY <1>2, NoRollMore
  <1>7. t.at # 0 BY <1>2, Bounds
  <1> HIDE DEF t, F
  <1>8. /\ b \in Body /\ b.tree = body.tree /\ b.ref = body.ref /\ b.map = body.map
        /\ b.root = body.root /\ b.broken = body.broken
        /\ t.roll > 0 => b.cur = body.cur /\ b.ops = [body.ops EXCEPT ![body.cur] = os]
        /\ ~(t.roll > 0) => b.cur = None /\ b.ops = body.ops
    <2>1. CASE t.roll > 0
      <3>1. RollsBack(body, t.at) BY <1>1, <1>5, <2>1 DEF Rests, t
      <3>2. body.cur # None /\ body.ops[body.cur] # <<>> /\ Last(body.ops[body.cur]) = <<t.at, 2>>
        BY <3>1 DEF RollsBack
      <3>3. body.cur \in Addr BY <1>1, <3>2, BodyFields DEF Mapped
      <3>4. os \in Seq(Op)
        <4>1. body.ops[body.cur] \in Seq(Op) /\ IsRun(body.cur, body.ops[body.cur])
          BY <1>1, <3>2, <3>3, BodyFields DEF Tiled, Mapped
        <4>2. os = SubSeq(body.ops[body.cur], 1, Len(body.ops[body.cur]) - 2) BY <1>2, <2>1
        <4>3. SubSeq(body.ops[body.cur], 1, Len(body.ops[body.cur]) - 2) \in Seq(Op)
          BY <1>2, <3>2, <3>3, <4>1, RunShrinks
        <4> QED BY <4>2, <4>3
      <3> HIDE DEF os
      <3> QED BY <1>1, <2>1, <3>3, <3>4 DEF Body
    <2>2. CASE ~(t.roll > 0) BY <1>1, <2>2 DEF Body
    <2> QED BY <2>1, <2>2
  <1>9. from \in Op \cup {NoOp}
    <2>1. b.last \in Op \cup {NoOp} BY <1>8 DEF Body
    <2> HIDE DEF b
    <2> QED BY <1>8, <2>1, RefOpIs
  <1> HIDE DEF b, from
  <1>10. /\ c \in Body /\ c.tree = b.tree /\ c.ref = b.ref /\ c.map = b.map /\ c.ops = b.ops
         /\ c.cur = b.cur /\ c.root = b.root /\ c.broken = b.broken
    BY <1>8, <1>9 DEF Body
  <1> HIDE DEF c
  <1>11. /\ Tiled(c) /\ Mapped(c) /\ CurEnds(c, t.at)
         /\ \A x \in Addr : Last(Parts(x)) \in Contents(c) <=> x \in F
    <2>1. CASE t.roll > 0
      <3>1. RollsBack(body, t.at) /\ code[t.at].kind = "call" BY <1>1, <1>5, <2>1 DEF Rests, t
      <3>2. body.cur \in Addr BY <1>1, <3>1, BodyFields DEF Mapped, RollsBack
      <3>3. SameMap(body, c) BY <1>1, <1>8, <1>10, <2>1, BodyFields DEF SameMap
      <3>4. c.ops[body.cur] = SubSeq(body.ops[body.cur], 1, Len(body.ops[body.cur]) - 2)
        <4>1. c.ops[body.cur] = os BY <1>1, <1>8, <1>10, <2>1, <3>2, BodyFields
        <4> QED BY <1>2, <2>1, <4>1
      <3>5. /\ Tiled(c) /\ Mapped(c) /\ CurEnds(c, t.at)
            /\ \A x \in Addr : Last(Parts(x)) \in Contents(c)
                               <=> x # t.at /\ Last(Parts(x)) \in Contents(body)
        BY <1>1, <1>2, <1>10, <3>1, <3>3, <3>4, RolledBack
      <3>6. \A x : (\A i \in DOMAIN tasks : tasks[i].roll > 0 => tasks[i].at # x) <=> x # t.at
        <4>1. \A i \in 1 .. Len(tasks) : tasks[i].roll > 0 <=> i = 1 BY <1>2, <2>1
        <4> QED BY <1>2, <4>1
      <3> QED BY <3>5, <3>6 DEF F, Has
    <2>2. CASE ~(t.roll > 0)
      <3>1. body.cur # None => Closed(body, body.cur) BY <1>1, <1>5, <2>2 DEF Rests
      <3>2. Tiled(c) /\ Mapped(c) /\ Contents(c) = Contents(body)
        BY <1>1, <1>8, <1>10, <2>2, <3>1, TurnKeeps
      <3>3. CurEnds(c, t.at) BY <1>8, <1>10, <2>2 DEF CurEnds
      <3>4. NoRoll(tasks) BY <1>1, <1>5, <2>2, NothingRolls
      <3>5. F = {x \in Addr : Last(Parts(x)) \in Contents(body)}
        BY <1>1, <3>4, HasWhenNoRoll DEF F
      <3> QED BY <3>2, <3>3, <3>5
    <2> QED BY <2>1, <2>2
  <1>12. Has(c, Tail(tasks)) = F
    <2>1. Has(c, Tail(tasks)) = {x \in Addr : Last(Parts(x)) \in Contents(c)}
      BY <1>2, HasWhenNoRoll
    <2>2. F \subseteq Addr BY DEF F, Has
    <2> QED BY <1>11, <2>1, <2>2
  <1>13. Covers(c, Tail(tasks), t.at) BY <1>1, <1>4, <1>12 DEF Covers, F
  <1>14. Builds(c, Tail(tasks), t.at) BY <1>6, <1>7, <1>11, <1>13 DEF Builds, Rests
  <1> QED BY <1>2, <1>3, <1>8, <1>10, <1>12, <1>14 DEF Step, F

-----------------------------------------------------------------------------
(* The steps of the analysis.                                              *)

(* Along a path the level of the stack is a number.                        *)
LEMMA LevelsAreInt ==
  ASSUME code \in Programs, stub \in Cleanups \cup {None}, NEW os \in Seq(Op),
         NEW first \in Nat \ {0}, NEW end \in 0 .. Len(os), NEW in \in Int
  PROVE  \A i \in first .. end : Levels(os, first, end, in)[i] \in Int
  <1> SUFFICES ASSUME first <= end PROVE \A i \in first .. end : Levels(os, first, end, in)[i] \in Int
    OBVIOUS
  <1> DEFINE m == end - first
             On(i, v) == StackOut(os[i - 1], v)
             G == [w \in Nat \X Int |-> IF w[1] \in 1 .. m THEN On(first + w[1], w[2]) ELSE 0]
             Row(g) == [i \in first .. end |-> IF i = first THEN in ELSE On(i, g[i - 1])]
             level == CHOOSE g : g = Row(g)
  <1>1. Levels(os, first, end, in) = level BY DEF Levels
  <1>2. m \in Nat /\ end \in Nat /\ end = first + m OBVIOUS
  <1>3. ASSUME NEW i \in first + 1 .. end, NEW v \in Int PROVE On(i, v) \in Int
    <2>1. i - 1 \in 1 .. Len(os) BY <1>2
    <2>2. os[i - 1] \in Op BY <2>1
    <2> QED BY <2>2, StackIsInt
  <1> HIDE DEF m, On
  <1>4. \A i \in 1 .. m, v \in Int : G[<<i, v>>] = On(first + i, v) BY <1>2
  <1>5. \A i \in 1 .. m : first + i \in first + 1 .. end BY <1>2
  <1> HIDE DEF G
  <1>6. HasStepwise(m, Int, in, G)
    <2> DEFINE X == Int
    <2>1. in \in X /\ \A i \in 1 .. m, v \in X : G[<<i, v>>] \in X BY <1>3, <1>4, <1>5
    <2> HIDE DEF X
    <2>2. HasStepwise(m, X, in, G) BY <1>2, <2>1, StepwiseFunction
    <2> QED BY <2>2 DEF X
  <1>7. PICK f \in [0 .. m -> Int] : f[0] = in /\ \A i \in 1 .. m : f[i] = G[<<i, f[i - 1]>>]
    BY <1>6 DEF HasStepwise
  <1> DEFINE g == [i \in first .. end |-> f[i - first]]
  <1>8. g = Row(g)
    <2>1. ASSUME NEW i \in first .. end PROVE g[i] = IF i = first THEN in ELSE On(i, g[i - 1])
      <3>1. CASE i = first BY <1>7, <3>1
      <3>2. CASE i # first
        <4>1. i - first \in 1 .. m /\ i - 1 \in first .. end /\ first + (i - first) = i
              /\ (i - first) - 1 \in 0 .. m /\ (i - first) - 1 = (i - 1) - first
          BY <1>2, <3>2
        <4>2. g[i] = f[i - first] /\ g[i - 1] = f[(i - first) - 1] BY <4>1
        <4>3. f[(i - first) - 1] \in Int BY <4>1
        <4>4. f[i - first] = G[<<i - first, f[(i - first) - 1]>>] BY <1>7, <4>1
        <4>5. G[<<i - first, f[(i - first) - 1]>>] = On(first + (i - first), f[(i - first) - 1])
          BY <1>4, <4>1, <4>3
        <4> QED BY <3>2, <4>1, <4>2, <4>4, <4>5
      <3> QED BY <3>1, <3>2
    <2> QED BY <2>1
  <1>9. level = Row(level)
    <2> HIDE DEF Row, g
    <2> QED BY <1>8
  <1> HIDE DEF level
  <1>10. \A i \in first .. end : level[i] = IF i = first THEN in ELSE On(i, level[i - 1])
    <2>1. \A i \in first .. end : Row(level)[i] = IF i = first THEN in ELSE On(i, level[i - 1])
      OBVIOUS
    <2> HIDE DEF Row
    <2> QED BY <1>9, <2>1
  <1> DEFINE T == {k \in 0 .. m : level[first + k] \in Int}
  <1>11. 0 \in T BY <1>2, <1>10
  <1>12. ASSUME NEW n \in 0 .. m - 1, n \in T PROVE n + 1 \in T
    <2>1. n + 1 \in 0 .. m /\ first + (n + 1) \in first + 1 .. end
          /\ first + (n + 1) \in first .. end
          /\ first + (n + 1) # first /\ (first + (n + 1)) - 1 = first + n
      BY <1>2
    <2>2. level[first + (n + 1)] = On(first + (n + 1), level[first + n]) BY <1>10, <2>1
    <2> QED BY <1>3, <1>12, <2>1, <2>2
  <1>13. 0 .. m \subseteq T
    <2> HIDE DEF T
    <2> QED BY <1>2, <1>11, <1>12, UpToInduction
  <1>14. ASSUME NEW i \in first .. end PROVE level[i] \in Int
    <2>1. i - first \in 0 .. m /\ first + (i - first) = i BY <1>2
    <2> QED BY <1>13, <2>1
  <1> QED BY <1>1, <1>14

LEMMA ReturnIsInt ==
  ASSUME Typed, NEW o \in Op, NEW in \in Int, AtReturn(o, in)
  PROVE  purge' \in Int
  <1>1. StackOut(o, in) \in Int BY StackIsInt DEF Typed
  <1> QED BY <1>1 DEF AtReturn, Typed

(* The ways on from a path of the tree lead to paths of the tree.          *)
LEMMA WaysStay ==
  ASSUME body \in Body, Tiled(body), NEW p \in Range(body.tree)
  PROVE  Ways(p) \in Seq(WayIn(body))
  <1> DEFINE W == WayIn(body)
             on(q) == IF q = None THEN <<>> ELSE <<[path |-> q, from |-> p]>>
  <1>1. p \in Addr \cup {Exit}
    <2>1. body.tree \in Seq(Addr \cup {Exit}) BY DEF Body
    <2> QED BY <2>1, RangeFacts
  <1>2. CASE BlockType(body, p) = "exit" BY <1>2 DEF Ways
  <1>3. CASE BlockType(body, p) # "exit"
    <2>1. p \in Addr BY <1>1, <1>3 DEF BlockType
    <2>2. \A q \in Range(body.tree) \cup {None} : [path |-> q, from |-> p] \in W
      <3>1. Range(body.tree) \subseteq Addr \cup {Exit}
        <4>1. body.tree \in Seq(Addr \cup {Exit}) BY DEF Body
        <4> QED BY <4>1, RangeFacts
      <3> QED BY <2>1, <3>1 DEF Way, WayIn
    <2>3. NextPath(body, p) \in Range(body.tree) \cup {None}
      <3>1. body.tree \in Seq(Addr \cup {Exit}) BY DEF Body
      <3>2. Place(body.tree, p) \in 1 .. Len(body.tree) /\ body.tree[Place(body.tree, p)] = p
        BY <3>1, PlaceOf
      <3>3. CASE p = Last(body.tree) BY <3>3 DEF NextPath
      <3>4. CASE p # Last(body.tree)
        <4>1. body.tree # <<>> BY <3>1, <3>2
        <4>2. Last(body.tree) = body.tree[Len(body.tree)] BY <3>1, <4>1, LastOf
        <4> DEFINE n == Len(body.tree)
                   k == Place(body.tree, p)
        <4>3. n \in Nat /\ k \in 1 .. n /\ k # n BY <3>1, <3>2, <3>4, <4>2
        <4>4. NextPath(body, p) = body.tree[k + 1] BY <3>4 DEF NextPath
        <4> HIDE DEF k
        <4>5. k + 1 \in 1 .. n BY <4>3
        <4> QED BY <3>1, <4>4, <4>5, RangeFacts
      <3> QED BY <3>3, <3>4
    <2>4. ASSUME BlockType(body, p) \in {"jmp", "jif"}
          PROVE  GotoPath(body, p) \in Range(body.tree) \cup {None}
      <3>1. TailOp(body, p)[1] \in Addr BY <2>4, JumpHasTail, TailIs
      <3> QED BY <3>1 DEF GotoPath, Tiled
    <2> HIDE DEF W
    <2>5. ASSUME NEW q \in Range(body.tree) \cup {None}
          PROVE  <<[path |-> q, from |-> p]>> \in Seq(W)
      <3>1. [path |-> q, from |-> p] \in W BY <2>2
      <3> QED BY <3>1
    <2>6. CASE BlockType(body, p) = "jmp"
      <3>1. Ways(p) = <<[path |-> GotoPath(body, p), from |-> p]>> BY <2>6 DEF Ways
      <3> QED BY <2>4, <2>5, <2>6, <3>1 DEF W
    <2>7. CASE BlockType(body, p) = "jif"
      <3>1. Ways(p) = on(NextPath(body, p)) \o on(GotoPath(body, p)) BY <2>7 DEF Ways
      <3>2. \A q \in Range(body.tree) \cup {None} : on(q) \in Seq(W) BY <2>5
      <3> HIDE DEF on
      <3>3. on(NextPath(body, p)) \in Seq(W) /\ on(GotoPath(body, p)) \in Seq(W)
        BY <2>3, <2>4, <2>7, <3>2
      <3> QED BY <3>1, <3>3 DEF W
    <2>8. CASE BlockType(body, p) \notin {"jmp", "jif"}
      <3>1. Ways(p) = <<[path |-> NextPath(body, p), from |-> p]>> BY <1>3, <2>8 DEF Ways
      <3> QED BY <2>3, <2>5, <3>1 DEF W
    <2> QED BY <2>6, <2>7, <2>8
  <1> QED BY <1>2, <1>3

LEMMA FrontOf ==
  ASSUME NEW S, NEW s \in Seq(S), s # <<>>
  PROVE  Front(s) \in Seq(S)
  <1>1. Len(s) \in Nat \ {0} BY LastOf
  <1>2. SubSeq(s, 1, Len(s) - 1) \in Seq(S)
    <2> DEFINE n == Len(s) - 1
    <2>1. 1 \in 1 .. Len(s) + 1 /\ n \in 0 .. Len(s) /\ 1 <= n + 1 BY <1>1
    <2> HIDE DEF n
    <2>2. SubSeq(s, 1, n) \in Seq(S) BY <2>1, SubSeqOf
    <2> QED BY <2>2 DEF n
  <1> QED BY <1>2 DEF Front

(* The iterator does not leave the tree when nothing in it but the flags   *)
(* and the levels change.                                                  *)
SameShape(b, c) ==
    /\ c \in Body /\ c.tree = b.tree /\ c.ops = b.ops /\ c.ref = b.ref /\ c.flip = b.flip
    /\ c.root = b.root

LEMMA DropStep ==
  ASSUME Typed, Walks(body, flow, resume), Drop
  PROVE  /\ SameShape(body, body') /\ flow' \in Seq(Way) /\ resume' = resume
         /\ Walks(body', flow', resume')
  <1> DEFINE head == HeadOp(body, Top.path)
             from == TailOp(body, Top.from)
             x == head # NoOp /\ from = NoOp
             b == [body EXCEPT !.broken = x]
  <1>1. body' = b /\ flow' = Front(flow) /\ resume' = resume BY DEF Drop
  <1>2. body \in Body BY DEF Typed
  <1>3. x \in BOOLEAN OBVIOUS
  <1> HIDE DEF x
  <1>4. SameShape(body, b) /\ b.done = body.done BY <1>2, <1>3 DEF SameShape, Body
  <1>5. Top.path \in body.done BY DEF Drop
  <1>6. body.done \subseteq Addr \cup {Exit} BY <1>2 DEF Body
  <1>7. flow # <<>> BY <1>5, <1>6, Bounds DEF Top
  <1>8. resume = NoOp
    <2>1. Last(flow).path \in body.done BY <1>5, <1>7 DEF Top
    <2> QED BY <2>1 DEF Walks
  <1>9. Front(flow) \in Seq(WayIn(body)) /\ Front(flow) \in Seq(Way)
    BY <1>7, FrontOf DEF Walks, Typed
  <1>10. WayIn(b) = WayIn(body) BY <1>4 DEF WayIn, SameShape
  <1> HIDE DEF b
  <1> QED BY <1>1, <1>4, <1>8, <1>9, <1>10 DEF Walks

LEMMA AnalyzeStep ==
  ASSUME Typed, Tiled(body), Walks(body, flow, resume), Analyze
  PROVE  /\ SameShape(body, body') /\ body'.broken = body.broken
         /\ flow' \in Seq(Way) /\ resume' \in Op \cup {NoOp} /\ redone' \subseteq Addr
         /\ purge' \in Int /\ paused' \in BOOLEAN /\ busy' \in BOOLEAN
         /\ Walks(body', flow', resume')
  <1> DEFINE p == Top.path
             os == OpsOf(body, p)
             first == IF resume = NoOp THEN 1 ELSE Place(os, resume)
             faults == {i \in first .. Len(os) : IsCall(os[i]) /\ stub = None}
             end == IF faults = {} THEN Len(os) ELSE Min(faults) - 1
             from == IF first > 1 THEN os[first - 1] ELSE TailOp(body, Top.from)
             in == IF from = NoOp THEN 0 ELSE Level(body, from)
             level == Levels(os, first, end, in)
             sin == [o \in Op |-> IF \E i \in first .. end : os[i] = o
                                  THEN level[CHOOSE i \in first .. end : os[i] = o]
                                  ELSE body.sin[o]]
             b == [body EXCEPT !.sin = sin]
             c == [b EXCEPT !.done = b.done \cup {p}]
  <1>1. /\ body \in Body /\ code \in Programs /\ stub \in Cleanups \cup {None}
        /\ flow \in Seq(WayIn(body)) /\ flow \in Seq(Way) /\ resume \in Op \cup {NoOp}
        /\ redone \subseteq Addr /\ purge \in Int /\ paused \in BOOLEAN
    BY DEF Typed, Walks
  <1>2. p \notin body.done \cup {None} /\ redo \in BOOLEAN BY DEF Analyze, Typed
  <1>3. flow # <<>> /\ Last(flow) = Top BY <1>2 DEF Top
  <1>4. p \in Range(body.tree)
    <2>1. Top \in WayIn(body) BY <1>1, <1>3, LastOf
    <2> QED BY <1>2, <2>1 DEF WayIn
  <1>5. p \in Addr \cup {Exit}
    <2>1. body.tree \in Seq(Addr \cup {Exit}) BY <1>1 DEF Body
    <2> QED BY <1>4, <2>1, RangeFacts
  <1>6. os \in Seq(Op) /\ (p \in Addr => os = body.ops[p]) /\ (os # <<>> => p \in Addr)
    BY <1>1, <1>5, BodyFields DEF OpsOf
  <1>7. resume # NoOp => p \in Addr /\ resume \in Range(body.ops[p])
    BY <1>3 DEF Walks
  <1>8. /\ IF faults # {}
           THEN /\ body' = b
                /\ resume' = os[end + 1]
                /\ paused' = TRUE /\ busy' = FALSE
                /\ UNCHANGED <<flow, redone, funcVars>>
           ELSE /\ body' = IF resume = NoOp THEN c ELSE b
                /\ resume' = NoOp
                /\ flow' = Front(flow) \o Ways(p)
                /\ redone' = IF resume = NoOp THEN redone ELSE redone \cup {p}
                /\ IF os # <<>> /\ IsRetOp(body, Last(os))
                   THEN AtReturn(Last(os), level[end]) ELSE UNCHANGED funcVars
                /\ busy' = TRUE /\ UNCHANGED paused
    BY DEF Analyze
  <1> HIDE DEF p, os
  <1>9. first \in Nat \ {0} /\ (os # <<>> => first \in 1 .. Len(os)) /\ (resume # NoOp => os # <<>>)
    <2>1. CASE resume = NoOp
      <3>1. os # <<>> => Len(os) \in Nat \ {0} BY <1>6
      <3> QED BY <2>1, <3>1
    <2>2. CASE resume # NoOp
      <3>1. resume \in Range(os) BY <1>6, <1>7, <2>2
      <3>2. Place(os, resume) \in 1 .. Len(os) BY <1>6, <3>1, PlaceOf
      <3>3. Len(os) \in Nat /\ os # <<>> BY <1>6, <3>2
      <3> QED BY <2>2, <3>2, <3>3
    <2> QED BY <2>1, <2>2
  <1> HIDE DEF first
  <1>10. /\ end \in 0 .. Len(os)
         /\ faults # {} => end + 1 \in faults
         /\ faults = {} => end = Len(os)
    <2>1. Len(os) \in Nat BY <1>6
    <2>2. CASE faults = {} BY <2>1, <2>2
    <2>3. CASE faults # {}
      <3>1. faults \in SUBSET Nat BY <1>9
      <3> DEFINE x == Min(faults)
      <3>2. x \in faults
        <4> HIDE DEF faults
        <4> QED BY <2>3, <3>1, LeastIsMin
      <3>3. x \in first .. Len(os) BY <3>2
      <3>4. end = x - 1 BY <2>3
      <3> HIDE DEF x, end
      <3>5. end \in 0 .. Len(os) /\ end + 1 = x BY <1>9, <2>1, <3>3, <3>4
      <3> QED BY <2>3, <3>2, <3>5
    <2> QED BY <2>2, <2>3
  <1>11. \A i \in faults : i \in first .. Len(os) OBVIOUS
  <1> HIDE DEF faults, end
  <1>12. from \in Op \cup {NoOp}
    <2>1. CASE first > 1
      <3>1. os # <<>>
        <4> SUFFICES ASSUME os = <<>> PROVE FALSE
          OBVIOUS
        <4>1. resume = NoOp BY <1>9
        <4> QED BY <2>1, <4>1 DEF first
      <3>2. first - 1 \in 1 .. Len(os) BY <1>6, <1>9, <2>1, <3>1
      <3>3. os[first - 1] \in Op BY <1>6, <3>2
      <3> QED BY <2>1, <3>3
    <2>2. CASE ~(first > 1) BY <1>1, <2>2, TailIs
    <2> QED BY <2>1, <2>2
  <1> HIDE DEF from
  <1>13. in \in Int BY <1>1, <1>12, LevelIsInt
  <1> HIDE DEF in
  <1>14. \A i \in first .. end : level[i] \in Int BY <1>1, <1>6, <1>9, <1>10, <1>13, LevelsAreInt
  <1> HIDE DEF level
  <1>15. sin \in [Op -> Int]
    <2>1. ASSUME NEW o \in Op
          PROVE  (IF \E i \in first .. end : os[i] = o
                  THEN level[CHOOSE i \in first .. end : os[i] = o] ELSE body.sin[o]) \in Int
      <3>1. body.sin[o] \in Int BY <1>1 DEF Body
      <3> QED BY <1>14, <3>1
    <2> QED BY <2>1
  <1> HIDE DEF sin
  <1>16. SameShape(body, b) /\ b.done = body.done /\ b.broken = body.broken
    BY <1>1, <1>15 DEF SameShape, Body
  <1> HIDE DEF b
  <1>17. SameShape(body, c) /\ c.broken = body.broken
    BY <1>5, <1>16 DEF SameShape, Body
  <1>18. \A d : SameShape(body, d) => WayIn(d) = WayIn(body) BY DEF SameShape, WayIn
  <1> HIDE DEF c
  <1>19. CASE faults # {}
    <2>1. end + 1 \in first .. Len(os) BY <1>10, <1>11, <1>19
    <2>2. end + 1 \in 1 .. Len(os)
      <3>1. first \in Nat \ {0} /\ Len(os) \in Nat BY <1>6, <1>9
      <3> QED BY <2>1, <3>1
    <2>3. os[end + 1] \in Op /\ os[end + 1] \in Range(os) /\ os # <<>>
      BY <1>6, <2>2, RangeFacts
    <2>4. p \in Addr /\ os = body.ops[p] /\ p \notin body.done BY <1>2, <1>6, <2>3 DEF p
    <2>5. /\ body' = b /\ resume' = os[end + 1] /\ paused' = TRUE /\ busy' = FALSE
          /\ flow' = flow /\ redone' = redone /\ purge' = purge
      BY <1>8, <1>19 DEF funcVars
    <2>6. Walks(b, flow, os[end + 1])
      BY <1>1, <1>3, <1>16, <1>18, <2>3, <2>4 DEF Walks, SameShape, p
    <2> QED BY <1>1, <1>16, <2>3, <2>5, <2>6
  <1>20. CASE faults = {}
    <2>1. /\ body' = IF resume = NoOp THEN c ELSE b
          /\ resume' = NoOp
          /\ flow' = Front(flow) \o Ways(p)
          /\ redone' = IF resume = NoOp THEN redone ELSE redone \cup {p}
          /\ IF os # <<>> /\ IsRetOp(body, Last(os))
             THEN AtReturn(Last(os), level[end]) ELSE UNCHANGED funcVars
          /\ busy' = TRUE /\ paused' = paused
      BY <1>8, <1>20
    <2>2. purge' \in Int
      <3>1. CASE os # <<>> /\ IsRetOp(body, Last(os))
        <4>1. Last(os) \in Op /\ Len(os) \in Nat \ {0} BY <1>6, <3>1, LastOf
        <4>2. end \in first .. end BY <1>9, <1>10, <1>20, <3>1, <4>1
        <4>3. level[end] \in Int BY <1>14, <4>2
        <4>4. AtReturn(Last(os), level[end]) BY <2>1, <3>1
        <4> HIDE DEF level
        <4> QED BY <4>1, <4>3, <4>4, ReturnIsInt
      <3>2. CASE ~(os # <<>> /\ IsRetOp(body, Last(os)))
        BY <1>1, <2>1, <3>2 DEF funcVars
      <3> QED BY <3>1, <3>2
    <2>3. flow' \in Seq(WayIn(body))
      <3>1. Front(flow) \in Seq(WayIn(body)) BY <1>1, <1>3, FrontOf
      <3>2. Ways(p) \in Seq(WayIn(body)) BY <1>1, <1>4, WaysStay
      <3> DEFINE W == WayIn(body)
                 x == Front(flow)
                 y == Ways(p)
      <3>3. x \in Seq(W) /\ y \in Seq(W) BY <3>1, <3>2
      <3> HIDE DEF W, x, y
      <3>4. x \o y \in Seq(W) BY <3>3
      <3> QED BY <2>1, <3>4 DEF W, x, y
    <2>4. flow' \in Seq(Way)
      <3>1. WayIn(body) \subseteq Way BY DEF WayIn
      <3> QED BY <2>3, <3>1
    <2>5. redone' \subseteq Addr
      <3>1. resume # NoOp => p \in Addr BY <1>7 DEF p
      <3> QED BY <1>1, <2>1, <3>1
    <2>6. SameShape(body, body') /\ body'.broken = body.broken
      BY <1>16, <1>17, <2>1
    <2>7. WayIn(body') = WayIn(body) BY <1>18, <2>6
    <2>8. Walks(body', flow', resume') BY <2>1, <2>3, <2>7 DEF Walks
    <2> QED BY <1>1, <2>1, <2>2, <2>4, <2>5, <2>6, <2>8
  <1> QED BY <1>19, <1>20

-----------------------------------------------------------------------------
(* The code does not change, so that what the steps do is what holds after *)
(* them.                                                                   *)

LEMMA TiledNext == ASSUME code' = code, Tiled(body') PROVE Tiled(body)'
  BY DEF Tiled, IsRun, NextOp, Parts, Paths, EndOf, Ordered

LEMMA MappedNext == ASSUME Mapped(body') PROVE Mapped(body)'
  BY DEF Mapped, Closed, Paths, EndOf

LEMMA HasNext == ASSUME code' = code PROVE Has(body, tasks)' = Has(body', tasks')
  BY DEF Has, Contents, Parts

LEMMA BuildsNext ==
  ASSUME code' = code, Builds(body', tasks', at')
  PROVE  Builds(body, tasks, at)'
  <1>1. Tiled(body)' /\ Mapped(body)' BY TiledNext, MappedNext DEF Builds
  <1>2. RollsOnce(tasks, at)' BY DEF Builds, RollsOnce
  <1>3. Rests(body, tasks, at)'
    BY DEF Builds, Rests, Rolls, RollsBack, CurEnds, Closed, EndOf
  <1>4. Covers(body, tasks, at)'
    <2>1. Covers(body', tasks', at') BY DEF Builds
    <2>2. Has(body, tasks)' = Has(body', tasks') BY HasNext
    <2>3. Leading(Has(body, tasks))' = Leading(Has(body', tasks'))
      BY <2>2 DEF Leading, Succ
    <2>4. Waits(tasks, at)' = Waits(tasks', at') BY DEF Waits
    <2> QED BY <2>1, <2>2, <2>3, <2>4 DEF Covers
  <1> QED BY <1>1, <1>2, <1>3, <1>4 DEF Builds

LEMMA CompleteNext ==
  ASSUME code' = code, Complete(body')
  PROVE  Complete(body)'
  BY DEF Complete, Leading, Succ, Has, Contents, Parts

LEMMA WalksNext ==
  ASSUME Walks(body', flow', resume')
  PROVE  Walks(body, flow, resume)'
  BY DEF Walks, WayIn, Way

Building == StartTask \/ RunInto \/ CallUnknown \/ Straight \/ Jump \/ Return

LEMMA BuildingIs ==
  ASSUME IInv, Building
  PROVE  /\ Gen /\ ~body.broken /\ Builds(body, tasks, at) /\ Step(body', tasks', at')
         /\ UNCHANGED <<code, stub, active, stage, redo, flow, resume, redone, cut>>
         /\ purge' \in Int /\ paused' \in BOOLEAN /\ busy' \in BOOLEAN
         /\ at' # 0 => ~paused'
  <1>1. Generating BY DEF Building, StartTask, RunInto, CallUnknown, Straight, Jump, Return
  <1>2. Gen /\ ~body.broken /\ ~paused BY <1>1 DEF Generating, Gen
  <1>3. Builds(body, tasks, at) BY <1>2 DEF IInv, InOrder
  <1>4. Typed BY DEF IInv
  <1>5. at \in Addr \cup {0} /\ purge \in Int /\ paused \in BOOLEAN /\ busy \in BOOLEAN
    BY <1>4 DEF Typed
  <1>6. StartTask => /\ Step(body', tasks', at') /\ busy' = TRUE
                     /\ UNCHANGED <<code, stub, purge, lifeVars, rnaVars, cut>>
    BY <1>3, <1>4, StartTaskStep DEF StartTask, funcVars
  <1>7. RunInto => /\ Step(body', tasks', at') /\ busy' = (tasks = <<>>)
                   /\ UNCHANGED <<code, stub, purge, lifeVars, rnaVars, cut>>
    <2> SUFFICES ASSUME RunInto
                 PROVE  /\ Step(body', tasks', at') /\ busy' = (tasks = <<>>)
                        /\ UNCHANGED <<code, stub, purge, lifeVars, rnaVars, cut>>
      OBVIOUS
    <2>1. at \in Addr BY <1>5 DEF RunInto
    <2> QED BY <1>3, <1>4, <2>1, RunIntoStep DEF RunInto, EndTask
  <1>8. CallUnknown => /\ Step(body', tasks', at') /\ busy' \in BOOLEAN
                       /\ purge' = purge /\ paused' = TRUE /\ at' = 0
                       /\ UNCHANGED <<code, stub, active, stage, redo, rnaVars, cut>>
    <2> SUFFICES ASSUME CallUnknown
                 PROVE  /\ Step(body', tasks', at') /\ busy' \in BOOLEAN
                        /\ purge' = purge /\ paused' = TRUE /\ at' = 0
                        /\ UNCHANGED <<code, stub, active, stage, redo, rnaVars, cut>>
      OBVIOUS
    <2>1. at \in Addr BY <1>5 DEF CallUnknown
    <2>2. Step(body', tasks', at') BY <1>3, <1>4, <2>1, CallUnknownStep
    <2> QED BY <2>2 DEF CallUnknown, EndTask, funcVars
  <1>9. Straight => /\ Step(body', tasks', at') /\ busy' \in BOOLEAN
                    /\ UNCHANGED <<code, stub, purge, lifeVars, rnaVars, cut>>
    <2> SUFFICES ASSUME Straight
                 PROVE  /\ Step(body', tasks', at') /\ busy' \in BOOLEAN
                        /\ UNCHANGED <<code, stub, purge, lifeVars, rnaVars, cut>>
      OBVIOUS
    <2>1. at \in Addr BY <1>5 DEF Straight
    <2>2. Step(body', tasks', at') BY <1>3, <1>4, <2>1, StraightStep
    <2>3. busy' \in BOOLEAN BY <1>5 DEF Straight, EndTask
    <2> QED BY <2>2, <2>3 DEF Straight, funcVars
  <1>10. Jump => /\ Step(body', tasks', at') /\ busy' \in BOOLEAN
                 /\ UNCHANGED <<code, stub, purge, lifeVars, rnaVars, cut>>
    <2> SUFFICES ASSUME Jump
                 PROVE  /\ Step(body', tasks', at') /\ busy' \in BOOLEAN
                        /\ UNCHANGED <<code, stub, purge, lifeVars, rnaVars, cut>>
      OBVIOUS
    <2>1. at \in Addr BY <1>5 DEF Jump
    <2>2. Step(body', tasks', at') BY <1>3, <1>4, <2>1, JumpStep
    <2>3. busy' \in BOOLEAN BY <1>5 DEF Jump, EndTask
    <2> QED BY <2>2, <2>3 DEF Jump, funcVars
  <1>11. Return => /\ Step(body', tasks', at') /\ busy' \in BOOLEAN /\ purge' \in Int
                   /\ UNCHANGED <<code, stub, lifeVars, rnaVars, cut>>
    <2> SUFFICES ASSUME Return
                 PROVE  /\ Step(body', tasks', at') /\ busy' \in BOOLEAN /\ purge' \in Int
                        /\ UNCHANGED <<code, stub, lifeVars, rnaVars, cut>>
      OBVIOUS
    <2>1. at \in Addr BY <1>5 DEF Return
    <2>2. Step(body', tasks', at') BY <1>3, <1>4, <2>1, ReturnStep
    <2>3. busy' \in BOOLEAN BY DEF Return, EndTask
    <2>4. purge' \in Int
      <3> DEFINE o == <<at, 1>>
                 b == [CreateTailPath(Generate) EXCEPT !.ref[at] = Exit]
      <3>1. AtReturn(o, b.sin[o]) BY DEF Return
      <3>2. o \in Op BY <2>1, PartsAreOps
      <3>3. b \in Body
        <4>1. Takes(body, Entered, at) BY <1>3, <1>4, <2>1, EnteredAt DEF Return
        <4> DEFINE g == Generate
                   r == CreateTailPath(g)
        <4>2. g \in Body /\ Tiled(g) /\ Mapped(g) BY <1>4, <2>1, <4>1, GenerateKeeps
        <4> HIDE DEF g
        <4>3. r \in Body /\ Tiled(r) /\ Mapped(r) /\ Exit \in Range(r.tree)
          BY <4>2, TailPathKeeps
        <4> HIDE DEF r
        <4>4. [r EXCEPT !.ref[at] = Exit] \in Body BY <2>1, <4>3, ReferKeeps
        <4> QED BY <4>4 DEF r, g
      <3> HIDE DEF b, o
      <3>4. b.sin[o] \in Int BY <3>2, <3>3 DEF Body
      <3> QED BY <1>4, <3>1, <3>2, <3>4, ReturnIsInt
    <2> QED BY <2>2, <2>3, <2>4 DEF Return
  <1>12. Step(body', tasks', at') BY <1>6, <1>7, <1>8, <1>9, <1>10, <1>11 DEF Building
  <1>13. UNCHANGED <<code, stub, active, stage, redo, flow, resume, redone, cut>>
    <2>1. UNCHANGED <<code, stub, active, stage, redo, rnaVars, cut>>
      BY <1>6, <1>7, <1>8, <1>9, <1>10, <1>11 DEF Building, lifeVars
    <2> QED BY <2>1 DEF rnaVars
  <1>14. purge' \in Int /\ busy' \in BOOLEAN
    <2>1. (tasks = <<>>) \in BOOLEAN OBVIOUS
    <2> QED BY <1>5, <1>6, <1>7, <1>8, <1>9, <1>10, <1>11, <2>1 DEF Building
  <1>15. paused' \in BOOLEAN /\ (at' # 0 => ~paused')
    <2>1. CASE CallUnknown BY <1>8, <2>1
    <2>2. CASE ~CallUnknown
      <3>1. UNCHANGED lifeVars BY <1>6, <1>7, <1>9, <1>10, <1>11, <2>2 DEF Building
      <3>2. paused' = paused BY <3>1 DEF lifeVars
      <3> QED BY <1>2, <1>5, <3>2
    <2> QED BY <2>1, <2>2
  <1> QED BY <1>2, <1>3, <1>12, <1>13, <1>14, <1>15

LEMMA BuildingKeeps ==
  ASSUME IInv, Building
  PROVE  Typed' /\ Placed' /\ InOrder'
  <1>1. /\ Gen /\ ~body.broken /\ Step(body', tasks', at')
        /\ UNCHANGED <<code, stub, active, stage, redo, flow, resume, redone, cut>>
        /\ purge' \in Int /\ paused' \in BOOLEAN /\ busy' \in BOOLEAN
        /\ at' # 0 => ~paused'
    BY BuildingIs
  <1>2. Typed /\ Placed BY DEF IInv
  <1>3. Typed' BY <1>1, <1>2 DEF Typed, Step, Task, Way
  <1>4. Gen' /\ ~Ana' BY <1>1 DEF Gen, Ana
  <1>5. body.root /\ body'.root = body.root BY <1>1, <1>2 DEF Placed, Gen, Step
  <1>6. Placed' BY <1>1, <1>2, <1>4, <1>5 DEF Placed, Gen, Ana
  <1>7. InOrder'
    <2>1. ~body'.broken => Builds(body, tasks, at)' BY <1>1, BuildsNext DEF Step
    <2> QED BY <1>4, <2>1 DEF InOrder
  <1> QED BY <1>3, <1>6, <1>7

(* When the body is not being generated.                                   *)
LEMMA IdleNext ==
  ASSUME code' = code, ~Gen',
         ~body'.broken => /\ Tiled(body') /\ (body'.root /\ ~cut' => Complete(body'))
                          /\ Ana' => Walks(body', flow', resume')
  PROVE  InOrder'
  BY TiledNext, CompleteNext, WalksNext DEF InOrder

LEMMA CompleteSame ==
  ASSUME NEW b, NEW c, Contents(c) = Contents(b), Complete(b)
  PROVE  Complete(c)
  BY DEF Complete, Has

LEMMA LaterIs ==
  ASSUME stage' \in 2 .. Stages + 1
  PROVE  ~Gen' /\ ~Ana'
  <1>1. stage' # 1 BY PipelineLength
  <1> QED BY <1>1 DEF Gen, Ana

LEMMA StageDoneIs ==
  ASSUME Life, stage \in 1 .. Stages, NEW s, StageDone(s)
  PROVE  stage' \in 2 .. Stages + 1
  <1>1. stage' = Stages + 1 \/ stage' = stage + 1 BY DEF StageDone
  <1> QED BY <1>1, PipelineLength

LEMMA GenerateDoneKeeps ==
  ASSUME IInv, GenerateDone
  PROVE  Typed' /\ Placed' /\ InOrder'
  <1> DEFINE b == Forget(body)
  <1>1. /\ Gen /\ ~body.broken /\ at = 0 /\ tasks = <<>> /\ body' = b /\ busy' = FALSE
        /\ UNCHANGED <<code, stub, purge, active, redo, paused, at, tasks, flow, resume, redone, cut>>
    BY DEF GenerateDone, Generating, Gen, genVars, rnaVars
  <1>2. Typed /\ Placed /\ Life /\ Builds(body, tasks, at) BY <1>1 DEF IInv, InOrder
  <1>3. stage' \in 2 .. Stages + 1
    <2>1. stage \in 1 .. Stages BY <1>1, PipelineLength DEF Gen
    <2> QED BY <1>2, <2>1, StageDoneIs DEF GenerateDone
  <1>4. ~Gen' /\ ~Ana' BY <1>3, LaterIs
  <1>5. body \in Body /\ Tiled(body) BY <1>2 DEF Typed, Builds
  <1>6. /\ b \in Body /\ b.tree = body.tree /\ b.ops = body.ops /\ b.ref = body.ref
        /\ b.root = body.root
    BY <1>5 DEF Forget, EmptyBody, Body
  <1> HIDE DEF b
  <1>7. Tiled(b) /\ Contents(b) = Contents(body) BY <1>5, <1>6, SamePaths
  <1>8. Complete(body)
    <2>1. Waits(<<>>, 0) = {} BY DEF Waits
    <2>2. Covers(body, <<>>, 0) BY <1>1, <1>2 DEF Builds
    <2> QED BY <2>1, <2>2 DEF Covers, Complete
  <1>9. Complete(b) BY <1>7, <1>8, CompleteSame
  <1>10. InOrder' BY <1>1, <1>4, <1>7, <1>9, IdleNext
  <1>11. Typed' BY <1>1, <1>2, <1>6 DEF Typed, Task, Way
  <1>12. Placed'
    <2>1. body.root /\ resume = NoOp BY <1>1, <1>2 DEF Placed, Gen, Ana
    <2> QED BY <1>1, <1>4, <1>6, <2>1 DEF Placed
  <1> QED BY <1>10, <1>11, <1>12

(* What the invariant says during the analysis.                            *)
LEMMA AnalyzingIs ==
  ASSUME IInv, Analyzing
  PROVE  /\ Ana /\ ~Gen /\ ~body.broken /\ Typed /\ Placed /\ Life
         /\ body \in Body /\ Tiled(body) /\ (body.root /\ ~cut => Complete(body))
         /\ Walks(body, flow, resume) /\ body.root /\ at = 0 /\ tasks = <<>>
  <1>1. Ana /\ ~Gen /\ ~body.broken BY DEF Analyzing, Ana, Gen
  <1>2. Typed /\ Placed /\ Life BY DEF IInv
  <1>3. body \in Body /\ Tiled(body) /\ (body.root /\ ~cut => Complete(body))
        /\ Walks(body, flow, resume)
    BY <1>1, <1>2 DEF IInv, InOrder, Typed
  <1>4. body.root /\ at = 0 /\ tasks = <<>> BY <1>1, <1>2 DEF Placed, Ana
  <1> QED BY <1>1, <1>2, <1>3, <1>4

LEMMA FlowDoneKeeps ==
  ASSUME IInv, FlowDone
  PROVE  Typed' /\ Placed' /\ InOrder'
  <1>1. Analyzing BY DEF FlowDone
  <1>2. /\ Ana /\ ~Gen /\ ~body.broken /\ Typed /\ Placed /\ Life
        /\ body \in Body /\ Tiled(body) /\ (body.root /\ ~cut => Complete(body))
        /\ Walks(body, flow, resume) /\ body.root /\ at = 0 /\ tasks = <<>>
    BY <1>1, AnalyzingIs
  <1>3. /\ UNCHANGED <<code, body, stub, purge, active, redo, paused, at, tasks, flow, resume,
                       redone, cut>>
        /\ busy' = FALSE
    BY DEF FlowDone, genVars, rnaVars
  <1>4. stage' \in 2 .. Stages + 1
    <2>1. stage \in 1 .. Stages BY <1>2, PipelineLength DEF Ana
    <2> QED BY <1>2, <2>1, StageDoneIs DEF FlowDone
  <1>5. ~Gen' /\ ~Ana' BY <1>4, LaterIs
  <1>6. resume = NoOp
    <2> SUFFICES ASSUME resume # NoOp PROVE FALSE
      OBVIOUS
    <2>1. flow # <<>> /\ Last(flow).path \in Addr BY <1>2 DEF Walks
    <2>2. Last(flow).path = None BY <2>1 DEF FlowDone, Top
    <2> QED BY <2>1, <2>2, Bounds
  <1>7. Typed' BY <1>2, <1>3 DEF Typed, Task, Way
  <1>8. Placed' BY <1>2, <1>3, <1>5, <1>6 DEF Placed
  <1>9. InOrder' BY <1>2, <1>3, <1>5, IdleNext
  <1> QED BY <1>7, <1>8, <1>9

LEMMA AnalysisKeeps ==
  ASSUME IInv, Drop \/ Analyze
  PROVE  /\ Typed' /\ Placed' /\ InOrder'
         /\ Analyzing /\ SameShape(body, body')
         /\ UNCHANGED <<code, active, stage, redo, tasks, cut>>
  <1>1. Analyzing BY DEF Drop, Analyze
  <1>2. /\ Ana /\ ~Gen /\ ~body.broken /\ Typed /\ Placed /\ Life
        /\ body \in Body /\ Tiled(body) /\ (body.root /\ ~cut => Complete(body))
        /\ Walks(body, flow, resume) /\ body.root /\ at = 0 /\ tasks = <<>>
    BY <1>1, AnalyzingIs
  <1>3. /\ SameShape(body, body') /\ flow' \in Seq(Way) /\ Walks(body', flow', resume')
        /\ resume' \in Op \cup {NoOp} /\ redone' \subseteq Addr
        /\ purge' \in Int /\ paused' \in BOOLEAN /\ busy' \in BOOLEAN
    <2>1. CASE Drop
      <3>1. /\ SameShape(body, body') /\ flow' \in Seq(Way) /\ resume' = resume
            /\ Walks(body', flow', resume')
        BY <1>2, <2>1, DropStep
      <3>2. busy' = TRUE /\ UNCHANGED <<purge, paused, redone>> BY <2>1 DEF Drop, lifeVars
      <3> QED BY <1>2, <3>1, <3>2 DEF Typed
    <2>2. CASE Analyze BY <1>2, <2>2, AnalyzeStep
    <2> QED BY <2>1, <2>2
  <1>4. UNCHANGED <<code, stub, active, stage, redo, at, tasks, cut>>
    BY DEF Drop, Analyze, lifeVars, genVars
  <1>5. ~Gen' /\ Ana' BY <1>2, <1>4 DEF Gen, Ana
  <1>6. body' \in Body /\ body'.tree = body.tree /\ body'.ops = body.ops
        /\ body'.ref = body.ref /\ body'.root = body.root
    BY <1>3 DEF SameShape
  <1>7. Tiled(body') /\ Contents(body') = Contents(body) BY <1>2, <1>6, SamePaths
  <1>8. body'.root /\ ~cut' => Complete(body') BY <1>2, <1>4, <1>6, <1>7, CompleteSame
  <1>9. InOrder' BY <1>3, <1>4, <1>5, <1>7, <1>8, IdleNext
  <1>10. Typed' BY <1>2, <1>3, <1>4, <1>6 DEF Typed, Task, Way
  <1>11. Placed' BY <1>2, <1>4, <1>5, <1>6 DEF Placed
  <1> QED BY <1>1, <1>3, <1>4, <1>9, <1>10, <1>11

-----------------------------------------------------------------------------
(* The other steps.                                                        *)

LEMMA LaterKeeps ==
  ASSUME IInv, LaterStage \/ FinalStage
  PROVE  Typed' /\ Placed' /\ InOrder'
  <1>1. /\ stage \in 2 .. Stages
        /\ UNCHANGED <<code, body, stub, purge, active, redo, paused, busy, at, tasks, flow,
                       resume, redone, cut>>
    BY PipelineLength DEF LaterStage, FinalStage, genVars, rnaVars
  <1>2. Typed /\ Placed /\ Life BY DEF IInv
  <1>3. ~Gen /\ ~Ana
    <2>1. stage # 1 BY <1>1, PipelineLength
    <2> QED BY <2>1 DEF Gen, Ana
  <1>4. stage' \in 2 .. Stages + 1
    <2>1. CASE StageDone(status) \/ StageDone(Error) \/ StageDone(Finished)
      <3>1. stage \in 1 .. Stages BY <1>1, PipelineLength
      <3> QED BY <1>2, <2>1, <3>1, StageDoneIs
    <2>2. CASE stage' = Stages + 1 BY <2>2, PipelineLength
    <2> QED BY <2>1, <2>2 DEF LaterStage, FinalStage
  <1>5. ~Gen' /\ ~Ana' BY <1>4, LaterIs
  <1>6. Typed' BY <1>1, <1>2 DEF Typed, Task, Way
  <1>7. Placed' BY <1>1, <1>2, <1>3, <1>5 DEF Placed
  <1>8. InOrder' BY <1>1, <1>3, <1>5, IdleNext DEF IInv, InOrder
  <1> QED BY <1>6, <1>7, <1>8

LEMMA FinishKeeps ==
  ASSUME IInv, Finish
  PROVE  Typed' /\ Placed' /\ InOrder'
  <1>1. /\ stage = Stages + 1 /\ active' = FALSE /\ paused' = FALSE
        /\ tasks' = <<>> /\ flow' = <<>> /\ resume' = NoOp
        /\ UNCHANGED <<code, body, stub, purge, redo, busy, at, redone, cut>>
    BY DEF Finish, Close
  <1>2. Typed /\ Placed BY DEF IInv
  <1>3. ~Gen
    <2>1. stage # 1 BY <1>1, PipelineLength
    <2> QED BY <2>1 DEF Gen
  <1>4. ~Gen' /\ ~Ana' BY <1>1 DEF Gen, Ana
  <1>5. Typed'
    <2>1. tasks' \in Seq(Task) /\ flow' \in Seq(Way) BY <1>1
    <2> QED BY <1>1, <1>2, <2>1 DEF Typed, Task, Way
  <1>6. Placed' BY <1>1, <1>2, <1>3, <1>4 DEF Placed
  <1>7. InOrder' BY <1>1, <1>3, <1>4, IdleNext DEF IInv, InOrder
  <1> QED BY <1>5, <1>6, <1>7

LEMMA ForgetIs ==
  ASSUME NEW b \in Body
  PROVE  SameShape(b, Forget(b)) /\ Forget(b).broken = b.broken
  BY DEF Forget, EmptyBody, SameShape, Body

LEMMA StopKeeps ==
  ASSUME IInv, Stop
  PROVE  Typed' /\ Placed' /\ InOrder'
  <1>1. /\ active /\ at = 0 /\ ~body.broken /\ active' = FALSE /\ paused' = FALSE
        /\ tasks' = <<>> /\ flow' = <<>> /\ resume' = NoOp
        /\ body' = Forget(body) /\ cut' = (cut \/ (stage = 1 /\ ~redo))
        /\ UNCHANGED <<code, stub, purge, redo, busy, at, redone>>
    BY DEF Stop, Close
  <1>2. Typed /\ Placed BY DEF IInv
  <1>3. body \in Body /\ Tiled(body) /\ body.root
    BY <1>1, <1>2 DEF Typed, Placed, IInv, InOrder, Builds
  <1>4. SameShape(body, body') BY <1>1, <1>3, ForgetIs
  <1>5. ~Gen' /\ ~Ana' BY <1>1 DEF Gen, Ana
  <1>6. cut' \in BOOLEAN
    <2>1. (cut \/ (stage = 1 /\ ~redo)) \in BOOLEAN OBVIOUS
    <2> QED BY <1>1, <2>1
  <1>7. Typed'
    <2>1. body' \in Body BY <1>4 DEF SameShape
    <2>2. tasks' \in Seq(Task) /\ flow' \in Seq(Way) BY <1>1
    <2> QED BY <1>1, <1>2, <1>6, <2>1, <2>2 DEF Typed, Task, Way
  <1>8. Placed' BY <1>1, <1>3, <1>4, <1>5 DEF Placed, SameShape
  <1>9. Tiled(body') /\ Contents(body') = Contents(body)
    BY <1>3, <1>4, SamePaths DEF SameShape
  <1>10. ~cut' => Complete(body')
    <2> SUFFICES ASSUME ~cut' PROVE Complete(body')
      OBVIOUS
    <2>1. ~cut /\ ~Gen BY <1>1 DEF Gen
    <2>2. Complete(body) BY <1>1, <1>3, <2>1 DEF IInv, InOrder
    <2> QED BY <1>9, <2>2, CompleteSame
  <1>11. InOrder' BY <1>1, <1>5, <1>9, <1>10, IdleNext
  <1> QED BY <1>7, <1>8, <1>11

LEMMA EmptyBodyIs ==
  /\ EmptyBody \in Body /\ EmptyBody.root = FALSE /\ EmptyBody.broken = FALSE
  /\ \A b \in {EmptyBody, [EmptyBody EXCEPT !.root = TRUE]} :
        /\ b \in Body /\ Tiled(b) /\ Mapped(b) /\ b.cur = None /\ Contents(b) = {}
        /\ Leading({}) \subseteq {1}
  <1>1. EmptyBody \in Body /\ EmptyBody.root = FALSE /\ EmptyBody.broken = FALSE
    BY DEF EmptyBody, Body
  <1>2. ASSUME NEW b \in {EmptyBody, [EmptyBody EXCEPT !.root = TRUE]}
        PROVE  /\ b \in Body /\ Tiled(b) /\ Mapped(b) /\ b.cur = None /\ Contents(b) = {}
    <2>1. /\ b \in Body /\ b.tree = <<>> /\ b.cur = None
          /\ b.ops = [p \in Addr |-> <<>>] /\ b.ref = [a \in Addr |-> None]
          /\ b.map = [a \in Addr \cup {Out} |-> None]
      <3>1. CASE b = EmptyBody BY <1>1, <3>1 DEF EmptyBody
      <3>2. CASE b = [EmptyBody EXCEPT !.root = TRUE]
        <4>1. b \in Body BY <1>1, <3>2 DEF Body
        <4> QED BY <3>2, <4>1 DEF EmptyBody
      <3> QED BY <3>1, <3>2
    <2>2. Range(<<>>) = {} BY DEF Range
    <2>3. Paths(b) = {} BY <2>1, <2>2 DEF Paths
    <2>4. Tiled(b) BY <2>1, <2>3 DEF Tiled, Ordered
    <2>5. Mapped(b) BY <2>1, <2>3, Bounds DEF Mapped
    <2>6. Contents(b) = {} BY <2>1, <2>2 DEF Contents
    <2> QED BY <2>1, <2>4, <2>5, <2>6
  <1>3. Leading({}) \subseteq {1} BY DEF Leading
  <1> QED BY <1>1, <1>2, <1>3

LEMMA PurgedIs ==
  ASSUME NEW b \in Body, Tiled(b)
  PROVE  LET c == Purged(b)
         IN  /\ c \in Body /\ Tiled(c) /\ Contents(c) = Contents(b)
             /\ c.root = b.root /\ c.broken = b.broken
  <1> DEFINE S == Addr \cup {Exit}
             K == {p \in Range(b.tree) : OpsOf(b, p) # <<>> \/ HasRefs(b, p)}
             f == Forget(b)
             none == [o \in Op |-> 0]
             t == Kept(b.tree, K)
             c == [f EXCEPT !.done = {}, !.sin = none, !.tree = t]
  <1>1. f.tree = b.tree BY DEF Forget, Body
  <1>2. Purged(b) = c BY <1>1 DEF Purged, Forget, Body
  <1>3. t \in Seq(S)
    <2> HIDE DEF K
    <2>1. b.tree \in Seq(S) BY DEF Body
    <2> HIDE DEF S
    <2> DEFINE R == S \X S
    <2>2. \A i, j \in 1 .. Len(b.tree) : i < j => <<b.tree[i], b.tree[j]>> \in R BY <2>1
    <2> HIDE DEF R
    <2> QED BY <2>1, <2>2, KeptOnes
  <1> HIDE DEF f, K, t
  <1>4. f \in Body /\ f.ops = b.ops /\ f.ref = b.ref /\ f.root = b.root /\ f.broken = b.broken
    BY ForgetIs DEF SameShape, f
  <1>5. /\ c \in Body /\ c.tree = t /\ c.ops = b.ops /\ c.ref = b.ref
        /\ c.root = b.root /\ c.broken = b.broken
    <2>1. none \in [Op -> Int] OBVIOUS
    <2> HIDE DEF none
    <2> QED BY <1>3, <1>4, <2>1 DEF Body
  <1> HIDE DEF c
  <1>6. Tiled(c) /\ Contents(c) = Contents(b) BY <1>5, CleanedKeeps DEF K, t
  <1> QED BY <1>2, <1>5, <1>6

(* The first task of a generation.                                         *)
First == <<[at |-> 1, ref |-> 0, roll |-> 0]>>

LEMMA BuildsFirst ==
  ASSUME NEW b \in Body, Tiled(b), Mapped(b), b.cur = None, Contents(b) = {}
  PROVE  First \in Seq(Task) /\ Builds(b, First, 0) /\ Has(b, First) = {}
  <1>1. First[1] \in Task /\ Len(First) = 1 /\ First[1].at = 1 /\ First[1].roll = 0
    BY Bounds DEF First, Task
  <1>2. First \in Seq(Task)
    <2>1. [at |-> 1, ref |-> 0, roll |-> 0] \in Task BY Bounds DEF Task
    <2> QED BY <2>1 DEF First
  <1>3. Has(b, First) = {} BY DEF Has
  <1>4. Waits(First, 0) = {1} BY <1>1 DEF Waits
  <1>5. Leading({}) = {1} BY Bounds DEF Leading
  <1>6. NoRoll(First) BY <1>1 DEF NoRoll
  <1>7. RollsOnce(First, 0) /\ ~Rolls(First) BY <1>2, <1>6, NoRollMore
  <1>8. Covers(b, First, 0) BY <1>3, <1>4, <1>5 DEF Covers
  <1> QED BY <1>2, <1>3, <1>7, <1>8 DEF Builds, Rests

LEMMA DecompileIs ==
  ASSUME IInv, Decompile
  PROVE  /\ Typed' /\ Placed' /\ InOrder'
         /\ UNCHANGED <<code, cut>> /\ Contents(body') = Contents(body)
         /\ ~body.broken /\ ~body'.broken
         /\ tasks = <<>> /\ Has(body', tasks') = Has(body', <<>>)
  <1>1. /\ ~active /\ ~body.broken /\ active' = TRUE /\ stage' = 1 /\ redo' = body.root
        /\ purge' = 0 /\ redone' = {} /\ UNCHANGED <<code, stub, paused, busy, at, resume, cut>>
    BY DEF Decompile
  <1>2. Typed /\ Placed BY DEF IInv
  <1>3. ~Gen /\ ~Ana /\ at = 0 /\ tasks = <<>> /\ resume = NoOp
    BY <1>1, <1>2 DEF Gen, Ana, Placed
  <1>4. body \in Body /\ body.root \in BOOLEAN /\ Tiled(body) /\ (body.root /\ ~cut => Complete(body))
    BY <1>1, <1>2, <1>3 DEF IInv, InOrder, Typed, Body
  <1>5. CASE body.root
    <2> DEFINE b == Purged(body)
               w == [path |-> IF b.tree = <<>> THEN None ELSE Head(b.tree), from |-> None]
    <2>1. body' = b /\ flow' = <<w>> /\ tasks' = tasks BY <1>5 DEF Decompile
    <2>2. /\ b \in Body /\ Tiled(b) /\ Contents(b) = Contents(body)
          /\ b.root = body.root /\ b.broken = body.broken
      BY <1>4, PurgedIs
    <2>3. w \in WayIn(b) /\ w \in Way
      <3> HIDE DEF b
      <3>1. b.tree \in Seq(Addr \cup {Exit}) BY <2>2 DEF Body
      <3>2. Range(b.tree) \subseteq Addr \cup {Exit} BY <3>1, RangeFacts
      <3>3. b.tree # <<>> => Head(b.tree) \in Range(b.tree)
        <4> SUFFICES ASSUME b.tree # <<>> PROVE Head(b.tree) \in Range(b.tree)
          OBVIOUS
        <4>1. Head(b.tree) = b.tree[1] /\ 1 \in 1 .. Len(b.tree) BY <3>1
        <4> QED BY <3>1, <4>1, RangeFacts
      <3> QED BY <3>2, <3>3 DEF WayIn, Way
    <2> HIDE DEF b, w
    <2>4. flow' \in Seq(WayIn(b)) /\ flow' \in Seq(Way)
      <3>1. <<w>> \in Seq(WayIn(b)) /\ <<w>> \in Seq(Way) BY <2>3
      <3> QED BY <2>1, <3>1
    <2>5. ~Gen' BY <1>1, <1>5 DEF Gen
    <2>6. Typed'
      <3>1. tasks' \in Seq(Task) BY <1>3, <2>1
      <3>2. purge' \in Int /\ redone' \subseteq Addr /\ redo' \in BOOLEAN BY <1>1, <1>4
      <3> QED BY <1>1, <1>2, <2>1, <2>2, <2>4, <3>1, <3>2 DEF Typed, Task, Way
    <2>7. Placed' BY <1>1, <1>2, <1>3, <1>5, <2>1, <2>2, <2>5 DEF Placed
    <2>8. Walks(body', flow', resume') BY <1>1, <1>3, <2>1, <2>4 DEF Walks
    <2>9. body.root /\ ~cut => Complete(b) BY <1>4, <2>2, CompleteSame
    <2>10. InOrder' BY <1>1, <2>1, <2>2, <2>5, <2>8, <2>9, IdleNext
    <2> QED BY <1>1, <1>3, <2>1, <2>2, <2>6, <2>7, <2>10
  <1>6. CASE ~body.root
    <2> DEFINE b == [EmptyBody EXCEPT !.root = TRUE]
    <2>1. body = EmptyBody /\ ~cut BY <1>2, <1>6 DEF Placed
    <2>2. body' = b /\ tasks' = First /\ flow' = flow BY <1>6, <2>1 DEF Decompile, First
    <2>3. /\ b \in Body /\ Tiled(b) /\ Mapped(b) /\ b.cur = None /\ Contents(b) = {}
          /\ Contents(EmptyBody) = {}
      BY EmptyBodyIs
    <2>4. b.root = TRUE /\ b.broken = FALSE BY EmptyBodyIs DEF Body
    <2> HIDE DEF b
    <2>5. First \in Seq(Task) /\ Builds(b, First, 0) /\ Has(b, First) = {}
      BY <2>3, BuildsFirst
    <2>6. Gen' /\ ~Ana' BY <1>1, <1>6 DEF Gen, Ana
    <2>7. Typed'
      <3>1. purge' \in Int /\ redone' \subseteq Addr /\ redo' \in BOOLEAN BY <1>1, <1>4
      <3> QED BY <1>1, <1>2, <2>2, <2>3, <2>5, <3>1 DEF Typed, Task, Way
    <2>8. Placed' BY <1>1, <1>2, <1>3, <2>1, <2>2, <2>4, <2>6 DEF Placed
    <2>9. InOrder'
      <3>1. Builds(body', tasks', at') BY <1>1, <1>3, <2>2, <2>5
      <3>2. Builds(body, tasks, at)' BY <1>1, <3>1, BuildsNext
      <3> QED BY <2>6, <3>2 DEF InOrder
    <2>10. Has(b, <<>>) = {} BY <2>3 DEF Has
    <2> QED BY <1>1, <1>3, <2>1, <2>2, <2>3, <2>4, <2>5, <2>7, <2>8, <2>9, <2>10
  <1> QED BY <1>5, <1>6

LEMMA PurgeKeeps ==
  ASSUME IInv, Purge
  PROVE  Typed' /\ Placed' /\ InOrder'
  <1>1. /\ ~active /\ body' = EmptyBody /\ cut' = FALSE
        /\ UNCHANGED <<code, stub, purge, active, stage, redo, paused, busy, at, tasks, flow,
                       resume, redone>>
    BY DEF Purge, lifeVars, genVars, rnaVars
  <1>2. Typed /\ Placed BY DEF IInv
  <1>3. ~Gen /\ ~Ana /\ at = 0 /\ tasks = <<>> /\ resume = NoOp
    BY <1>1, <1>2 DEF Gen, Ana, Placed
  <1>4. ~Gen' /\ ~Ana' BY <1>1 DEF Gen, Ana
  <1>5. EmptyBody \in Body /\ Tiled(EmptyBody) /\ EmptyBody.root = FALSE BY EmptyBodyIs
  <1>6. Typed' BY <1>1, <1>2, <1>5 DEF Typed, Task, Way
  <1>7. Placed' BY <1>1, <1>2, <1>3, <1>4, <1>5 DEF Placed
  <1>8. InOrder' BY <1>1, <1>4, <1>5, IdleNext
  <1> QED BY <1>6, <1>7, <1>8

(* Steps that touch neither the body nor the stage.                        *)
LEMMA AsideKeeps ==
  ASSUME IInv, SupplyStub \/ Resume \/ UNCHANGED vars
  PROVE  Typed' /\ Placed' /\ InOrder'
  <1>1. /\ UNCHANGED <<code, body, status, purge, active, stage, redo, busy, at, tasks, flow,
                       resume, redone, cut>>
        /\ stub' \in Cleanups \cup {None} /\ paused' \in {paused, FALSE}
    BY DEF SupplyStub, Resume, vars, lifeVars, funcVars, genVars, rnaVars, IInv, Typed
  <1>2. Typed /\ Placed BY DEF IInv
  <1>3. (Gen' <=> Gen) /\ (Ana' <=> Ana) BY <1>1 DEF Gen, Ana
  <1>4. Typed' BY <1>1, <1>2 DEF Typed, Task, Way
  <1>5. Placed'
    <2>1. at # 0 => ~paused' BY <1>1, <1>2 DEF Placed
    <2> QED BY <1>1, <1>2, <1>3, <2>1 DEF Placed
  <1>6. InOrder'
    <2>1. CASE Gen
      <3>1. ~body.broken => Builds(body, tasks, at) BY <2>1 DEF IInv, InOrder
      <3>2. ~body'.broken => Builds(body, tasks, at)' BY <1>1, <3>1, BuildsNext
      <3>3. ~Ana' BY <1>3, <2>1 DEF Gen, Ana
      <3> QED BY <1>3, <2>1, <3>2, <3>3 DEF InOrder
    <2>2. CASE ~Gen BY <1>1, <1>3, <2>2, IdleNext DEF IInv, InOrder
    <2> QED BY <2>1, <2>2
  <1> QED BY <1>4, <1>5, <1>6

LEMMA InitIInv == Init => IInv
  <1> SUFFICES ASSUME Init PROVE IInv
    OBVIOUS
  <1>1. Life BY InitLife
  <1>2. /\ code \in Programs /\ body = EmptyBody /\ stub = None /\ purge = 0 /\ active = FALSE
        /\ redo = FALSE /\ paused = FALSE /\ busy = FALSE /\ tasks = <<>> /\ at = 0
        /\ flow = <<>> /\ resume = NoOp /\ redone = {} /\ cut = FALSE
    BY DEF Init
  <1>3. EmptyBody \in Body /\ Tiled(EmptyBody) /\ EmptyBody.root = FALSE BY EmptyBodyIs
  <1>4. Typed
    <2>1. tasks \in Seq(Task) /\ flow \in Seq(Way) BY <1>2
    <2>2. code \in Programs /\ body \in Body BY <1>2, <1>3
    <2>3. stub \in Cleanups \cup {None} /\ purge \in Int BY <1>2
    <2>4. redo \in BOOLEAN /\ paused \in BOOLEAN /\ busy \in BOOLEAN /\ cut \in BOOLEAN BY <1>2
    <2>5. at \in Addr \cup {0} /\ resume \in Op \cup {NoOp} /\ redone \subseteq Addr BY <1>2
    <2> QED BY <2>1, <2>2, <2>3, <2>4, <2>5 DEF Typed
  <1>5. ~Gen /\ ~Ana BY <1>2 DEF Gen, Ana
  <1>6. Placed BY <1>2, <1>3, <1>5 DEF Placed
  <1>7. InOrder BY <1>2, <1>3, <1>5 DEF InOrder
  <1> QED BY <1>1, <1>4, <1>6, <1>7 DEF IInv

LEMMA NextIInv == IInv /\ [Next]_vars => IInv'
  <1> SUFFICES ASSUME IInv, [Next]_vars PROVE IInv'
    OBVIOUS
  <1>1. Life' BY NextLife DEF IInv
  <1>2. Typed' /\ Placed' /\ InOrder'
    <2>1. CASE Building BY <2>1, BuildingKeeps
    <2>2. CASE GenerateDone BY <2>2, GenerateDoneKeeps
    <2>3. CASE FlowDone BY <2>3, FlowDoneKeeps
    <2>4. CASE Drop \/ Analyze BY <2>4, AnalysisKeeps
    <2>5. CASE LaterStage \/ FinalStage BY <2>5, LaterKeeps
    <2>6. CASE Finish BY <2>6, FinishKeeps
    <2>7. CASE Decompile BY <2>7, DecompileIs
    <2>8. CASE Purge BY <2>8, PurgeKeeps
    <2>9. CASE Stop BY <2>9, StopKeeps
    <2>10. CASE SupplyStub \/ Resume \/ UNCHANGED vars BY <2>10, AsideKeeps
    <2> QED
      BY <2>1, <2>2, <2>3, <2>4, <2>5, <2>6, <2>7, <2>8, <2>9, <2>10
      DEF Next, Core, User, Generation, Analysis, Building
  <1> QED BY <1>1, <1>2 DEF IInv

LEMMA AlwaysIInv == Spec => []IInv
  BY InitIInv, NextIInv, PTL DEF Spec

-----------------------------------------------------------------------------
(* What follows.                                                           *)

LEMMA TypesFollow == Typed /\ Life => TypeOK
  <1> SUFFICES ASSUME Typed, Life PROVE TypeOK
    OBVIOUS
  <1>1. /\ body.ops \in [Addr -> Seq(Op)]
        /\ body.ref \in [Addr -> Addr \cup {Exit, None}]
        /\ body.sin \in [Op -> Int]
        /\ body.map \in [Addr \cup {Out} -> Addr \cup {Gap, None}]
    BY DEF Typed, Body
  <1> QED BY <1>1 DEF Typed, Life, TypeOK, Task, Way

(* All state keeps its type: no task, path or operation is ever taken from *)
(* where there is none, for any code.                                      *)
THEOREM TypesHold == Spec => []TypeOK
  <1>1. IInv => TypeOK BY TypesFollow DEF IInv
  <1> QED BY <1>1, AlwaysIInv, PTL

LEMMA TilingFollows == IInv => PathsTile
  <1> SUFFICES ASSUME IInv, ~body.broken PROVE PathsTile
    BY DEF PathsTile
  <1>1. body \in Body /\ Tiled(body) /\ (Gen => Mapped(body))
    BY DEF IInv, Typed, InOrder, Builds
  <1>2. \A p \in Live : IsRun(p, body.ops[p])
    BY <1>1, BodyFields DEF Live, Tiled
  <1>3. Generating => \A a \in Addr : IF a \in Live THEN body.map[a] = a
                                      ELSE body.map[a] \in {None, Gap}
    BY <1>1 DEF Generating, Gen, Live, Mapped
  <1>4. ASSUME NEW i \in DOMAIN body.tree, NEW j \in DOMAIN body.tree, i < j
        PROVE  /\ body.tree[i] # Exit
               /\ body.tree[j] = Exit \/ body.tree[i] < body.tree[j]
               /\ body.tree[j] # Exit /\ OpsOf(body, body.tree[i]) # <<>> =>
                     TailOp(body, body.tree[i])[1] < body.tree[j]
    <2>1. body.tree \in Seq(Addr \cup {Exit}) BY <1>1 DEF Body
    <2>2. i \in 1 .. Len(body.tree) /\ j \in 1 .. Len(body.tree) BY <1>4, <2>1
    <2> DEFINE p == body.tree[i]
               q == body.tree[j]
    <2>3. p # Exit /\ (q = Exit \/ p < q) BY <1>1, <1>4, <2>2 DEF Tiled, Ordered
    <2>4. p \in Range(body.tree) /\ q \in Range(body.tree) BY <2>1, <2>2, RangeFacts
    <2> HIDE DEF p, q
    <2>5. ASSUME q # Exit, OpsOf(body, p) # <<>> PROVE TailOp(body, p)[1] < q
      <3>1. p \in Paths(body) /\ q \in Paths(body) BY <2>3, <2>4, <2>5 DEF Paths
      <3>2. p \in Addr /\ q \in Addr BY <1>1, <3>1, BodyFields
      <3>3. body.ops[p] # <<>> /\ TailOp(body, p) = Last(body.ops[p])
        BY <2>5, <3>2 DEF OpsOf, TailOp
      <3>4. EndOf(body, p) <= q BY <1>1, <2>3, <2>5, <3>1 DEF Tiled
      <3>5. EndOf(body, p) = Last(body.ops[p])[1] + 1 /\ Last(body.ops[p])[1] \in Addr
        BY <1>1, <3>1, <3>3, EndOfBounds
      <3> QED BY <3>2, <3>3, <3>4, <3>5, Bounds
    <2> QED BY <2>3, <2>5 DEF p, q
  <1> QED BY <1>2, <1>3, <1>4 DEF PathsTile

(* The paths of a body stay in order, whole and apart from each other, and *)
(* the map names them (PathMap_t::assurePathBeginsAt, createPathBefore,    *)
(* SplitPath, the rollback of a StubFault_t), for every function.          *)
THEOREM PathsAlwaysTile == Spec => []PathsTile
  BY AlwaysIInv, TilingFollows, PTL

-----------------------------------------------------------------------------
(* The refinement.                                                         *)

(* The instructions found are those in the paths of the tree.              *)
MapIs == Found = IF body.broken THEN {} ELSE Has(body, tasks)

LEMMA FoundIs == IInv => MapIs
  <1> SUFFICES ASSUME IInv PROVE MapIs
    OBVIOUS
  <1>1. CASE body.broken BY <1>1 DEF MapIs, Found
  <1>2. CASE ~body.broken
    <2>1. body \in Body /\ Tiled(body) BY <1>2 DEF IInv, Typed, InOrder, Builds
    <2>2. Paths(body) \subseteq Addr BY <2>1, BodyFields
    <2>3. \A p \in Addr \ Paths(body) : Range(body.ops[p]) = {} BY <2>1 DEF Tiled, Range
    <2>4. \A a \in Addr : Whole(a) <=> Last(Parts(a)) \in Contents(body)
      BY <2>2, <2>3 DEF Whole, Live, Contents
    <2>5. Found = {a \in Addr : /\ Whole(a)
                                /\ \A i \in DOMAIN tasks : tasks[i].roll > 0 => tasks[i].at # a}
      BY <1>2 DEF Found
    <2> QED BY <1>2, <2>4, <2>5 DEF MapIs, Has
  <1> QED BY <1>1, <1>2

Linked == IInv /\ MapIs

LEMMA AlwaysLinked == Spec => []Linked
  <1>1. IInv => Linked BY FoundIs DEF Linked
  <1> QED BY <1>1, AlwaysIInv, PTL

(* The function's code is what it was.                                     *)
LEMMA LinksStay ==
  ASSUME Linked, Linked', code' = code
  PROVE  /\ Links' = Links
         /\ Found \subseteq Addr
         /\ ~body.broken => Found = Has(body, tasks)
         /\ ~body'.broken => Found' = Has(body', tasks')
         /\ body'.broken => Found' = {}
  <1>1. Links' = Links BY DEF Links, Succ
  <1>2. Has(body, tasks)' = Has(body', tasks') BY HasNext
  <1>3. Found \subseteq Addr BY DEF Found
  <1> QED BY <1>1, <1>2, <1>3 DEF Linked, MapIs

LEMMA ReachIs ==
  ASSUME Found \subseteq Addr, NEW a \in Addr
  PROVE  Code!Reach(a) <=> a \in Leading(Found)
  <1>1. \A b \in Found : Links[b].succ = Succ(b) BY DEF Links
  <1> QED BY <1>1 DEF Code!Reach, Leading

LEMMA LinksAre == DOMAIN Links = Addr
  BY DEF Links

AbstractStep == [Code!Next]_(Code!vars)

LEMMA TakesOne ==
  ASSUME Links' = Links, Found \subseteq Addr, ~Ready, ~Ready', ~Stopped, ~Stopped',
         NEW a \in Leading(Found), Found' = Found \cup {a}
  PROVE  AbstractStep
  <1>1. Ready' = Ready /\ Stopped' = Stopped BY DEF Ready, Stopped
  <1>2. CASE a \in Found
    <2>1. Found' = Found BY <1>2
    <2> QED BY <1>1, <2>1 DEF AbstractStep, Code!vars
  <1>3. CASE a \notin Found
    <2>1. a \in Addr BY DEF Leading
    <2>2. Code!Reach(a) BY <2>1, ReachIs
    <2>3. Code!Take(a) BY <1>1, <1>3, <2>1, <2>2, LinksAre DEF Code!Take
    <2> QED BY <2>1, <2>3, LinksAre DEF AbstractStep, Code!Next
  <1> QED BY <1>2, <1>3

LEMMA HandsOn ==
  ASSUME Links' = Links, Found \subseteq Addr, Found' = Found, Stopped' = Stopped,
         Ready' => Stopped \/ Leading(Found) \subseteq Found
  PROVE  AbstractStep
  <1>1. CASE ~Ready'
    <2>1. Ready' = FALSE BY <1>1 DEF Ready
    <2>2. Code!Withdraw BY <2>1 DEF Code!Withdraw
    <2> QED BY <2>2 DEF AbstractStep, Code!Next
  <1>2. CASE Ready'
    <2>1. Ready' = TRUE BY <1>2 DEF Ready
    <2>2. Stopped \/ \A a \in DOMAIN Links : Code!Reach(a) => a \in Found
      BY <1>2, ReachIs, LinksAre
    <2>3. Code!HandOn BY <2>1, <2>2 DEF Code!HandOn
    <2> QED BY <2>3 DEF AbstractStep, Code!Next
  <1> QED BY <1>1, <1>2

LEMMA Destroys ==
  ASSUME Links' = Links, Found' = {}, ~Ready', ~Stopped'
  PROVE  AbstractStep
  <1>1. Ready' = FALSE /\ Stopped' = FALSE BY DEF Ready, Stopped
  <1>2. Code!Destroy BY <1>1 DEF Code!Destroy
  <1> QED BY <1>2 DEF AbstractStep, Code!Next

LEMMA GivesUp ==
  ASSUME Links' = Links, Found \subseteq Addr, ~Ready, ~Ready', Stopped',
         Found' = Found \/ \E a \in Leading(Found) : Found' = Found \cup {a}
  PROVE  AbstractStep
  <1>1. Ready' = Ready /\ Stopped' = TRUE BY DEF Ready, Stopped
  <1>2. \A a \in Leading(Found) : a \in {b \in DOMAIN Links : Code!Reach(b)}
    BY ReachIs, LinksAre DEF Leading
  <1>3. Found' \in {Found} \cup {Found \cup {a} : a \in {b \in DOMAIN Links : Code!Reach(b)}}
    BY <1>2
  <1>4. Code!GiveUp BY <1>1, <1>3 DEF Code!GiveUp
  <1> QED BY <1>4 DEF AbstractStep, Code!Next

(* A body the code reads no more stays as it is.                           *)
LEMMA BrokenStays ==
  ASSUME Linked, Linked', [Next]_vars, body.broken
  PROVE  AbstractStep
  <1>1. body' = body /\ code' = code
    BY DEF Next, Core, User, Generation, Analysis, StartTask, RunInto, CallUnknown, Straight, Jump,
           Return, GenerateDone, Generating, FlowDone, Drop, Analyze, Analyzing, LaterStage,
           FinalStage, Finish, Close, Decompile, Purge, SupplyStub, Resume, Stop, vars
  <1>2. Links' = Links /\ Found' = {} BY <1>1, LinksStay
  <1>3. ~Ready' /\ ~Stopped' BY <1>1 DEF Ready, Stopped
  <1> QED BY <1>2, <1>3, Destroys

(* In the first stage the body is not handed on.                           *)
LEMMA NotReady ==
  ASSUME Life, active, stage = 1
  PROVE  ~Ready
  <1>1. status \in {Phase0, Phase1, Error} BY DEF Life, StatusFits
  <1> QED BY <1>1 DEF Ready, Finished, Phase0, Phase1, Phase2, Error

LEMMA NotReadyNext ==
  ASSUME Life', active', stage' = 1
  PROVE  ~Ready'
  <1>1. status' \in {Phase0, Phase1, Error} BY DEF Life, StatusFits
  <1> QED BY <1>1 DEF Ready, Finished, Phase0, Phase1, Phase2, Error

LEMMA BuildingMaps ==
  ASSUME Linked, Linked', Building
  PROVE  AbstractStep
  <1>1. /\ Gen /\ ~body.broken /\ Step(body', tasks', at')
        /\ UNCHANGED <<code, active, stage, cut>>
    BY BuildingIs DEF Linked
  <1>2. ~Ready /\ ~Ready'
    BY <1>1, NotReady, NotReadyNext DEF Linked, IInv, Gen
  <1>3. ~cut /\ ~cut' BY <1>1 DEF Linked, IInv, Placed
  <1>4. ~Stopped /\ ~Stopped' BY <1>3 DEF Stopped
  <1>5. Links' = Links /\ Found \subseteq Addr /\ Found = Has(body, tasks)
    BY <1>1, LinksStay
  <1>6. CASE body'.broken
    <2>1. Found' = {} BY <1>1, <1>6, LinksStay
    <2> QED BY <1>2, <1>4, <1>5, <2>1, Destroys
  <1>7. CASE ~body'.broken
    <2>1. Found' = Has(body', tasks') BY <1>1, <1>7, LinksStay
    <2>2. CASE Found' = Found
      <3>1. Stopped' = Stopped BY <1>4 DEF Stopped
      <3> QED BY <1>2, <1>5, <2>2, <3>1, HandsOn
    <2>3. CASE \E a \in Leading(Found) : Found' = Found \cup {a}
      BY <1>2, <1>4, <1>5, <2>3, TakesOne
    <2> QED BY <1>1, <1>5, <1>7, <2>1, <2>2, <2>3 DEF Step
  <1> QED BY <1>6, <1>7

(* Outside the generation a body that was not cut short can be handed on   *)
(* as it is.                                                               *)
LEMMA IdleMaps ==
  ASSUME Linked, Linked', ~Gen, code' = code, cut' = cut, ~body.broken, ~body'.broken,
         Has(body', tasks') = Has(body, tasks),
         Ready' => body.root
  PROVE  AbstractStep
  <1>1. /\ Links' = Links /\ Found \subseteq Addr
        /\ Found = Has(body, tasks) /\ Found' = Has(body', tasks')
    BY LinksStay
  <1>2. Found' = Found /\ Found = Has(body, <<>>)
    BY <1>1 DEF Linked, IInv, Placed
  <1>3. Stopped' = Stopped BY DEF Stopped
  <1>4. Ready' => Stopped \/ Leading(Found) \subseteq Found
    BY <1>2 DEF Linked, IInv, InOrder, Complete, Stopped
  <1> QED BY <1>1, <1>2, <1>3, <1>4, HandsOn

LEMMA SameContents ==
  ASSUME NEW b, NEW c, NEW t, Contents(c) = Contents(b)
  PROVE  Has(c, t) = Has(b, t)
  BY DEF Has

LEMMA AnalysisMaps ==
  ASSUME Linked, Linked', Drop \/ Analyze
  PROVE  AbstractStep
  <1>1. /\ Analyzing /\ SameShape(body, body')
        /\ UNCHANGED <<code, active, stage, redo, tasks, cut>>
    BY AnalysisKeeps DEF Linked
  <1>2. /\ ~Gen /\ ~body.broken /\ body \in Body /\ active /\ stage = 1
    BY <1>1 DEF Analyzing, Gen, Linked, IInv, Typed
  <1>3. ~Ready' BY <1>1, <1>2, NotReadyNext DEF Linked, IInv
  <1>4. CASE body'.broken
    <2>1. Links' = Links /\ Found' = {} BY <1>1, <1>4, LinksStay
    <2>2. ~Stopped' BY <1>4 DEF Stopped
    <2> QED BY <1>3, <2>1, <2>2, Destroys
  <1>5. CASE ~body'.broken
    <2>1. Tiled(body) BY <1>2 DEF Linked, IInv, InOrder
    <2>2. Contents(body') = Contents(body) BY <1>1, <1>2, <2>1, SamePaths DEF SameShape
    <2>3. Has(body', tasks') = Has(body, tasks) BY <1>1, <2>2, SameContents
    <2> QED BY <1>1, <1>2, <1>3, <1>5, <2>3, IdleMaps
  <1> QED BY <1>4, <1>5

LEMMA GenerateDoneMaps ==
  ASSUME Linked, Linked', GenerateDone
  PROVE  AbstractStep
  <1>1. /\ Gen /\ ~body.broken /\ at = 0 /\ tasks = <<>> /\ tasks' = tasks /\ cut' = cut
        /\ body' = Forget(body) /\ code' = code
    BY DEF GenerateDone, Generating, Gen, genVars
  <1>2. body \in Body /\ Builds(body, tasks, at)
    BY <1>1 DEF Linked, IInv, Typed, InOrder
  <1>3. SameShape(body, body') /\ ~body'.broken BY <1>1, <1>2, ForgetIs
  <1>4. Contents(body') = Contents(body) BY <1>2, <1>3, SamePaths DEF SameShape, Builds
  <1>5. /\ Links' = Links /\ Found \subseteq Addr
        /\ Found = Has(body, tasks) /\ Found' = Has(body', tasks')
    BY <1>1, <1>3, LinksStay
  <1>6. Found' = Found BY <1>1, <1>4, <1>5, SameContents
  <1>7. Leading(Found) \subseteq Found
    <2>1. Waits(<<>>, 0) = {} BY DEF Waits
    <2>2. Covers(body, <<>>, 0) BY <1>1, <1>2 DEF Builds
    <2> QED BY <1>1, <1>5, <2>1, <2>2 DEF Covers
  <1>8. Stopped' = Stopped BY <1>1, <1>3 DEF Stopped
  <1> QED BY <1>5, <1>6, <1>7, <1>8, HandsOn

LEMMA PipelineMaps ==
  ASSUME Linked, Linked', FlowDone \/ LaterStage \/ FinalStage \/ Finish, ~body.broken
  PROVE  AbstractStep
  <1>1. body' = body /\ code' = code /\ cut' = cut
    BY DEF FlowDone, LaterStage, FinalStage, Finish, Close
  <1>2. ~Gen
    <2>1. CASE FlowDone BY <2>1 DEF FlowDone, Analyzing, Gen
    <2>2. CASE ~FlowDone
      <3>1. stage # 1 BY <2>2, PipelineLength DEF LaterStage, FinalStage, Finish
      <3> QED BY <3>1 DEF Gen
    <2> QED BY <2>1, <2>2
  <1>3. tasks = <<>> BY <1>2 DEF Linked, IInv, Placed
  <1>4. tasks' = tasks
    BY <1>3 DEF FlowDone, LaterStage, FinalStage, Finish, Close, genVars
  <1>5. Ready' => body.root BY <1>1 DEF Ready
  <1>6. Has(body', tasks') = Has(body, tasks) BY <1>1, <1>4
  <1> QED BY <1>1, <1>2, <1>5, <1>6, IdleMaps

LEMMA DecompileMaps ==
  ASSUME Linked, Linked', Decompile
  PROVE  AbstractStep
  <1>1. /\ UNCHANGED <<code, cut>> /\ Contents(body') = Contents(body)
        /\ ~body.broken /\ ~body'.broken
        /\ tasks = <<>> /\ Has(body', tasks') = Has(body', <<>>)
    BY DecompileIs DEF Linked
  <1>2. ~active /\ active' = TRUE /\ stage' = 1 BY DEF Decompile
  <1>3. ~Gen BY <1>2 DEF Gen
  <1>4. ~Ready' BY <1>2, NotReadyNext DEF Linked, IInv
  <1>5. Has(body', tasks') = Has(body, tasks) BY <1>1, SameContents
  <1> QED BY <1>1, <1>3, <1>4, <1>5, IdleMaps

LEMMA PurgeMaps ==
  ASSUME Linked, Linked', Purge
  PROVE  AbstractStep
  <1>1. body' = EmptyBody /\ code' = code /\ cut' = FALSE BY DEF Purge
  <1>2. ~body'.broken /\ Contents(body') = {} /\ body'.root = FALSE BY <1>1, EmptyBodyIs
  <1>3. Links' = Links /\ Found' = Has(body', tasks') BY <1>1, <1>2, LinksStay
  <1>4. Found' = {} BY <1>2, <1>3 DEF Has
  <1>5. ~Ready' /\ ~Stopped' BY <1>1, <1>2 DEF Ready, Stopped
  <1> QED BY <1>3, <1>4, <1>5, Destroys

(* A task dropped leaves a call that was to be rolled back in the body.    *)
LEMMA LeftBehind ==
  ASSUME Typed, Gen, ~body.broken, Builds(body, tasks, 0)
  PROVE  \/ Has(body, <<>>) = Has(body, tasks)
         \/ \E a \in Leading(Has(body, tasks)) : Has(body, <<>>) = Has(body, tasks) \cup {a}
  <1> DEFINE F == Has(body, tasks)
             G == Has(body, <<>>)
             x == Head(tasks).at
  <1>1. tasks \in Seq(Task) BY DEF Typed
  <1>2. G = {a \in Addr : Last(Parts(a)) \in Contents(body)} BY DEF Has
  <1>3. CASE ~Rolls(tasks)
    <2>1. NoRoll(tasks) BY <1>1, <1>3, NothingRolls DEF Builds
    <2>2. F = {a \in Addr : Last(Parts(a)) \in Contents(body)} BY <1>1, <2>1, HasWhenNoRoll
    <2> QED BY <1>2, <2>2
  <1>4. CASE Rolls(tasks)
    <2>1. tasks # <<>> BY <1>4 DEF Rolls
    <2>2. DOMAIN tasks = 1 .. Len(tasks) /\ x = tasks[1].at BY <1>1, <2>1
    <2>3. \A i \in DOMAIN tasks : tasks[i].roll > 0 => i = 1
      <3>1. \A i \in 1 .. Len(tasks) : i > 1 => tasks[i].roll = 0 BY DEF Builds, RollsOnce
      <3> QED BY <1>1, <2>2, <3>1
    <2>4. G \subseteq F \cup {x} /\ F \subseteq G BY <1>2, <2>2, <2>3 DEF Has
    <2>5. x \in Leading(F)
      <3>1. x # 0 /\ x \in Addr
        <4>1. Head(tasks) \in Task BY <1>1, <2>1
        <4> QED BY <4>1, Bounds DEF Task
      <3>2. x \in Waits(tasks, 0)
        <4>1. 1 \in 1 .. Len(tasks) BY <1>1, <2>1
        <4> QED BY <2>2, <3>1, <4>1, InWaits
      <3> QED BY <3>2 DEF Builds, Covers
    <2> HIDE DEF F, G, x
    <2>6. G = F \/ G = F \cup {x} BY <2>4
    <2> QED BY <2>5, <2>6 DEF F, G
  <1> QED BY <1>3, <1>4

LEMMA StopMaps ==
  ASSUME Linked, Linked', Stop
  PROVE  AbstractStep
  <1>1. /\ active /\ at = 0 /\ ~body.broken /\ tasks' = <<>> /\ body' = Forget(body)
        /\ code' = code /\ cut' = (cut \/ (stage = 1 /\ ~redo))
    BY DEF Stop, Close
  <1>2. Typed /\ Life /\ body \in Body /\ Tiled(body)
    BY <1>1 DEF Linked, IInv, Typed, InOrder, Builds
  <1>3. SameShape(body, body') /\ ~body'.broken BY <1>1, <1>2, ForgetIs
  <1>4. Contents(body') = Contents(body) BY <1>2, <1>3, SamePaths DEF SameShape
  <1>5. Has(body', tasks') = Has(body, <<>>) BY <1>1, <1>4, SameContents
  <1>6. CASE Gen
    <2>1. ~Ready BY <1>2, <1>6, NotReady DEF Gen
    <2>2. ~Ready'
      <3>1. status \in {Phase0, Phase1, Error} BY <1>2, <1>6 DEF Gen, Life, StatusFits
      <3>2. status' = Error
        <4>1. status # Finished BY <3>1 DEF Finished, Phase0, Phase1, Error
        <4> QED BY <1>2, <4>1, RaisedStatus DEF Stop, Close, Life
      <3> QED BY <3>2 DEF Ready, Finished, Phase2, Error
    <2>3. Stopped' BY <1>1, <1>3, <1>6 DEF Stopped, Gen
    <2>4. /\ Links' = Links /\ Found \subseteq Addr
          /\ Found = Has(body, tasks) /\ Found' = Has(body', tasks')
      BY <1>1, <1>3, LinksStay
    <2>5. Builds(body, tasks, 0) BY <1>1, <1>6 DEF Linked, IInv, InOrder
    <2>6. Found' = Found \/ \E a \in Leading(Found) : Found' = Found \cup {a}
      BY <1>1, <1>2, <1>5, <1>6, <2>4, <2>5, LeftBehind
    <2> QED BY <2>1, <2>2, <2>3, <2>4, <2>6, GivesUp
  <1>7. CASE ~Gen
    <2>1. tasks = <<>> BY <1>7 DEF Linked, IInv, Placed
    <2>2. cut' = cut BY <1>1, <1>2, <1>7 DEF Gen, Typed
    <2>3. Ready' => body.root BY <1>3 DEF Ready, SameShape
    <2>4. Has(body', tasks') = Has(body, tasks) BY <1>5, <2>1
    <2> QED BY <1>1, <1>3, <1>7, <2>2, <2>3, <2>4, IdleMaps
  <1> QED BY <1>6, <1>7

LEMMA AsideMaps ==
  ASSUME Linked, Linked', SupplyStub \/ Resume \/ UNCHANGED vars
  PROVE  AbstractStep
  <1>1. UNCHANGED <<code, body, status, tasks, cut>>
    BY DEF SupplyStub, Resume, vars, lifeVars, funcVars, genVars
  <1>2. Links' = Links BY <1>1, LinksStay
  <1>3. Found' = Found
    <2>1. CASE body.broken BY <1>1, <2>1, LinksStay DEF Linked, MapIs
    <2>2. CASE ~body.broken
      <3>1. ~body'.broken BY <1>1, <2>2
      <3>2. Found = Has(body, tasks) /\ Found' = Has(body', tasks') BY <1>1, <2>2, <3>1, LinksStay
      <3>3. body' = body /\ tasks' = tasks BY <1>1
      <3> QED BY <3>2, <3>3
    <2> QED BY <2>1, <2>2
  <1>4. Ready' = Ready /\ Stopped' = Stopped BY <1>1 DEF Ready, Stopped
  <1> QED BY <1>2, <1>3, <1>4 DEF AbstractStep, Code!vars

LEMMA NextMaps == Linked /\ Linked' /\ [Next]_vars => AbstractStep
  <1> SUFFICES ASSUME Linked, Linked', [Next]_vars, ~body.broken PROVE AbstractStep
    BY BrokenStays
  <1>1. CASE Building BY <1>1, BuildingMaps
  <1>2. CASE GenerateDone BY <1>2, GenerateDoneMaps
  <1>3. CASE Drop \/ Analyze BY <1>3, AnalysisMaps
  <1>4. CASE FlowDone \/ LaterStage \/ FinalStage \/ Finish BY <1>4, PipelineMaps
  <1>5. CASE Decompile BY <1>5, DecompileMaps
  <1>6. CASE Purge BY <1>6, PurgeMaps
  <1>7. CASE Stop BY <1>7, StopMaps
  <1>8. CASE SupplyStub \/ Resume \/ UNCHANGED vars BY <1>8, AsideMaps
  <1> QED
    BY <1>1, <1>2, <1>3, <1>4, <1>5, <1>6, <1>7, <1>8
    DEF Next, Core, User, Generation, Analysis, Building

LEMMA InitMaps == Init => Code!Init
  <1> SUFFICES ASSUME Init PROVE Code!Init
    OBVIOUS
  <1>1. body = EmptyBody /\ cut = FALSE /\ body.root = FALSE BY EmptyBodyIs DEF Init
  <1>2. MapIs BY InitIInv, FoundIs
  <1>3. Contents(body) = {} BY <1>1, EmptyBodyIs
  <1>4. Found = {} BY <1>2, <1>3 DEF MapIs, Has
  <1>5. Ready = FALSE /\ Stopped = FALSE BY <1>1 DEF Ready, Stopped
  <1> QED BY <1>4, <1>5 DEF Code!Init

(* Generating a function (PCodeTracer_t::GeneratePseudoCode, the stack of  *)
(* GenerateStage_t) takes only code the function can reach, an instruction *)
(* at a time, and hands on a body nothing reachable is missing in, unless  *)
(* the user gave it up: for every function, whatever is interrupted,       *)
(* rolled back, stopped, purged or decompiled again.                       *)
THEOREM AllCodeIsHandedOn == Spec => HandsOnAllCode
  <1>1. Init => Code!Init BY InitMaps
  <1>2. Linked /\ Linked' /\ [Next]_vars => [Code!Next]_(Code!vars)
    BY NextMaps DEF AbstractStep
  <1> QED BY <1>1, <1>2, AlwaysLinked, PTL DEF Spec, HandsOnAllCode, Code!Spec
=============================================================================
