----------------------------- MODULE Decompiler -----------------------------
(***************************************************************************)
(* The decompiler of one function (ana_main.cpp, ana_pcode.cpp): a new     *)
(* function has its body generated from the code (GEN), one that has a     *)
(* body is analysed again along the flow (RNA); the later stages follow.   *)
(* A call of a function nobody has described interrupts either of the two: *)
(* the decompiler pauses, the user supplies a stub and lets it go on. The  *)
(* user may stop it between two steps, decompile again, or purge the body. *)
(***************************************************************************)
EXTENDS PathTree

CONSTANTS Stages,   \* the length of the pipeline; the last stage is FIN
          Cleanups  \* what the callee may remove from the stack

ASSUME StagesAssumption == Stages \in Nat /\ Stages > 1 /\ Cleanups \subseteq Nat

VARIABLES status,  \* FDEF_STATUS_MASK of the function's flags
          purge,   \* getPStackPurge(): what the function removes, 0 for unknown
          active,  \* there is a decompiler
          stage,   \* the stage it is at; Stages + 1 when none is left
          redo,    \* mbRedecomp: the first stage is RNA, not GEN
          paused,  \* StopFlag::PAUSE: waits for the user
          busy,    \* within run() of the first stage
          tasks,   \* GEN: m_stack
          at,      \* GEN: the address of the next instruction, or 0
          flow,    \* RNA: the stack of the flow iterator
          resume,  \* RNA: op(), where to go on in the path on top, or NoOp
          cut,     \* the body is one whose generation was stopped
          redone   \* the paths RNA went on with after an interruption

lifeVars == <<active, stage, redo, paused>>
funcVars == <<status, purge>>
genVars == <<tasks, at>>
rnaVars == <<flow, resume, redone>>
vars == <<code, body, stub, funcVars, lifeVars, busy, genVars, rnaVars, cut>>

Undefined == 0
Finished == 1   \* FDEF_DC_FINISHED_OK, and FDEF_DEFINED of a stub
Phase0 == 2
Phase1 == 3
Phase2 == 4
Error == 15

(* SetFuncStatus: never lower!                                             *)
Raised(old, new) == IF new < old THEN old ELSE new

Live == Paths(body)

TypeOK ==
    /\ code \in Programs
    /\ stub \in Cleanups \cup {None}
    /\ status \in {Undefined, Finished, Phase0, Phase1, Phase2, Error}
    /\ purge \in Int
    /\ active \in BOOLEAN /\ redo \in BOOLEAN /\ paused \in BOOLEAN /\ busy \in BOOLEAN
    /\ stage \in 1 .. Stages + 1
    /\ at \in Addr \cup {0}
    /\ cut \in BOOLEAN
    /\ tasks \in Seq([at : Addr, ref : Addr \cup {0}, roll : 0 .. 2])
    /\ flow \in Seq([path : Addr \cup {Exit, None}, from : Addr \cup {None}])
    /\ resume \in Op \cup {NoOp}
    /\ redone \subseteq Addr
    /\ body.ops \in [Addr -> Seq(Op)]
    /\ body.ref \in [Addr -> Addr \cup {Exit, None}]
    /\ body.sin \in [Op -> Int]
    /\ body.map \in [Addr \cup {Out} -> Addr \cup {Gap, None}]

Init ==
    /\ code \in Programs
    /\ body = EmptyBody
    /\ stub = None
    /\ status = Undefined /\ purge = 0
    /\ active = FALSE /\ stage = Stages + 1 /\ redo = FALSE
    /\ paused = FALSE /\ busy = FALSE
    /\ tasks = <<>> /\ at = 0
    /\ flow = <<>> /\ resume = NoOp /\ redone = {}
    /\ cut = FALSE

-----------------------------------------------------------------------------
(* The pipeline.                                                           *)

(* Mutant of StageDone: the error does not empty the pipeline.             *)
StageDoneAnyway(s) ==
    stage' = stage + 1 /\ status' = IF stage = 1 THEN Raised(s, Phase2) ELSE s

(* runOnce when run() returned DONE and left the status s. An error empties *)
(* the pipeline; the first stage sets FDEF_DC_PHASE2 when it is deleted.   *)
StageDone(s) ==
    IF s = Error
    THEN stage' = Stages + 1 /\ status' = s
    ELSE stage' = stage + 1 /\ status' = IF stage = 1 THEN Raised(s, Phase2) ELSE s

(* A return finds the stack as it was, and all returns clean up alike.     *)
AtReturn(o, in) ==
    LET level == StackOut(o, in)
        bad == in # 0 \/ IF purge = 0 THEN level < 0 ELSE level # purge
    IN  /\ status' = IF bad THEN Error ELSE status
        /\ purge' = IF purge = 0 THEN level ELSE purge

(* A stage between the first and the last.                                 *)
LaterStage ==
    /\ active /\ ~paused /\ stage \in 2 .. Stages - 1
    /\ \/ StageDone(status)
       \/ StageDone(Error)
       \/ stage' = Stages + 1 /\ UNCHANGED status   \* STAGE_STATUS_e::FAILED
    /\ UNCHANGED <<code, body, stub, purge, active, redo, paused, busy, genVars, rnaVars, cut>>

FinalStage ==
    /\ active /\ ~paused /\ stage = Stages
    /\ StageDone(Finished)
    /\ UNCHANGED <<code, body, stub, purge, active, redo, paused, busy, genVars, rnaVars, cut>>

(* ~Decompiler_t. GEN takes its path map with it.                          *)
Close ==
    /\ active' = FALSE
    /\ status' = IF status = Finished THEN status ELSE Raised(status, Error)
    /\ stage' = Stages + 1 /\ paused' = FALSE
    /\ tasks' = <<>> /\ flow' = <<>> /\ resume' = NoOp
    /\ UNCHANGED <<code, stub, purge, redo, busy, at, redone>>

Forget(b) == [b EXCEPT !.map = EmptyBody.map, !.cur = None, !.last = NoOp]

Finish ==
    /\ active /\ stage = Stages + 1
    /\ Close
    /\ UNCHANGED <<body, cut>>

-----------------------------------------------------------------------------
(* GEN: GenerateStage_t and PCodeTracer_t::GeneratePseudoCode.             *)

Generating == active /\ ~paused /\ stage = 1 /\ ~redo /\ ~body.broken

StartTask ==
    /\ Generating /\ at = 0 /\ tasks # <<>>
    /\ LET t == Head(tasks)
           b == IF t.roll > 0
                THEN [body EXCEPT !.ops[body.cur] = SubSeq(@, 1, Len(@) - t.roll)]
                ELSE [body EXCEPT !.cur = None]
           from == IF t.ref # 0 THEN GetRefOp(b, t.ref) ELSE b.last
       IN  /\ body' = [b EXCEPT !.last = from]
           /\ at' = t.at
    /\ tasks' = Tail(tasks)
    /\ busy' = TRUE
    /\ UNCHANGED <<code, stub, funcVars, lifeVars, rnaVars, cut>>

(* The task ends; run() goes on with the next one unless the user wants    *)
(* something, and the stage is done when there is none.                    *)
EndTask(left) == tasks' = left /\ at' = 0 /\ busy' = (left = <<>>)

GenerateDone ==
    /\ Generating /\ busy /\ at = 0 /\ tasks = <<>>
    /\ StageDone(status)
    /\ body' = Forget(body)
    /\ busy' = FALSE
    /\ UNCHANGED <<code, stub, purge, active, redo, paused, genVars, rnaVars, cut>>

(* The body with a path registered where the instruction is.               *)
Registered == IF body.cur = None THEN AssurePathBeginsAt(body, at, at) ELSE body

(* The path the flow runs into, if it is not the current one.              *)
NewPath(b) == b.map[at] \in Addr \ {b.cur}

IsProcessed == NewPath(Registered) /\ OpsOf(Registered, Registered.map[at]) # <<>>

Entered ==
    IF NewPath(Registered)
    THEN [Registered EXCEPT !.cur = Registered.map[at], !.done = @ \cup {Registered.map[at]}]
    ELSE Registered

(* An operation at the end of the current path, with the stack as the one  *)
(* before left it.                                                         *)
Put(b, o) ==
    [b EXCEPT !.ops[b.cur] = Append(@, o),
              !.sin[o] = IF b.last = NoOp THEN 0 ELSE Level(b, b.last),
              !.last = o]

Generate ==
    LET b == Put(Entered, <<at, 1>>)
    IN  IF code[at].kind = "call" THEN Put(b, <<at, 2>>) ELSE b

(* Mutant of Fault: the stub the user has supplied is not looked up.       *)
FaultAgain == code[at].kind = "call"

Fault == code[at].kind = "call" /\ stub = None

(* Mutant of RunInto: the levels of the stack are not compared.            *)
RunIntoUnchecked ==
    /\ Generating /\ at # 0 /\ IsProcessed
    /\ body' = Registered
    /\ EndTask(tasks)
    /\ UNCHANGED <<code, stub, funcVars, lifeVars, rnaVars, cut>>

(* The code that follows has been generated before.                        *)
RunInto ==
    /\ Generating /\ at # 0 /\ IsProcessed
    /\ body' = Registered
    /\ status' = IF Registered.sin[HeadOp(Registered, Registered.map[at])]
                       # Level(body, body.last)
                 THEN Error ELSE status
    /\ EndTask(tasks)
    /\ UNCHANGED <<code, stub, purge, lifeVars, rnaVars, cut>>

(* Mutant of CallUnknown: nothing is left to do again.                     *)
CallUnknownOnce ==
    /\ Generating /\ at # 0 /\ ~IsProcessed /\ Fault
    /\ body' = [Put(Entered, <<at, 1>>) EXCEPT !.ops[Entered.cur] = Append(@, <<at, 2>>),
                                               !.last = body.last]
    /\ EndTask(tasks)
    /\ paused' = TRUE
    /\ UNCHANGED <<code, stub, funcVars, active, stage, redo, rnaVars, cut>>

(* Mutant of CallUnknown: the push of the return address stays.            *)
CallUnknownHalf ==
    /\ Generating /\ at # 0 /\ ~IsProcessed /\ Fault
    /\ body' = [Put(Entered, <<at, 1>>) EXCEPT !.ops[Entered.cur] = Append(@, <<at, 2>>),
                                               !.last = body.last]
    /\ EndTask(<<[at |-> at, ref |-> 0, roll |-> 1]>> \o tasks)
    /\ paused' = TRUE
    /\ UNCHANGED <<code, stub, funcVars, active, stage, redo, rnaVars, cut>>

(* StubFault_t: the operations of the call so far are to be removed.       *)
CallUnknown ==
    /\ Generating /\ at # 0 /\ ~IsProcessed /\ Fault
    /\ body' = [Put(Entered, <<at, 1>>) EXCEPT !.ops[Entered.cur] = Append(@, <<at, 2>>),
                                               !.last = body.last]
    /\ EndTask(<<[at |-> at, ref |-> 0, roll |-> 2]>> \o tasks)
    /\ paused' = TRUE
    /\ UNCHANGED <<code, stub, funcVars, active, stage, redo, rnaVars, cut>>

Straight ==
    /\ Generating /\ at # 0 /\ ~IsProcessed /\ ~Fault
    /\ code[at].kind \in {"op", "set", "call"}
    /\ IF at < N
       THEN body' = Generate /\ at' = at + 1 /\ UNCHANGED <<busy, tasks>>
       ELSE body' = [Generate EXCEPT !.cur = None, !.last = NoOp] /\ EndTask(tasks)
    /\ UNCHANGED <<code, stub, funcVars, lifeVars, rnaVars, cut>>

Jump ==
    /\ Generating /\ at # 0 /\ ~IsProcessed
    /\ code[at].kind \in Jumps
    /\ LET to == code[at].to
           b == IF to \in Addr
                THEN [AssurePathBeginsAt(Generate, to, at) EXCEPT !.ref[at] = to]
                ELSE Generate
           left == IF to \in Addr THEN Append(tasks, [at |-> to, ref |-> at, roll |-> 0])
                   ELSE tasks
       IN  IF code[at].kind = "jmp" \/ at = N
           THEN body' = [FinalizePath(b, at) EXCEPT !.last = NoOp] /\ EndTask(left)
           ELSE body' = FinalizePath(b, at) /\ tasks' = left /\ at' = at + 1 /\ UNCHANGED busy
    /\ UNCHANGED <<code, stub, funcVars, lifeVars, rnaVars, cut>>

Return ==
    /\ Generating /\ at # 0 /\ ~IsProcessed
    /\ code[at].kind = "ret"
    /\ LET b == [CreateTailPath(Generate) EXCEPT !.ref[at] = Exit]
       IN  /\ body' = [FinalizePath(b, at) EXCEPT !.last = NoOp]
           /\ AtReturn(<<at, 1>>, b.sin[<<at, 1>>])
    /\ EndTask(tasks)
    /\ UNCHANGED <<code, stub, lifeVars, rnaVars, cut>>

-----------------------------------------------------------------------------
(* RNA: ReAnalyzeStage_t over the flow of the body.                        *)

Analyzing == active /\ ~paused /\ stage = 1 /\ redo /\ ~body.broken

(* operator* and from(): null with the stack empty.                        *)
Top == IF flow = <<>> THEN [path |-> None, from |-> None] ELSE Last(flow)

(* FlowIterator::operator++: the ways on from a path, the next one on top. *)
Ways(p) ==
    LET on(q) == IF q = None THEN <<>> ELSE <<[path |-> q, from |-> p]>>
    IN  CASE BlockType(body, p) = "exit" -> <<>>
          [] BlockType(body, p) = "jmp" -> <<[path |-> GotoPath(body, p), from |-> p]>>
          [] BlockType(body, p) = "jif" -> on(NextPath(body, p)) \o on(GotoPath(body, p))
          [] OTHER -> <<[path |-> NextPath(body, p), from |-> p]>>

(* The loop ends with the stack, and with a path that is not there.        *)
FlowDone ==
    /\ Analyzing
    /\ Top.path = None
    /\ StageDone(status)
    /\ busy' = FALSE
    /\ UNCHANGED <<code, body, stub, purge, active, redo, paused, genVars, rnaVars, cut>>

(* CheckStatus of a path analyzed before, and drop.                        *)
Drop ==
    /\ Analyzing
    /\ Top.path \in body.done
    /\ LET head == HeadOp(body, Top.path)
           from == TailOp(body, Top.from)
       IN  /\ status' = IF head # NoOp /\ from # NoOp /\ body.sin[head] # Level(body, from)
                        THEN Error ELSE status
           /\ body' = [body EXCEPT !.broken = head # NoOp /\ from = NoOp]
    /\ flow' = Front(flow)
    /\ busy' = TRUE
    /\ UNCHANGED <<code, stub, purge, lifeVars, genVars, resume, redone, cut>>

(* The stack before each operation, with in before the first.              *)
Levels(os, first, end, in) ==
    LET level[i \in first .. end] ==
            IF i = first THEN in ELSE StackOut(os[i - 1], level[i - 1])
    IN  level

(* ReAnalyzePath: from its first operation, or from the one to resume at,  *)
(* to the call that interrupts it or to the end.                           *)
Analyze ==
    /\ Analyzing
    /\ Top.path \notin body.done \cup {None}
    /\ LET os == OpsOf(body, Top.path)
           first == IF resume = NoOp THEN 1 ELSE Place(os, resume)
           faults == {i \in first .. Len(os) : IsCall(os[i]) /\ stub = None}
           end == IF faults = {} THEN Len(os) ELSE Min(faults) - 1
           from == IF first > 1 THEN os[first - 1] ELSE TailOp(body, Top.from)
           level == Levels(os, first, end, IF from = NoOp THEN 0 ELSE Level(body, from))
           b == [body EXCEPT !.sin = [o \in Op |->
                    IF \E i \in first .. end : os[i] = o
                    THEN level[CHOOSE i \in first .. end : os[i] = o] ELSE @[o]]]
       IN  IF faults # {}
           THEN /\ body' = b
                /\ resume' = os[end + 1]
                /\ paused' = TRUE /\ busy' = FALSE
                /\ UNCHANGED <<flow, redone, funcVars>>
           ELSE /\ body' = IF resume = NoOp THEN [b EXCEPT !.done = @ \cup {Top.path}] ELSE b
                /\ resume' = NoOp
                /\ flow' = Front(flow) \o Ways(Top.path)
                /\ redone' = IF resume = NoOp THEN redone ELSE redone \cup {Top.path}
                /\ IF os # <<>> /\ IsRetOp(body, Last(os))
                   THEN AtReturn(Last(os), level[end]) ELSE UNCHANGED funcVars
                /\ busy' = TRUE /\ UNCHANGED paused
    /\ UNCHANGED <<code, stub, active, stage, redo, genVars, cut>>

-----------------------------------------------------------------------------
(* The user.                                                               *)

(* FuncCleaner_t::Purge: everything the analysis has found out.            *)
Purged(b) ==
    [Forget(b) EXCEPT !.done = {}, !.sin = [o \in Op |-> 0],
                      !.tree = Kept(@, {p \in Range(@) : OpsOf(b, p) # <<>> \/ HasRefs(b, p)})]

(* Redecompile: the constructor and populate() of the pipeline.            *)
Decompile ==
    /\ ~active /\ ~body.broken
    /\ active' = TRUE /\ stage' = 1 /\ redo' = body.root
    /\ purge' = 0 /\ redone' = {}
    /\ IF body.root
       THEN LET b == Purged(body)
            IN  /\ body' = b
                /\ status' = Phase0
                /\ flow' = <<[path |-> IF b.tree = <<>> THEN None ELSE Head(b.tree),
                              from |-> None]>>
                /\ UNCHANGED tasks
       ELSE /\ body' = [body EXCEPT !.root = TRUE]
            /\ status' = Raised(status, Phase1)
            /\ tasks' = <<[at |-> 1, ref |-> 0, roll |-> 0]>>
            /\ UNCHANGED flow
    /\ UNCHANGED <<code, stub, paused, busy, at, resume, cut>>

(* The command decompile -purge: DestroyBody, and FDEF_DEFINED.            *)
Purge ==
    /\ ~active /\ body.root /\ ~body.broken
    /\ body' = EmptyBody
    /\ status' = Raised(status, Finished)
    /\ cut' = FALSE
    /\ UNCHANGED <<code, stub, purge, lifeVars, busy, genVars, rnaVars>>

SupplyStub ==
    /\ stub = None /\ (paused \/ ~active)
    /\ stub' \in Cleanups
    /\ UNCHANGED <<code, body, funcVars, lifeVars, busy, genVars, rnaVars, cut>>

Resume ==
    /\ paused
    /\ paused' = FALSE
    /\ UNCHANGED <<code, body, stub, funcVars, active, stage, redo, busy, genVars, rnaVars, cut>>

(* StopFlag::ABORT, looked at when run() has returned.                     *)
Stop ==
    /\ active /\ stage <= Stages /\ ~busy /\ at = 0 /\ ~body.broken
    /\ Close
    /\ body' = Forget(body)
    /\ cut' = (cut \/ (stage = 1 /\ ~redo))

-----------------------------------------------------------------------------
Generation == StartTask \/ RunInto \/ CallUnknown \/ Straight \/ Jump \/ Return \/ GenerateDone
Analysis == FlowDone \/ Drop \/ Analyze
Core == Generation \/ Analysis \/ LaterStage \/ FinalStage \/ Finish
User == Decompile \/ Purge \/ SupplyStub \/ Resume \/ Stop

Next == Core \/ User

Spec == Init /\ [][Next]_vars

(* The core thread runs while it has work, WF_vars(Core) with its enabling *)
(* condition written out; a user who is asked answers.                     *)
CoreReady == active /\ ~paused /\ (stage = 1 => ~body.broken)

FairSpec ==
    /\ Spec
    /\ []<>~CoreReady \/ []<><<Core>>_vars
    /\ WF_vars(Resume) /\ SF_vars(SupplyStub)

-----------------------------------------------------------------------------
(* Properties.                                                             *)

(* Whatever was split, inserted, interrupted, rolled back and generated    *)
(* again, it stays so; paths lie in the order of the code and do not       *)
(* overlap; the tail path is the last. While GEN runs, the map names the   *)
(* paths there are.                                                        *)
PathsTile ==
    ~body.broken =>
        /\ \A p \in Live : IsRun(p, body.ops[p])
        /\ \A i, j \in DOMAIN body.tree : i < j =>
              /\ body.tree[i] # Exit
              /\ body.tree[j] = Exit \/ body.tree[i] < body.tree[j]
              /\ body.tree[j] # Exit /\ OpsOf(body, body.tree[i]) # <<>> =>
                    TailOp(body, body.tree[i])[1] < body.tree[j]
        /\ Generating => \A a \in Addr : IF a \in Live THEN body.map[a] = a
                                         ELSE body.map[a] \in {None, Gap}

(* Where control goes from an instruction in the code, and from a path in  *)
(* the body, past the jumps; all returns are one.                          *)
Leads ==
    LET dest[a \in Addr \cup {Out}] ==
            IF a = Out THEN Out
            ELSE CASE code[a].kind = "jmp" -> dest[code[a].to]
                   [] code[a].kind = "ret" -> Exit
                   [] OTHER -> a
    IN  dest

LeadsInBody ==
    LET dest[p \in Addr \cup {Exit}] ==
            IF p = Exit THEN Exit
            ELSE IF HeadOp(body, p) = NoOp THEN Leads[p]
            ELSE IF Kind(HeadOp(body, p)) \in {"jmp", "ret"}
            THEN IF body.ref[p] = None THEN Out ELSE dest[body.ref[p]]
            ELSE p
    IN  dest

(* A conditional jump, inverted and redirected or not, goes where it goes  *)
(* in the code when it is taken, and so when it is not; a jump as well,    *)
(* unless it was exchanged with the conditional one before it.             *)
SameFlow ==
    ~body.broken =>
        \A p \in Live :
            LET o == TailOp(body, p)
                a == o[1]
                yes == LeadsInBody[GotoPath(body, p)]
                no == LeadsInBody[a + 1]
            IN  /\ BlockType(body, p) = "jif" /\ body.ref[a] # None =>
                      /\ a \notin body.flip => yes = Leads[code[a].to]
                      /\ a + 1 \in Live =>
                            IF a \in body.flip
                            THEN yes = Leads[a + 1] /\ no = Leads[code[a].to]
                            ELSE no = Leads[a + 1]
                /\ BlockType(body, p) = "jmp" /\ Kind(o) = "jmp" /\ body.ref[a] # None
                      /\ a - 1 \notin body.flip =>
                      yes = Leads[code[a].to]

(* A body handed on without an error has one level of the stack at every   *)
(* operation, whichever way it is reached. Not so in a body cut short, and *)
(* not behind a return that was exchanged with a jump. A path RNA resumed  *)
(* in does not count as analyzed: another way into it overwrites it.       *)
Converges ==
    (~active \/ stage > 1) /\ body.root /\ ~cut /\ ~body.broken /\ status # Error =>
            \A p \in Live :
                /\ \A i \in 1 .. Len(body.ops[p]) - 1 :
                      body.sin[body.ops[p][i + 1]] = Level(body, body.ops[p][i])
                /\ \A w \in Range(Ways(p)) :
                      (HeadOp(body, w.path) # NoOp /\ w.path \notin redone
                          /\ Kind(TailOp(body, p)) # "ret") =>
                      body.sin[HeadOp(body, w.path)] = Level(body, TailOp(body, p))

(* The status tells what was done: a stage after the first runs only on a  *)
(* body without an error, and a decompiler leaves nothing half done.       *)
StatusFits ==
    IF active
    THEN CASE stage = 1 -> status \in {Phase0, Phase1, Error}
           [] stage \in 2 .. Stages -> status = Phase2
           [] OTHER -> status \in {Finished, Phase2, Error}
    ELSE status \in {Finished, Error} \cup (IF body.root THEN {} ELSE {Undefined})

(* An error found by the decompiler is not taken back by it.               *)
ErrorIsFinal == [][active /\ active' /\ status = Error => status' = Error]_vars

(* Every decompilation ends: each question gets its answer, each path is   *)
(* analyzed and each address generated once.                               *)
Ends == active ~> (~active \/ body.broken)

(* What the later stages get is the code the function can reach.           *)
Succ(a) ==
    CASE code[a].kind = "jmp" -> {code[a].to}
      [] code[a].kind = "jif" -> {code[a].to, a + 1}
      [] code[a].kind = "ret" -> {}
      [] OTHER -> {a + 1}

Whole(a) == \E p \in Live : Last(Parts(a)) \in Range(body.ops[p])

(* A body the code can no longer read is as good as destroyed, and a call   *)
(* that is to be rolled back is not in it.                                 *)
Found ==
    {a \in Addr : /\ ~body.broken /\ Whole(a)
                  /\ \A i \in DOMAIN tasks : tasks[i].roll > 0 => tasks[i].at # a}

Ready == body.root /\ status \in {Finished, Phase2} /\ ~body.broken

Stopped == cut /\ ~body.broken

Links == [a \in Addr |-> [succ |-> Succ(a)]]

Code == INSTANCE Disassembly WITH
    Entry <- 1, code <- Links, found <- Found, ready <- Ready, stopped <- Stopped

HandsOnAllCode == Code!Spec
=============================================================================
