-------------------------- MODULE OpsResponseProofs --------------------------
(***************************************************************************)
(* The safety properties of OpsResponse, for every set of tasks and tools, *)
(* every limit and every number of claims and restarts.                    *)
(***************************************************************************)
EXTENDS OpsResponse, TLAPS

(* The worker between two attempts.                                        *)
LEMMA IdleWorkerType ==
    /\ IdleWorker \in Worker
    /\ IdleWorker.pc = "idle" /\ IdleWorker.calling = FALSE
<1>1. NoResult \in Result
  BY OpsResponseAssumption DEF NoResult, Result
<1>2. FirstRequest \in ProviderRequest
  BY DEF FirstRequest, ProviderRequest
<1>3. "idle" \in WorkerPc /\ "queued" \in TaskStatus
  BY DEF WorkerPc, TaskStatus
<1>4. 0 \in 0..MaxToolTurns /\ 0 \in 0..MaxTotalChars
  BY OpsResponseAssumption
<1> QED BY <1>1, <1>2, <1>3, <1>4 DEF IdleWorker, Worker

(* Claim                                                                   *)
LEMMA ClaimFacts ==
    ASSUME NEW t \in Tasks, worker' = [IdleWorker EXCEPT !.pc = "claim", !.task = t]
    PROVE  /\ worker' \in Worker
           /\ worker'.pc = "claim" /\ worker'.task = t /\ worker'.calling = FALSE
<1>1. "claim" \in WorkerPc
  BY DEF WorkerPc
<1> QED BY <1>1, IdleWorkerType DEF Worker

(* EndWith: the worker forgets everything but its task.                    *)
LEMMA EndFacts ==
    ASSUME worker.task \in Tasks, \E x \in TaskStatus : EndWith(x)
    PROVE  /\ worker' \in Worker
           /\ worker'.pc = "ending" /\ worker'.task = worker.task /\ worker'.calling = FALSE
<1>1. "ending" \in WorkerPc
  BY DEF WorkerPc
<1>2. PICK x \in TaskStatus : EndWith(x)
  OBVIOUS
<1> QED BY <1>1, <1>2, IdleWorkerType DEF Worker, EndWith

(* Stopped is a status.                                                    *)
LEMMA StoppedType == Stopped \in TaskStatus
  BY DEF Stopped, TaskStatus

-----------------------------------------------------------------------------
(* A step that moves the worker, and may set its outcome and give up its   *)
(* call.                                                                   *)
Moves(pc) ==
    /\ pc \in WorkerPc
    /\ \/ worker' = [worker EXCEPT !.pc = pc]
       \/ \E x \in TaskStatus : worker' = [worker EXCEPT !.pc = pc, !.outcome = x]
       \/ \E x \in TaskStatus :
             worker' = [worker EXCEPT !.calling = FALSE, !.pc = pc, !.outcome = x]

(* Such a step keeps the worker's task, tool, count and memory.            *)
LEMMA MovesFacts ==
    ASSUME worker \in Worker, \E pc \in WorkerPc : Moves(pc)
    PROVE  /\ worker' \in Worker
           /\ worker'.task = worker.task /\ worker'.tool = worker.tool
           /\ worker'.tool_count = worker.tool_count
           /\ worker'.failed_calls = worker.failed_calls
           /\ worker'.calling \in {FALSE, worker.calling}
           /\ \A pc \in WorkerPc : Moves(pc) => worker'.pc = pc
<1>1. PICK pc \in WorkerPc : Moves(pc)
  OBVIOUS
<1>2. CASE worker' = [worker EXCEPT !.pc = pc]
  BY <1>1, <1>2 DEF Worker, Moves
<1>3. CASE \E x \in TaskStatus : worker' = [worker EXCEPT !.pc = pc, !.outcome = x]
  BY <1>1, <1>3 DEF Worker, Moves
<1>4. CASE \E x \in TaskStatus :
             worker' = [worker EXCEPT !.calling = FALSE, !.pc = pc, !.outcome = x]
  BY <1>1, <1>4 DEF Worker, Moves
<1> QED BY <1>1, <1>2, <1>3, <1>4 DEF Moves

(* What every step but those of the engine and the manager leaves alone.   *)
EngineSame == UNCHANGED <<task, up, claims, restarts>>

(* With no call of its own, the worker adds nothing to the slots held.     *)
LEMMA SlotsHeld ==
    ASSUME worker'.calling = FALSE, late' \in 0..CallSlots
    PROVE  CallsAreBounded' /\ late' \in Nat
<1>1. PICK k \in 0..CallSlots : late' = k
  OBVIOUS
<1> QED BY <1>1, OpsResponseAssumption DEF CallsAreBounded

(***************************************************************************)
(* A step that ends the attempt, from where no run is open.                *)
(***************************************************************************)
LEMMA EndInv ==
    ASSUME IInv, up, worker.pc \notin {"idle", "mark", "tool", "result"},
           \E x \in TaskStatus : EndWith(x), session' \in SessionStatus, EngineSame,
           UNCHANGED <<prompts, intents, failures, open, broken, started, late>>
    PROVE  IInv'
<1>1. worker' \in Worker /\ worker'.pc = "ending" /\ worker'.calling = FALSE
      /\ worker'.task = worker.task /\ worker.task \in Tasks
  BY EndFacts DEF IInv, WorkerInv
<1>2. open = {}
  BY DEF IInv, SessionInv
<1>3. TypeOK'
  BY <1>1 DEF IInv, TypeOK, EngineSame
<1>4. WorkerInv'
  <2>1. late \in Nat /\ late <= CallSlots
    BY OpsResponseAssumption DEF IInv, TypeOK, WorkerInv, CallsAreBounded
  <2> QED BY <1>1, <2>1 DEF WorkerInv, CallsAreBounded, EngineSame
<1>5. SessionInv'
  BY <1>1, <1>2 DEF SessionInv
<1>6. MemoryInv'
  BY <1>1 DEF IInv, MemoryInv
<1> QED BY <1>3, <1>4, <1>5, <1>6 DEF IInv

(***************************************************************************)
(* A step that goes to an end of the attempt, from where no run is open.   *)
(***************************************************************************)
LEMMA MoveInv ==
    ASSUME IInv, up,
           worker.pc \in {"top", "asking", "turn", "queue", "limit", "proposing", "answering"},
           \E pc \in {"release", "limit", "error"} : Moves(pc),
           EngineSame, UNCHANGED rows,
           worker'.calling = FALSE, late' \in 0..CallSlots
    PROVE  IInv'
<1>1. /\ worker' \in Worker /\ worker'.pc \in {"release", "limit", "error"}
      /\ worker'.task = worker.task /\ worker.task \in Tasks
  BY MovesFacts DEF IInv, TypeOK, WorkerInv, WorkerPc
<1>2. open = {} /\ session = "processing"
  BY DEF IInv, SessionInv, WorkerPc
<1>3. TypeOK'
  BY <1>1, SlotsHeld DEF IInv, TypeOK, EngineSame, rows
<1>4. WorkerInv'
  <2>1. up'
    BY Zenon DEF EngineSame
  <2>2. CallsAreBounded'
    BY SlotsHeld
  <2> QED BY <1>1, <2>1, <2>2 DEF WorkerInv
<1>5. SessionInv'
  BY <1>1, <1>2 DEF SessionInv, rows
<1>6. MemoryInv'
  BY <1>1 DEF IInv, MemoryInv, rows
<1> QED BY <1>3, <1>4, <1>5, <1>6 DEF IInv

(***************************************************************************)
(* A step that stores the open run as failed and goes to an end.           *)
(***************************************************************************)
LEMMA FailInv ==
    ASSUME IInv, up, worker.pc \in {"mark", "tool", "result"}, FinishFailed,
           \E pc \in {"release", "limit", "error"} :
              Moves(pc) /\ (Controlled => pc = "release"),
           EngineSame, UNCHANGED <<prompts, intents, started>>,
           worker'.calling = FALSE, late' \in 0..CallSlots
    PROVE  IInv'
<1>1. /\ worker' \in Worker /\ worker'.pc \in {"release", "limit", "error"}
      /\ Controlled => worker'.pc = "release"
      /\ worker'.task = worker.task /\ worker.task \in Tasks /\ worker.tool \in Tools
  BY MovesFacts DEF IInv, TypeOK, WorkerInv, WorkerPc
<1>2. open' = {} /\ session = "processing"
  BY DEF IInv, SessionInv, WorkerPc, FinishFailed
<1>3. TypeOK'
  <2>1. Current \in Tasks \X Tools
    BY <1>1 DEF Current
  <2>2. session' \in SessionStatus
    BY DEF IInv, TypeOK, FinishFailed, SessionStatus, _PROCESSABLE_STATUSES
  <2> QED BY <1>1, <1>2, <2>1, <2>2, SlotsHeld DEF IInv, TypeOK, EngineSame, FinishFailed
<1>4. WorkerInv'
  <2>1. up'
    BY Zenon DEF EngineSame
  <2>2. CallsAreBounded'
    BY SlotsHeld
  <2> QED BY <1>1, <2>1, <2>2 DEF WorkerInv
<1>5. SessionInv'
  BY <1>1, <1>2 DEF SessionInv, FinishFailed
<1>6. MemoryInv'
  BY <1>1 DEF IInv, MemoryInv, FinishFailed
<1> QED BY <1>3, <1>4, <1>5, <1>6 DEF IInv
-----------------------------------------------------------------------------
(* No thread of this attempt is running where the worker makes no call.    *)
LEMMA NoCall ==
    ASSUME IInv, worker.pc \notin {"asking", "tool"}
    PROVE  worker.calling = FALSE /\ late \in 0..CallSlots
  BY OpsResponseAssumption DEF IInv, TypeOK, Worker, WorkerInv, CallsAreBounded

(* Raises and Expires go to an end.                                        *)
LEMMA RaisesMoves ==
    ASSUME worker \in Worker, Raises \/ Expires
    PROVE  /\ \E pc \in {"release", "limit", "error"} :
                 Moves(pc) /\ (Controlled => pc = "release")
           /\ worker'.calling = worker.calling
<1>1. CASE Raises
  <2>1. Moves("release")
    BY <1>1, StoppedType DEF Raises, Moves, WorkerPc
  <2> QED BY <1>1, <2>1 DEF Raises, Worker
<1>2. CASE Expires
  <2>1. Moves("limit")
    BY <1>2 DEF Expires, Goto, Moves, WorkerPc
  <2> QED BY <1>2, <2>1 DEF Expires, Goto, Worker
<1> QED BY <1>1, <1>2

(* GivesUp goes to an end and leaves its thread behind, in its slot.       *)
LEMMA GivesUpMoves ==
    ASSUME IInv, GivesUp
    PROVE  /\ \E pc \in {"release", "limit", "error"} :
                 Moves(pc) /\ (Controlled => pc = "release")
           /\ worker'.calling = FALSE /\ late' \in 0..CallSlots
<1>1. worker \in Worker
  BY DEF IInv, TypeOK
<1>2. Moves(AfterStop)
  BY StoppedType DEF GivesUp, Moves, WorkerPc, AfterStop
<1>3. AfterStop \in {"release", "limit", "error"} /\ (Controlled => AfterStop = "release")
  BY DEF AfterStop
<1>4. worker'.calling = FALSE
  BY <1>1 DEF GivesUp, Worker
<1>5. late' \in 0..CallSlots
  BY OpsResponseAssumption
     DEF IInv, TypeOK, WorkerInv, CallsAreBounded, GivesUp, StillRunning
<1> QED BY <1>2, <1>3, <1>4, <1>5

(* Where the worker is told to stop, at a place that makes no call.        *)
LEMMA StopMoves ==
    ASSUME worker \in Worker, worker' = [worker EXCEPT !.pc = AfterStop, !.outcome = Stopped]
    PROVE  /\ \E pc \in {"release", "limit", "error"} :
                 Moves(pc) /\ (Controlled => pc = "release")
           /\ worker'.calling = worker.calling
<1>1. Moves(AfterStop)
  BY StoppedType DEF Moves, WorkerPc, AfterStop
<1>2. AfterStop \in {"release", "limit", "error"} /\ (Controlled => AfterStop = "release")
  BY DEF AfterStop
<1>3. worker'.calling = worker.calling
  BY DEF Worker
<1> QED BY <1>1, <1>2, <1>3

(* Claim                                                                   *)
LEMMA ClaimStep ==
    ASSUME IInv, NEW t \in Tasks, Claim(t)
    PROVE  IInv'
<1>1. worker' \in Worker /\ worker'.pc = "claim" /\ worker'.task = t /\ worker'.calling = FALSE
  BY ClaimFacts DEF Claim
<1>2. TypeOK'
  BY <1>1, OpsResponseAssumption DEF IInv, TypeOK, Claim, rows, TaskStatus
<1>3. WorkerInv'
  <2>1. up' /\ CallsAreBounded'
    BY <1>1, NoCall, SlotsHeld DEF Claim, At
  <2> QED BY <1>1, <2>1 DEF WorkerInv
<1>4. SessionInv'
  BY <1>1 DEF IInv, SessionInv, Claim, rows, At
<1>5. MemoryInv'
  BY <1>1 DEF IInv, MemoryInv, Claim, rows
<1> QED BY <1>2, <1>3, <1>4, <1>5 DEF IInv

(* ClaimSession                                                            *)
LEMMA ClaimSessionStep ==
    ASSUME IInv, ClaimSession
    PROVE  IInv'
<1>1. CASE (EndWith(Stopped) \/ EndWith("failed")) /\ UNCHANGED <<session, prompts>>
  <2>1. \E x \in TaskStatus : EndWith(x)
    BY <1>1, StoppedType DEF TaskStatus
  <2> QED BY <1>1, <2>1, EndInv DEF ClaimSession, At, EngineSame, IInv, TypeOK
<1>2. CASE /\ session \in _PROCESSABLE_STATUSES /\ session' = "processing"
           /\ prompts' = [prompts EXCEPT ![worker.task] = PromptsAfterClaim(worker.task)]
           /\ worker' = [worker EXCEPT !.pc = "top",
                           !.failed_calls = {c \in Tools : <<worker.task, c>> \in failures}]
  <2>1. /\ worker' \in Worker /\ worker'.pc = "top" /\ worker'.task = worker.task
        /\ worker'.failed_calls = {c \in Tools : <<worker.task, c>> \in failures}
        /\ worker'.calling = worker.calling
    BY <1>2 DEF IInv, TypeOK, Worker, WorkerPc
  <2>2. worker.task \in Tasks /\ up /\ up' = up /\ worker.pc = "claim"
    BY DEF ClaimSession, IInv, WorkerInv, At
  <2>3. TypeOK'
    BY <1>2, <2>1, <2>2 DEF IInv, TypeOK, ClaimSession, PromptsAfterClaim, SessionStatus
  <2>4. WorkerInv'
    <3>1. CallsAreBounded'
      BY <2>1, <2>2, NoCall, SlotsHeld DEF ClaimSession
    <3> QED BY <2>1, <2>2, <3>1, NoCall DEF WorkerInv
  <2>5. SessionInv'
    BY <1>2, <2>2 DEF IInv, SessionInv, ClaimSession
  <2>6. MemoryInv'
    BY <2>1 DEF IInv, MemoryInv, ClaimSession
  <2> QED BY <2>3, <2>4, <2>5, <2>6 DEF IInv
<1> QED BY <1>1, <1>2 DEF ClaimSession

(* DeadlinePasses                                                          *)
LEMMA DeadlinePassesStep ==
    ASSUME IInv, DeadlinePasses
    PROVE  IInv'
<1>1. /\ worker' \in Worker /\ worker'.pc = worker.pc /\ worker'.task = worker.task
      /\ worker'.tool = worker.tool /\ worker'.tool_count = worker.tool_count
      /\ worker'.failed_calls = worker.failed_calls /\ worker'.calling = worker.calling
  BY DEF DeadlinePasses, IInv, TypeOK, Worker
<1>2. TypeOK'
  BY <1>1 DEF DeadlinePasses, IInv, TypeOK, rows
<1>3. WorkerInv'
  BY <1>1 DEF DeadlinePasses, IInv, WorkerInv, CallsAreBounded
<1>4. SessionInv'
  BY <1>1 DEF DeadlinePasses, IInv, SessionInv, rows, Current
<1>5. MemoryInv'
  BY <1>1 DEF DeadlinePasses, IInv, MemoryInv, rows
<1> QED BY <1>2, <1>3, <1>4, <1>5 DEF IInv

(***************************************************************************)
(* A step of the conversation with the provider: no row changes, and the   *)
(* worker keeps its task and its memory.                                   *)
(***************************************************************************)
LEMMA TalkInv ==
    ASSUME IInv, up, worker.pc \in {"top", "asking"},
           worker' \in Worker, worker'.task = worker.task,
           worker'.failed_calls = worker.failed_calls,
           worker'.pc \in {"asking", "turn", "proposing", "answering"},
           worker'.pc = "turn" => worker'.tool \in Tools,
           worker'.calling => worker'.pc = "asking",
           CallsAreBounded', late' \in Nat, EngineSame, UNCHANGED rows
    PROVE  IInv'
<1>1. worker.task \in Tasks /\ open = {} /\ session = "processing"
  BY DEF IInv, WorkerInv, SessionInv, WorkerPc
<1>2. TypeOK'
  BY DEF IInv, TypeOK, EngineSame, rows
<1>3. WorkerInv'
  <2>1. up'
    BY Zenon DEF EngineSame
  <2> QED BY <1>1, <2>1 DEF WorkerInv
<1>4. SessionInv'
  BY <1>1 DEF SessionInv, rows
<1>5. MemoryInv'
  BY DEF IInv, MemoryInv, rows
<1> QED BY <1>2, <1>3, <1>4, <1>5 DEF IInv

(* ProviderGone                                                            *)
LEMMA ProviderGoneStep ==
    ASSUME IInv, ProviderGone
    PROVE  IInv'
<1>1. Moves("error")
  BY DEF ProviderGone, Moves, WorkerPc, TaskStatus
<1>2. worker'.calling = FALSE /\ late' \in 0..CallSlots
  BY NoCall DEF ProviderGone, At, IInv, TypeOK, Worker
<1> QED BY <1>1, <1>2, MoveInv DEF ProviderGone, At, EngineSame

(* AskProvider                                                             *)
LEMMA AskProviderStep ==
    ASSUME IInv, AskProvider
    PROVE  IInv'
<1>1. CASE Raises \/ Expires
  <2>1. worker \in Worker
    BY DEF IInv, TypeOK
  <2>2. worker.calling = FALSE /\ late' \in 0..CallSlots
    BY NoCall DEF AskProvider, At
  <2> QED BY <1>1, <2>1, <2>2, RaisesMoves, MoveInv DEF AskProvider, At, EngineSame
<1>2. CASE SlotFree /\ worker' = [worker EXCEPT !.pc = "asking", !.calling = TRUE,
                                                 !.request = FirstRequest]
  <2>1. FirstRequest \in ProviderRequest
    BY DEF FirstRequest, ProviderRequest
  <2>2. /\ worker' \in Worker /\ worker'.pc = "asking" /\ worker'.task = worker.task
        /\ worker'.failed_calls = worker.failed_calls
    BY <1>2, <2>1 DEF IInv, TypeOK, Worker, WorkerPc
  <2>3. CallsAreBounded'
    <3>1. late + 1 <= CallSlots
      BY <1>2, OpsResponseAssumption DEF SlotFree, IInv, TypeOK
    <3>2. late' + 0 = late /\ late' + 1 <= CallSlots /\ late \in Nat /\ late' = late
      BY <3>1 DEF AskProvider, IInv, TypeOK
    <3> QED BY <3>1, <3>2, OpsResponseAssumption DEF CallsAreBounded
  <2> QED BY <1>2, <2>2, <2>3, TalkInv DEF AskProvider, At, EngineSame, IInv, TypeOK
<1> QED BY <1>1, <1>2 DEF AskProvider

(* AskingStops                                                             *)
LEMMA AskingStopsStep ==
    ASSUME IInv, AskingStops
    PROVE  IInv'
  BY GivesUpMoves, MoveInv DEF AskingStops, At, EngineSame

(* While a call runs, its thread and the late ones are within the slots.   *)
LEMMA LateFits ==
    ASSUME IInv
    PROVE  late \in 0..CallSlots
  BY OpsResponseAssumption DEF IInv, TypeOK, WorkerInv, CallsAreBounded

(* ProviderAnswers                                                         *)
LEMMA ProviderAnswersStep ==
    ASSUME IInv, ProviderAnswers
    PROVE  IInv'
<1>1. FirstRequest \in ProviderRequest /\ worker \in Worker
  BY DEF FirstRequest, ProviderRequest, IInv, TypeOK
<1>2. late' = late /\ late \in 0..CallSlots
  BY LateFits DEF ProviderAnswers
<1>3. CASE \E tool \in Tools :
            worker' = [worker EXCEPT !.pc = "turn", !.calling = FALSE, !.tool = tool,
                                     !.request = FirstRequest]
  <2>1. /\ worker' \in Worker /\ worker'.pc = "turn" /\ worker'.task = worker.task
        /\ worker'.failed_calls = worker.failed_calls
        /\ worker'.tool \in Tools /\ worker'.calling = FALSE
    BY <1>1, <1>3, ZenonT(60) DEF Worker, WorkerPc
  <2> QED BY <1>2, <2>1, TalkInv, SlotsHeld DEF ProviderAnswers, At, EngineSame
<1>4. CASE \E pc \in {"proposing", "answering"} :
            worker' = [worker EXCEPT !.pc = pc, !.calling = FALSE]
  <2>1. /\ worker' \in Worker /\ worker'.pc \in {"proposing", "answering"}
        /\ worker'.task = worker.task /\ worker'.failed_calls = worker.failed_calls
        /\ worker'.calling = FALSE
    BY <1>1, <1>4 DEF Worker, WorkerPc
  <2> QED BY <1>2, <2>1, TalkInv, SlotsHeld DEF ProviderAnswers, At, EngineSame
<1>5. CASE \E outcome \in {"succeeded", "failed"} :
            worker' = [worker EXCEPT !.pc = "error", !.calling = FALSE, !.outcome = outcome]
  <2>1. PICK x \in {"succeeded", "failed"} :
              worker' = [worker EXCEPT !.calling = FALSE, !.pc = "error", !.outcome = x]
    BY <1>1, <1>5 DEF Worker
  <2>2. Moves("error") /\ worker'.calling = FALSE
    BY <1>1, <2>1 DEF Moves, WorkerPc, TaskStatus, Worker
  <2> QED BY <1>2, <2>2, MoveInv DEF ProviderAnswers, At, EngineSame
<1> QED BY <1>3, <1>4, <1>5 DEF ProviderAnswers

(* FormatRefused                                                           *)
LEMMA FormatRefusedStep ==
    ASSUME IInv, FormatRefused
    PROVE  IInv'
<1>1. /\ worker' \in Worker /\ worker'.pc = "asking" /\ worker'.task = worker.task
      /\ worker'.failed_calls = worker.failed_calls /\ worker'.calling = worker.calling
  BY DEF FormatRefused, At, IInv, TypeOK, Worker, ProviderRequest
<1>2. CallsAreBounded' /\ late' \in Nat
  BY <1>1 DEF FormatRefused, IInv, TypeOK, WorkerInv, CallsAreBounded
<1> QED BY <1>1, <1>2, TalkInv DEF FormatRefused, At, EngineSame

(* TurnIncomplete                                                          *)
LEMMA TurnIncompleteStep ==
    ASSUME IInv, TurnIncomplete
    PROVE  IInv'
<1>1. worker \in Worker
  BY DEF IInv, TypeOK
<1>2. CASE Repairable(worker.request.payload)
  <2>1. [FirstRequest EXCEPT !.payload = "repair"] \in ProviderRequest
    BY DEF FirstRequest, ProviderRequest
  <2>2. /\ worker' \in Worker /\ worker'.pc = "asking" /\ worker'.task = worker.task
        /\ worker'.failed_calls = worker.failed_calls /\ worker'.calling = worker.calling
    BY <1>1, <1>2, <2>1 DEF TurnIncomplete, At, Worker
  <2>3. CallsAreBounded' /\ late' \in Nat
    BY <2>2 DEF TurnIncomplete, IInv, TypeOK, WorkerInv, CallsAreBounded
  <2> QED BY <2>2, <2>3, TalkInv DEF TurnIncomplete, At, EngineSame
<1>3. CASE ~Repairable(worker.request.payload)
  <2>1. worker' = [worker EXCEPT !.calling = FALSE, !.pc = "error", !.outcome = "succeeded"]
    BY <1>1, <1>3 DEF TurnIncomplete, Worker
  <2>2. Moves("error") /\ worker'.calling = FALSE
    BY <1>1, <2>1 DEF Moves, WorkerPc, TaskStatus, Worker
  <2>3. late' \in 0..CallSlots
    BY LateFits DEF TurnIncomplete
  <2> QED BY <2>2, <2>3, MoveInv DEF TurnIncomplete, At, EngineSame
<1> QED BY <1>2, <1>3
-----------------------------------------------------------------------------
(* TurnDecides                                                             *)
LEMMA TurnDecidesStep ==
    ASSUME IInv, TurnDecides
    PROVE  IInv'
<1>1. worker \in Worker /\ worker.calling = FALSE /\ late \in 0..CallSlots
      /\ worker.task \in Tasks /\ worker.tool \in Tools /\ late' = late
  BY NoCall DEF TurnDecides, At, IInv, TypeOK, WorkerInv
<1>2. CASE /\ worker' = [worker EXCEPT !.pc = AfterStop, !.outcome = Stopped]
           /\ UNCHANGED intents
  BY <1>1, <1>2, StopMoves, MoveInv DEF TurnDecides, At, EngineSame, rows
<1>3. CASE Raises /\ UNCHANGED intents
  BY <1>1, <1>3, RaisesMoves, MoveInv DEF TurnDecides, At, EngineSame, rows
<1>4. CASE /\ worker.tool_count < MaxToolTurns /\ worker.tool \notin KnownFailures
           /\ Goto("queue") /\ intents' = intents \cup {Current}
  <2>1. /\ worker' \in Worker /\ worker'.pc = "queue" /\ worker'.task = worker.task
        /\ worker'.tool = worker.tool /\ worker'.tool_count = worker.tool_count
        /\ worker'.failed_calls = worker.failed_calls /\ worker'.calling = FALSE
    BY <1>1, <1>4 DEF Goto, Worker, WorkerPc
  <2>2. TypeOK'
    BY <1>1, <1>4, <2>1 DEF TurnDecides, IInv, TypeOK, Current
  <2>3. WorkerInv'
    <3>1. up'
      BY Zenon DEF TurnDecides, At
    <3> QED BY <1>1, <1>4, <2>1, <3>1, SlotsHeld DEF WorkerInv
  <2>4. SessionInv'
    BY <2>1 DEF TurnDecides, At, IInv, SessionInv, WorkerPc
  <2>5. MemoryInv'
    BY <1>4, <2>1 DEF TurnDecides, At, IInv, MemoryInv, KnownFailures
  <2> QED BY <2>2, <2>3, <2>4, <2>5 DEF IInv
<1> QED BY <1>2, <1>3, <1>4 DEF TurnDecides

(* _queue_tool                                                             *)
LEMMA QueueToolStep ==
    ASSUME IInv, _queue_tool
    PROVE  IInv'
<1>1. worker \in Worker /\ worker.calling = FALSE /\ late \in 0..CallSlots
      /\ worker.task \in Tasks /\ worker.tool \in Tools /\ late' = late
  BY NoCall DEF _queue_tool, At, IInv, TypeOK, WorkerInv
<1>2. CASE Raises /\ UNCHANGED <<open, started>>
  BY <1>1, <1>2, RaisesMoves, MoveInv DEF _queue_tool, At, EngineSame, rows
<1>3. CASE /\ open' = open \cup {Current}
           /\ started' = [started EXCEPT ![Current] = @ + 1]
           /\ Goto("mark")
  <2>1. /\ worker' \in Worker /\ worker'.pc = "mark" /\ worker'.task = worker.task
        /\ worker'.tool = worker.tool /\ worker'.tool_count = worker.tool_count
        /\ worker'.failed_calls = worker.failed_calls /\ worker'.calling = FALSE
    BY <1>1, <1>3 DEF Goto, Worker, WorkerPc
  <2>2. TypeOK'
    <3>1. Current \in Tasks \X Tools
      BY <1>1 DEF Current
    <3>2. started' \in [Tasks \X Tools -> Nat]
      BY <1>3, <3>1 DEF IInv, TypeOK
    <3> QED BY <1>1, <1>3, <2>1, <3>1, <3>2 DEF _queue_tool, IInv, TypeOK
  <2>3. WorkerInv'
    <3>1. up'
      BY Zenon DEF _queue_tool, At
    <3> QED BY <1>1, <2>1, <3>1, SlotsHeld DEF WorkerInv, _queue_tool, At, IInv
  <2>4. SessionInv'
    <3>1. open' = {Current} /\ session' = "processing" /\ Current' = Current
      BY <1>3, <2>1 DEF _queue_tool, At, IInv, SessionInv, WorkerPc, Current
    <3> QED BY <2>1, <3>1 DEF SessionInv
  <2>5. MemoryInv'
    BY <2>1 DEF _queue_tool, At, IInv, MemoryInv
  <2> QED BY <2>2, <2>3, <2>4, <2>5 DEF IInv
<1> QED BY <1>2, <1>3 DEF _queue_tool

(* MarkAndCall                                                             *)
LEMMA MarkAndCallStep ==
    ASSUME IInv, MarkAndCall
    PROVE  IInv'
<1>1. worker \in Worker /\ worker.calling = FALSE /\ late \in 0..CallSlots
      /\ worker.task \in Tasks /\ worker.tool \in Tools /\ late' = late
  BY NoCall DEF MarkAndCall, At, IInv, TypeOK, WorkerInv
<1>2. CASE FinishFailed /\ worker' = [worker EXCEPT !.pc = AfterStop, !.outcome = Stopped]
  BY <1>1, <1>2, StopMoves, FailInv DEF MarkAndCall, At, EngineSame
<1>3. CASE /\ SlotFree
           /\ worker' = [worker EXCEPT !.pc = "tool", !.calling = TRUE]
           /\ UNCHANGED <<session, open, failures, broken>>
  <2>1. /\ worker' \in Worker /\ worker'.pc = "tool" /\ worker'.task = worker.task
        /\ worker'.tool = worker.tool /\ worker'.tool_count = worker.tool_count
        /\ worker'.failed_calls = worker.failed_calls
    BY <1>1, <1>3 DEF Worker, WorkerPc
  <2>2. TypeOK'
    BY <1>1, <1>3, <2>1 DEF MarkAndCall, IInv, TypeOK
  <2>3. WorkerInv'
    <3>1. up'
      BY Zenon DEF MarkAndCall, At
    <3>2. CallsAreBounded'
      <4>1. late + 1 <= CallSlots
        BY <1>3, OpsResponseAssumption DEF SlotFree, IInv, TypeOK
      <4>2. late' = late /\ late \in Nat
        BY DEF MarkAndCall, IInv, TypeOK
      <4> QED BY <4>1, <4>2, OpsResponseAssumption DEF CallsAreBounded
    <3> QED BY <1>1, <2>1, <3>1, <3>2 DEF WorkerInv, MarkAndCall, At, IInv
  <2>4. SessionInv'
    BY <1>3, <2>1 DEF MarkAndCall, At, IInv, SessionInv, WorkerPc, Current
  <2>5. MemoryInv'
    BY <1>3, <2>1 DEF MarkAndCall, At, IInv, MemoryInv
  <2> QED BY <2>2, <2>3, <2>4, <2>5 DEF IInv
<1> QED BY <1>2, <1>3 DEF MarkAndCall

(* ToolStops                                                               *)
LEMMA ToolStopsStep ==
    ASSUME IInv, ToolStops
    PROVE  IInv'
  BY GivesUpMoves, FailInv DEF ToolStops, At, EngineSame

(* ToolReturns                                                             *)
LEMMA ToolReturnsStep ==
    ASSUME IInv, ToolReturns
    PROVE  IInv'
<1>1. PICK result \in Result :
          worker' = [worker EXCEPT !.pc = "result", !.calling = FALSE, !.result = result,
                                   !.tool_count = @ + 1]
  BY DEF ToolReturns
<1>2. /\ worker \in Worker /\ worker.task \in Tasks /\ worker.tool \in Tools
      /\ worker.tool_count + 1 \in 0..MaxToolTurns
      /\ late' = late /\ late \in 0..CallSlots
  BY LateFits, OpsResponseAssumption DEF ToolReturns, At, IInv, TypeOK, WorkerInv, Worker
<1>3. /\ worker' \in Worker /\ worker'.pc = "result" /\ worker'.task = worker.task
      /\ worker'.tool = worker.tool /\ worker'.failed_calls = worker.failed_calls
      /\ worker'.calling = FALSE
  BY <1>1, <1>2 DEF Worker, WorkerPc
<1>4. TypeOK'
  BY <1>2, <1>3 DEF ToolReturns, IInv, TypeOK, rows
<1>5. WorkerInv'
  <2>1. up'
    BY Zenon DEF ToolReturns, At
  <2> QED BY <1>2, <1>3, <2>1, SlotsHeld DEF WorkerInv
<1>6. SessionInv'
  BY <1>3 DEF ToolReturns, At, IInv, SessionInv, WorkerPc, Current, rows
<1>7. MemoryInv'
  BY <1>3 DEF ToolReturns, At, IInv, MemoryInv, rows
<1> QED BY <1>4, <1>5, <1>6, <1>7 DEF IInv

(* ToolRaises                                                              *)
LEMMA ToolRaisesStep ==
    ASSUME IInv, ToolRaises
    PROVE  IInv'
<1>1. worker \in Worker /\ late' \in 0..CallSlots /\ ~Controlled
  BY LateFits DEF ToolRaises, IInv, TypeOK
<1>2. worker' = [worker EXCEPT !.calling = FALSE, !.pc = "error", !.outcome = "failed"]
  BY <1>1 DEF ToolRaises, Worker
<1>3. Moves("error") /\ worker'.calling = FALSE
  BY <1>1, <1>2 DEF Moves, WorkerPc, TaskStatus, Worker
<1> QED BY <1>1, <1>3, FailInv DEF ToolRaises, At, EngineSame
-----------------------------------------------------------------------------
(***************************************************************************)
(* ToolCommits stores the run whose true status is in worker.result under  *)
(* the status its bounded payload has: a failure is never stored as        *)
(* anything else.                                                          *)
(***************************************************************************)
LEMMA StoredFailures ==
    ASSUME IInv, up, worker.pc = "result", EngineSame, UNCHANGED <<prompts, intents, started, late>>,
           \E status \in {"succeeded", "failed"} :
              /\ worker.result.status = "failed" => status = "failed"
              /\ failures' = IF status = "failed" THEN failures \cup {Current} ELSE failures,
           open' = open \ {Current},
           broken' = IF worker.result.status = "failed" THEN broken \cup {Current} ELSE broken,
           UNCHANGED session,
           worker' \in Worker, worker'.pc \in {"top", "limit"}, worker'.task = worker.task,
           worker'.calling = FALSE,
           worker'.pc = "top" => worker'.failed_calls = Learned
    PROVE  IInv'
<1>1. worker \in Worker /\ late' \in 0..CallSlots
      /\ worker.task \in Tasks /\ worker.tool \in Tools /\ Current \in Tasks \X Tools
  BY NoCall DEF IInv, TypeOK, WorkerInv, Current
<1>2. open' = {} /\ session' = "processing"
  BY DEF IInv, SessionInv, WorkerPc
<1>3. broken' \subseteq failures' /\ failures' \subseteq Tasks \X Tools
  BY <1>1 DEF IInv, TypeOK, MemoryInv
<1>4. TypeOK'
  BY <1>1, <1>2, <1>3, SlotsHeld DEF IInv, TypeOK, EngineSame
<1>5. WorkerInv'
  <2>1. up'
    BY Zenon DEF EngineSame
  <2> QED BY <1>1, <2>1, SlotsHeld DEF WorkerInv
<1>6. SessionInv'
  BY <1>2 DEF SessionInv
<1>7. MemoryInv'
  <2>1. ASSUME worker'.pc = "top", NEW c \in Tools, <<worker'.task, c>> \in broken'
        PROVE  c \in worker'.failed_calls
    <3>1. \A d \in Tools : <<worker.task, d>> \in broken => d \in worker.failed_calls
      BY DEF IInv, MemoryInv
    <3>2. <<worker.task, c>> \in broken \/ (worker.result.status = "failed" /\ c = worker.tool)
      BY <2>1 DEF Current
    <3>3. c \in Learned
      BY <3>1, <3>2 DEF Learned
    <3> QED BY <2>1, <3>3
  <2> QED BY <1>3, <2>1 DEF MemoryInv
<1> QED BY <1>4, <1>5, <1>6, <1>7 DEF IInv

(* ToolCommits                                                             *)
LEMMA ToolCommitsStep ==
    ASSUME IInv, ToolCommits
    PROVE  IInv'
<1> DEFINE payload == _bound_payload(worker.result, MaxResultChars)
           notice == _bound_payload([worker.result EXCEPT !.chars = 1], Remaining)
<1>1. worker \in Worker /\ worker.calling = FALSE /\ late \in 0..CallSlots
      /\ worker.task \in Tasks /\ worker.tool \in Tools /\ late' = late
  BY NoCall DEF ToolCommits, At, IInv, TypeOK, WorkerInv
<1>2. /\ worker.result \in [status : {"succeeded", "failed"}, chars : Nat]
      /\ [worker.result EXCEPT !.chars = 1] \in [status : {"succeeded", "failed"}, chars : Nat]
      /\ [worker.result EXCEPT !.chars = 1].status = worker.result.status
      /\ worker.total_tool_chars \in 0..MaxTotalChars
  BY <1>1 DEF Worker, Result
<1>3. Remaining \in Nat /\ MaxResultChars \in Nat
  BY <1>2, OpsResponseAssumption DEF Remaining
<1>4. /\ payload.status \in {"succeeded", "failed"} /\ payload.chars \in Nat
      /\ worker.result.status = "failed" => payload.status = "failed"
      /\ notice.status \in {"succeeded", "failed"}
      /\ worker.result.status = "failed" => notice.status = "failed"
  BY <1>2, <1>3 DEF _bound_payload
<1>5. CASE Controlled /\ FinishFailed
           /\ worker' = [worker EXCEPT !.pc = "release", !.outcome = Stopped]
  <2>1. Raises
    BY <1>5 DEF Raises
  <2> QED BY <1>1, <1>5, <2>1, RaisesMoves, FailInv DEF ToolCommits, At, EngineSame
<1>6. CASE StoreResult(notice) /\ Goto("limit")
  <2>1. /\ worker' \in Worker /\ worker'.pc = "limit" /\ worker'.task = worker.task
        /\ worker'.calling = FALSE
    BY <1>1, <1>6 DEF Goto, Worker, WorkerPc
  <2> HIDE DEF notice
  <2> QED BY <1>4, <1>6, <2>1, StoredFailures DEF ToolCommits, At, EngineSame, StoreResult
<1>7. CASE /\ payload.chars <= Remaining
           /\ StoreResult(payload)
           /\ worker' = [worker EXCEPT !.pc = "top", !.tool = None, !.result = NoResult,
                              !.total_tool_chars = @ + payload.chars,
                              !.failed_calls = Learned]
  <2> HIDE DEF payload
  <2>1. worker.total_tool_chars + payload.chars \in 0..MaxTotalChars
    BY <1>2, <1>4, <1>7, OpsResponseAssumption DEF Remaining
  <2>2. NoResult \in Result /\ Learned \subseteq Tools
    BY <1>1, OpsResponseAssumption DEF NoResult, Result, Learned, Worker
  <2>3. /\ worker' \in Worker /\ worker'.pc = "top" /\ worker'.task = worker.task
        /\ worker'.calling = FALSE /\ worker'.failed_calls = Learned
    BY <1>1, <1>7, <2>1, <2>2 DEF Worker, WorkerPc
  <2> QED BY <1>4, <1>7, <2>3, StoredFailures DEF ToolCommits, At, EngineSame, StoreResult
<1> QED BY <1>5, <1>6, <1>7 DEF ToolCommits
-----------------------------------------------------------------------------
(* _save_limit, _create_plan, _save_answer: raise, fail or end.            *)
LEMMA SaveStep ==
    ASSUME IInv, _save_limit \/ _create_plan \/ _save_answer
    PROVE  IInv'
<1>1. /\ worker \in Worker /\ up /\ worker.pc \in {"limit", "proposing", "answering"}
      /\ EngineSame /\ UNCHANGED <<prompts, intents, failures, open, broken, started, late>>
  BY DEF _save_limit, _create_plan, _save_answer, At, IInv, TypeOK, EngineSame
<1>2. worker.calling = FALSE /\ late' \in 0..CallSlots
  BY <1>1, NoCall
<1>3. CASE Raises /\ UNCHANGED session
  BY <1>1, <1>2, <1>3, RaisesMoves, MoveInv DEF rows
<1>4. CASE worker' = [worker EXCEPT !.pc = "error", !.outcome = "failed"] /\ UNCHANGED session
  <2>1. Moves("error") /\ worker'.calling = FALSE
    BY <1>1, <1>2, <1>4 DEF Moves, WorkerPc, TaskStatus, Worker
  <2> QED BY <1>1, <1>2, <1>4, <2>1, MoveInv DEF rows
<1>5. CASE EndWith("succeeded") /\ session' \in SessionStatus
  BY <1>1, <1>5, EndInv DEF TaskStatus
<1> QED BY <1>3, <1>4, <1>5
        DEF _save_limit, _create_plan, _save_answer, SessionStatus, _PROCESSABLE_STATUSES

(* _save_failure and _release_controlled_session.                          *)
LEMMA EndStep ==
    ASSUME IInv, _save_failure \/ _release_controlled_session
    PROVE  IInv'
<1>1. /\ up /\ worker.pc \in {"error", "release"} /\ EngineSame
      /\ UNCHANGED <<prompts, intents, failures, open, broken, started, late>>
      /\ session' \in SessionStatus /\ EndWith(worker.outcome)
  BY DEF _save_failure, _release_controlled_session, At, EngineSame, SessionStatus,
         _PROCESSABLE_STATUSES
<1>2. worker.outcome \in TaskStatus
  BY DEF IInv, TypeOK, Worker
<1> QED BY <1>1, <1>2, EndInv

(* Finish                                                                  *)
LEMMA FinishStep ==
    ASSUME IInv, Finish
    PROVE  IInv'
<1>1. worker' \in Worker /\ worker'.pc = "idle" /\ worker'.calling = FALSE
      /\ worker' = IdleWorker
  BY IdleWorkerType DEF Finish
<1>2. late' \in 0..CallSlots /\ late' = late
  BY LateFits DEF Finish
<1>3. TypeOK'
  BY <1>1, SlotsHeld, <1>2, ZenonT(60) DEF Finish, IInv, TypeOK, Worker, rows
<1>4. WorkerInv'
  <2>1. up'
    BY Zenon DEF Finish, At
  <2> QED BY <1>1, <1>2, <2>1, SlotsHeld DEF WorkerInv
<1>5. SessionInv'
  BY <1>1 DEF Finish, At, IInv, SessionInv, rows
<1>6. MemoryInv'
  BY <1>1 DEF Finish, IInv, MemoryInv, rows
<1> QED BY <1>3, <1>4, <1>5, <1>6 DEF IInv

(* LateCallEnds                                                            *)
LEMMA LateCallEndsStep ==
    ASSUME IInv, LateCallEnds
    PROVE  IInv'
<1>1. late \in Nat /\ late - 1 \in Nat /\ late' = late - 1
  BY DEF LateCallEnds, IInv, TypeOK
<1>2. TypeOK'
  BY <1>1 DEF LateCallEnds, IInv, TypeOK, rows
<1>3. WorkerInv'
  <2>1. CallsAreBounded'
    BY <1>1, OpsResponseAssumption DEF LateCallEnds, IInv, WorkerInv, CallsAreBounded
  <2> QED BY <2>1 DEF LateCallEnds, IInv, WorkerInv
<1>4. SessionInv' /\ MemoryInv'
  BY DEF LateCallEnds, IInv, SessionInv, MemoryInv, rows, Current
<1> QED BY <1>2, <1>3, <1>4 DEF IInv

(* PlanDecided                                                             *)
LEMMA PlanDecidedStep ==
    ASSUME IInv, PlanDecided
    PROVE  IInv'
<1>1. TypeOK'
  BY DEF PlanDecided, IInv, TypeOK, SessionStatus, _PROCESSABLE_STATUSES
<1>2. WorkerInv'
  BY DEF PlanDecided, IInv, WorkerInv, CallsAreBounded
<1>3. SessionInv' /\ MemoryInv'
  BY DEF PlanDecided, IInv, SessionInv, MemoryInv, Current
<1> QED BY <1>1, <1>2, <1>3 DEF IInv

(* Pause, Cancel and Resume change a task row.                             *)
LEMMA ControlStep ==
    ASSUME IInv, NEW t \in Tasks, Pause(t) \/ Cancel(t) \/ Resume(t)
    PROVE  IInv'
<1>1. UNCHANGED <<rows, worker, late, up, claims, restarts>>
  BY DEF Pause, Cancel, Resume
<1>2. task' \in [Tasks -> [status : TaskStatus, control : {"none", "pause", "cancel"}]]
  BY DEF Pause, Cancel, Resume, IInv, TypeOK, TaskStatus
<1>3. TypeOK'
  BY <1>1, <1>2 DEF IInv, TypeOK, rows
<1>4. WorkerInv' /\ SessionInv' /\ MemoryInv'
  BY <1>1 DEF IInv, WorkerInv, CallsAreBounded, SessionInv, MemoryInv, rows, Current
<1> QED BY <1>3, <1>4 DEF IInv

(* Crash                                                                   *)
LEMMA CrashStep ==
    ASSUME IInv, Crash
    PROVE  IInv'
<1>1. worker' = IdleWorker /\ worker' \in Worker /\ worker'.pc = "idle"
      /\ worker'.calling = FALSE /\ late' = 0 /\ late' \in 0..CallSlots /\ up' = FALSE
  BY IdleWorkerType, OpsResponseAssumption DEF Crash
<1>2. TypeOK'
  BY <1>1, SlotsHeld DEF Crash, IInv, TypeOK, rows
<1>3. WorkerInv'
  BY <1>1, SlotsHeld DEF Crash, WorkerInv
<1>4. SessionInv' /\ MemoryInv'
  BY <1>1 DEF Crash, IInv, SessionInv, MemoryInv, rows
<1> QED BY <1>2, <1>3, <1>4 DEF IInv

(* Restart: recover_interrupted closes every open run, for one that is     *)
(* open has a processing session.                                          *)
LEMMA RestartStep ==
    ASSUME IInv, Restart
    PROVE  IInv'
<1>1. worker = IdleWorker /\ worker' = IdleWorker /\ worker.pc = "idle"
      /\ up' = TRUE /\ late' = late
  BY IdleWorkerType DEF Restart, IInv, WorkerInv
<1>2. open' = {}
  BY DEF Restart, recover_interrupted, IInv, SessionInv
<1>3. broken' \subseteq failures' /\ failures' \subseteq Tasks \X Tools
  BY DEF Restart, recover_interrupted, IInv, TypeOK, MemoryInv
<1>4. task' \in [Tasks -> [status : TaskStatus, control : {"none", "pause", "cancel"}]]
  BY DEF Restart, IInv, TypeOK, TaskStatus
<1>5. session' \in SessionStatus
  BY DEF Restart, recover_interrupted, IInv, TypeOK, SessionStatus, _PROCESSABLE_STATUSES
<1>6. restarts' \in 0..MaxRestarts
  BY OpsResponseAssumption DEF Restart, IInv, TypeOK, WorkerInv
<1>7. TypeOK'
  BY <1>1, <1>2, <1>3, <1>4, <1>5, <1>6 DEF Restart, IInv, TypeOK
<1>8. WorkerInv'
  BY <1>1 DEF IInv, WorkerInv, CallsAreBounded
<1>9. SessionInv' /\ MemoryInv'
  BY <1>1, <1>2, <1>3 DEF SessionInv, MemoryInv
<1> QED BY <1>7, <1>8, <1>9 DEF IInv
-----------------------------------------------------------------------------
(* The initial states satisfy the invariant.                               *)
LEMMA InitInv ==
    ASSUME Init
    PROVE  IInv
<1>1. worker \in Worker /\ worker.pc = "idle" /\ worker.calling = FALSE
  BY IdleWorkerType DEF Init
<1>2. TypeOK
  BY <1>1, OpsResponseAssumption DEF Init, TypeOK, SessionStatus, _PROCESSABLE_STATUSES, TaskStatus
<1>3. CallsAreBounded
  BY <1>1, OpsResponseAssumption DEF Init, CallsAreBounded
<1>4. WorkerInv
  BY <1>1, <1>3 DEF Init, WorkerInv
<1>5. SessionInv /\ MemoryInv
  BY <1>1 DEF Init, SessionInv, MemoryInv
<1> QED BY <1>2, <1>4, <1>5 DEF IInv

(* Every step keeps the invariant.                                         *)
LEMMA Inductive == IInv /\ [Next]_vars => IInv'
<1> SUFFICES ASSUME IInv, [Next]_vars PROVE IInv'
  OBVIOUS
<1>1. CASE UNCHANGED vars
  <2>1. TypeOK' /\ WorkerInv'
    BY <1>1 DEF vars, IInv, TypeOK, WorkerInv, CallsAreBounded
  <2>2. SessionInv' /\ MemoryInv'
    BY <1>1 DEF vars, IInv, SessionInv, MemoryInv, Current
  <2> QED BY <2>1, <2>2 DEF IInv
<1>2. CASE \E t \in Tasks : Claim(t) \/ Pause(t) \/ Cancel(t) \/ Resume(t)
  BY <1>2, ClaimStep, ControlStep
<1>3. CASE ClaimSession \/ DeadlinePasses \/ ProviderGone
  BY <1>3, ClaimSessionStep, DeadlinePassesStep, ProviderGoneStep
<1>4. CASE AskProvider \/ AskingStops \/ ProviderAnswers \/ FormatRefused \/ TurnIncomplete
  BY <1>4, AskProviderStep, AskingStopsStep, ProviderAnswersStep, FormatRefusedStep,
     TurnIncompleteStep
<1>5. CASE TurnDecides \/ _queue_tool \/ MarkAndCall \/ ToolStops \/ ToolReturns \/ ToolRaises
           \/ ToolCommits
  BY <1>5, TurnDecidesStep, QueueToolStep, MarkAndCallStep, ToolStopsStep, ToolReturnsStep,
     ToolRaisesStep, ToolCommitsStep
<1>6. CASE \/ _save_limit \/ _create_plan \/ _save_answer \/ _save_failure
           \/ _release_controlled_session \/ Finish
  BY <1>6, SaveStep, EndStep, FinishStep
<1>7. CASE LateCallEnds \/ PlanDecided \/ Crash \/ Restart
  BY <1>7, LateCallEndsStep, PlanDecidedStep, CrashStep, RestartStep
<1> QED BY <1>1, <1>2, <1>3, <1>4, <1>5, <1>6, <1>7 DEF Next

(***************************************************************************)
(* The invariant of the response loop: the types, what the worker holds,   *)
(* whose the session and its open run are, and what failed_calls knows.    *)
(***************************************************************************)
THEOREM Invariance == Spec => []IInv
  BY InitInv, Inductive, PTL DEF Spec

(***************************************************************************)
(* A tool run is open only while its session is processing and the worker  *)
(* is on it: no error path of the orchestrator, no control request and no  *)
(* crash leaves a run that recover_interrupted would not find.             *)
(***************************************************************************)
THEOREM OpenRunsAreOwned == Spec => []OpenRunHasItsWorker
<1>1. IInv => OpenRunHasItsWorker
  BY DEF IInv, SessionInv, OpenRunHasItsWorker
<1> QED BY <1>1, Invariance, PTL

(***************************************************************************)
(* _BoundedCallRunner never has more call threads than slots, for every    *)
(* number of slots and abandoned calls.                                    *)
(***************************************************************************)
THEOREM CallThreadsAreBounded == Spec => []CallsAreBounded
<1>1. IInv => CallsAreBounded
  BY DEF IInv, WorkerInv
<1> QED BY <1>1, Invariance, PTL

(***************************************************************************)
(* A tool call that failed for a request is never queued again for it,     *)
(* through any sequence of pauses, retries, crashes and restarts.          *)
(***************************************************************************)
THEOREM FailuresAreRemembered == Spec => FailedToolNotRepeated
<1>1. IInv /\ [Next]_vars => [\A c \in broken : started'[c] = started[c]]_vars
  <2> SUFFICES ASSUME IInv, [Next]_vars, started' # started, NEW c \in broken
               PROVE  started'[c] = started[c]
    BY DEF vars
  <2>1. _queue_tool
    BY DEF Next, vars, rows, Claim, Pause, Cancel, Resume, ClaimSession, DeadlinePasses,
           ProviderGone, AskProvider, AskingStops, ProviderAnswers, FormatRefused,
           TurnIncomplete, TurnDecides, MarkAndCall, ToolStops, ToolReturns, ToolRaises,
           ToolCommits, _save_limit, _create_plan, _save_answer, _save_failure,
           _release_controlled_session, Finish, LateCallEnds, PlanDecided, Crash, Restart
  <2>2. started' = [started EXCEPT ![Current] = @ + 1]
    BY <2>1 DEF _queue_tool
  <2>3. Current \notin broken
    <3>1. worker.pc = "queue" /\ worker.tool \in Tools
      BY <2>1 DEF _queue_tool, At, IInv, WorkerInv
    <3> QED BY <3>1 DEF IInv, MemoryInv, Current
  <2>4. c # Current /\ c \in Tasks \X Tools /\ started \in [Tasks \X Tools -> Nat]
    BY <2>3 DEF IInv, TypeOK
  <2> QED BY <2>2, <2>4
<1> QED BY <1>1, Invariance, PTL DEF Spec, FailedToolNotRepeated
=============================================================================
