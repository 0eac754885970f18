---------------------------- MODULE OpsResponse ----------------------------
(***************************************************************************)
(* The response loop of the operations assistant                           *)
(* (backend/app/services/ops_orchestrator.py, with the provider client and *)
(* the read-only tool registry it calls).                                  *)
(*                                                                         *)
(* One session, and several ops.respond tasks for it; the task identifier  *)
(* is the request_id under which messages and tool runs are stored, so a   *)
(* resumed or requeued task continues its own record.  The control lane    *)
(* has one thread: worker.  Provider and tool calls run in threads of      *)
(* their own, which outlive the deadline or the control request that made  *)
(* the worker give them up.  A tool call is its fingerprint; plans and     *)
(* their execution are module OpsPlans's, which also has the session being *)
(* deleted under the worker.                                               *)
(***************************************************************************)
EXTENDS Naturals, FiniteSets, TaskStates

CONSTANTS
    Tasks,           \* ops.respond tasks of the session
    Tools,           \* tool fingerprints a provider may ask for
    None,            \* "no task" and "no tool"
    MaxToolTurns,    \* max_tool_turns
    MaxResultChars,  \* max_tool_result_chars
    MaxTotalChars,   \* max_total_tool_chars
    MaxPayload,      \* the longest serialized tool result
    CallSlots,       \* max_workers of _BoundedCallRunner
    MaxClaims,       \* bound: claims of tasks by the lane
    MaxRestarts      \* bound: manager restarts

ASSUME OpsResponseAssumption ==
    /\ None \notin Tasks \cup Tools
    /\ MaxToolTurns \in Nat
    /\ MaxResultChars \in Nat \ {0}
    /\ MaxTotalChars \in Nat \ {0}
    /\ MaxPayload \in Nat \ {0}
    /\ CallSlots \in Nat \ {0}
    /\ MaxClaims \in Nat
    /\ MaxRestarts \in Nat

VARIABLES
    session,    \* ops_sessions.status
    task,       \* the task rows: status and requested control
    prompts,    \* how many user messages carry the task's request_id
    intents,    \* assistant messages that announce a tool: {<<task, tool>>}
    failures,   \* tool messages whose metadata says failed: {<<task, tool>>}
    open,       \* ops_tool_runs rows that are queued or running
    broken,     \* <<task, tool>> whose run really did not succeed (history)
    started,    \* how often a tool was queued for a task (history)
    worker,     \* the control lane's thread
    late,       \* abandoned call threads, which still hold a slot
    up, claims, restarts

vars == <<session, task, prompts, intents, failures, open, broken, started, worker, late, up,
          claims, restarts>>

rows == <<session, prompts, intents, failures, open, broken, started>>
_PROCESSABLE_STATUSES == {"active", "answered", "needs_input", "failed"}

SessionStatus == _PROCESSABLE_STATUSES \cup {"processing", "approval_required"}

Result == [status : {"succeeded", "failed"}, chars : 1..MaxPayload]

NoResult == [status |-> "failed", chars |-> 1]

(* Where complete is: the initial payload or its repair, with or without   *)
(* response_format.                                                        *)
ProviderRequest == [payload : {"initial", "repair"}, response_format : BOOLEAN]

FirstRequest == [payload |-> "initial", response_format |-> TRUE]

WorkerPc == {"idle", "claim", "top", "asking", "turn", "queue", "mark", "tool", "result",
             "limit", "proposing", "answering", "error", "release", "ending"}

Worker == [pc : WorkerPc, task : Tasks \cup {None}, tool : Tools \cup {None},
           tool_count : 0..MaxToolTurns, total_tool_chars : 0..MaxTotalChars,
           failed_calls : SUBSET Tools, result : Result,
           timeup : BOOLEAN,       \* the deadline of this attempt has passed
           calling : BOOLEAN,      \* a call thread of this attempt is running
           request : ProviderRequest,
           outcome : TaskStatus]

IdleWorker == [pc |-> "idle", task |-> None, tool |-> None, tool_count |-> 0,
               total_tool_chars |-> 0, failed_calls |-> {}, result |-> NoResult,
               timeup |-> FALSE, calling |-> FALSE, request |-> FirstRequest, outcome |-> "queued"]

(* A type for every variable.                                              *)
TypeOK ==
    /\ session \in SessionStatus
    /\ task \in [Tasks -> [status : TaskStatus, control : {"none", "pause", "cancel"}]]
    /\ prompts \in [Tasks -> Nat]
    /\ intents \subseteq Tasks \X Tools
    /\ failures \subseteq Tasks \X Tools
    /\ open \subseteq Tasks \X Tools
    /\ broken \subseteq Tasks \X Tools
    /\ started \in [Tasks \X Tools -> Nat]
    /\ worker \in Worker
    /\ late \in Nat
    /\ up \in BOOLEAN
    /\ claims \in 0..MaxClaims
    /\ restarts \in 0..MaxRestarts

Init ==
    /\ session = "active"
    /\ task = [t \in Tasks |-> [status |-> "queued", control |-> "none"]]
    /\ prompts = [t \in Tasks |-> 0]
    /\ intents = {}
    /\ failures = {}
    /\ open = {}
    /\ broken = {}
    /\ started = [c \in Tasks \X Tools |-> 0]
    /\ worker = IdleWorker
    /\ late = 0
    /\ up = TRUE
    /\ claims = 0
    /\ restarts = 0
-----------------------------------------------------------------------------
(* check_control.                                                          *)
Controlled == task[worker.task].control # "none"

Stopped == IF task[worker.task].control = "pause" THEN "paused" ELSE "cancelled"

At(pc) == up /\ worker.pc = pc

Goto(pc) == worker' = [worker EXCEPT !.pc = pc]

EndWith(outcome) == worker' = [IdleWorker EXCEPT !.pc = "ending", !.task = worker.task,
                                                 !.outcome = outcome]

Current == <<worker.task, worker.tool>>
-----------------------------------------------------------------------------
(* The lane claims a task and calls handler, which checks for control.     *)
Claim(t) ==
    /\ At("idle") /\ claims < MaxClaims
    /\ task[t].status = "queued"
    /\ task' = [task EXCEPT ![t].status = "running"]
    /\ worker' = [IdleWorker EXCEPT !.pc = "claim", !.task = t]
    /\ claims' = claims + 1
    /\ UNCHANGED <<rows, late, up, restarts>>

PromptsAfterClaim(t) == IF prompts[t] = 0 THEN 1 ELSE prompts[t]

(***************************************************************************)
(* handler and _claim_and_append_prompt: a missing provider or deployment  *)
(* is a ValueError; the conditional UPDATE decides; check_control comes    *)
(* last, before the commit.                                                *)
(***************************************************************************)
ClaimSession ==
    /\ At("claim")
    /\ \/ Controlled /\ EndWith(Stopped) /\ UNCHANGED <<session, prompts>>
       \/ ~Controlled /\ EndWith("failed") /\ UNCHANGED <<session, prompts>>
       \/ /\ ~Controlled /\ session \in _PROCESSABLE_STATUSES
          /\ session' = "processing"
          /\ prompts' = [prompts EXCEPT ![worker.task] = PromptsAfterClaim(worker.task)]
          /\ worker' = [worker EXCEPT !.pc = "top",
                           !.failed_calls = {c \in Tools : <<worker.task, c>> \in failures}]
    /\ UNCHANGED <<task, intents, failures, open, broken, started, late, up, claims, restarts>>

(* The clock: max_total_seconds after the attempt began, where it is read. *)
DeadlinePasses ==
    /\ up /\ worker.pc \in {"top", "asking", "mark", "tool"} /\ ~worker.timeup
    /\ worker' = [worker EXCEPT !.timeup = TRUE]
    /\ UNCHANGED <<rows, task, late, up, claims, restarts>>

(* A control request or the deadline ends the attempt.                     *)
Raises == Controlled /\ worker' = [worker EXCEPT !.pc = "release", !.outcome = Stopped]

Expires == ~Controlled /\ worker.timeup /\ Goto("limit")

(* _load_provider_context finds the provider missing or disabled.          *)
ProviderGone ==
    /\ At("top") /\ ~Controlled /\ ~worker.timeup
    /\ worker' = [worker EXCEPT !.pc = "error", !.outcome = "failed"]
    /\ UNCHANGED <<rows, task, late, up, claims, restarts>>

(***************************************************************************)
(* _BoundedCallRunner.run: take a slot, polling control and deadline while *)
(* there is none, start the thread, poll again until it is done.           *)
(***************************************************************************)
TakesAnySlot == TRUE                                 \* mutant: the semaphore ignored

SlotFree == late < CallSlots

AskProvider ==
    /\ At("top")
    /\ \/ Raises
       \/ Expires
       \/ /\ ~Controlled /\ ~worker.timeup /\ SlotFree
          /\ worker' = [worker EXCEPT !.pc = "asking", !.calling = TRUE,
                                   !.request = FirstRequest]
    /\ UNCHANGED <<rows, task, late, up, claims, restarts>>

StillRunning(calling) == IF calling THEN late + 1 ELSE late

AfterStop == IF Controlled THEN "release" ELSE "limit"

WaitsForTheCall ==                                   \* mutant: no deadline for the caller
    /\ Controlled
    /\ late' = StillRunning(worker.calling)
    /\ worker' = [worker EXCEPT !.calling = FALSE, !.pc = AfterStop, !.outcome = Stopped]

(* run gives up: the thread goes on and keeps its slot.                    *)
GivesUp ==
    /\ Controlled \/ worker.timeup
    /\ late' = StillRunning(worker.calling)
    /\ worker' = [worker EXCEPT !.calling = FALSE, !.pc = AfterStop, !.outcome = Stopped]

AskingStops ==
    /\ At("asking")
    /\ GivesUp
    /\ UNCHANGED <<rows, task, up, claims, restarts>>

(* complete returns a validated turn, or raises: OpsProviderError becomes  *)
(* a stored failure, a turn with secret material a ValueError.             *)
ProviderAnswers ==
    /\ At("asking") /\ ~Controlled /\ ~worker.timeup
    /\ \/ \E tool \in Tools :
            worker' = [worker EXCEPT !.pc = "turn", !.calling = FALSE, !.tool = tool,
                                     !.request = FirstRequest]
       \/ \E pc \in {"proposing", "answering"} :
            worker' = [worker EXCEPT !.pc = pc, !.calling = FALSE]
       \/ \E outcome \in {"succeeded", "failed"} :
            worker' = [worker EXCEPT !.pc = "error", !.calling = FALSE, !.outcome = outcome]
    /\ UNCHANGED <<rows, task, late, up, claims, restarts>>

(* _request_json: a 4xx about response_format is retried without it, once. *)
FormatRefused ==
    /\ At("asking") /\ ~Controlled /\ ~worker.timeup
    /\ worker.request.response_format
    /\ worker' = [worker EXCEPT !.request.response_format = FALSE]
    /\ UNCHANGED <<rows, task, late, up, claims, restarts>>

Repairable(payload) == payload = "initial"

(* _parse_turn finds no complete turn: complete asks once more.            *)
TurnIncomplete ==
    /\ At("asking") /\ ~Controlled /\ ~worker.timeup
    /\ IF Repairable(worker.request.payload)
       THEN worker' = [worker EXCEPT !.request = [FirstRequest EXCEPT !.payload = "repair"]]
       ELSE worker' = [worker EXCEPT !.pc = "error", !.calling = FALSE,
                                     !.outcome = "succeeded"]
    /\ UNCHANGED <<rows, task, late, up, claims, restarts>>
-----------------------------------------------------------------------------
(* A tool turn.                                                            *)
ForgetsFailures == {}                                \* mutant: the memory is not consulted

KnownFailures == worker.failed_calls

(* Limits, then _save_tool_intent (its message once per fingerprint).      *)
TurnDecides ==
    /\ At("turn")
    /\ \/ /\ worker.tool_count >= MaxToolTurns \/ worker.tool \in KnownFailures
          /\ worker' = [worker EXCEPT !.pc = AfterStop, !.outcome = Stopped]
          /\ UNCHANGED intents
       \/ /\ worker.tool_count < MaxToolTurns /\ worker.tool \notin KnownFailures
          /\ IF Controlled /\ Current \notin intents
             THEN Raises /\ UNCHANGED intents
             ELSE Goto("queue") /\ intents' = intents \cup {Current}
    /\ UNCHANGED <<session, prompts, failures, open, broken, started, task, late, up, claims,
                   restarts>>

_queue_tool ==
    /\ At("queue")
    /\ \/ Raises /\ UNCHANGED <<open, started>>
       \/ /\ ~Controlled
          /\ open' = open \cup {Current}
          /\ started' = [started EXCEPT ![Current] = @ + 1]
          /\ Goto("mark")
    /\ UNCHANGED <<session, prompts, intents, failures, broken, task, late, up, claims, restarts>>

LeavesRunOpen ==                                     \* mutant: only the message is stored
    /\ open' = open
    /\ failures' = failures \cup {Current}
    /\ broken' = broken \cup {Current}
    /\ session' = IF Controlled THEN "active" ELSE session

(* _finish_tool with a failed payload: run, message and audit in one       *)
(* commit, and the session released when a control request was the reason. *)
FinishFailed ==
    /\ open' = open \ {Current}
    /\ failures' = failures \cup {Current}
    /\ broken' = broken \cup {Current}
    /\ session' = IF Controlled THEN "active" ELSE session

(* _mark_tool_running and the wait for a slot.                             *)
MarkAndCall ==
    /\ At("mark")
    /\ \/ /\ Controlled \/ worker.timeup
          /\ FinishFailed
          /\ worker' = [worker EXCEPT !.pc = AfterStop, !.outcome = Stopped]
       \/ /\ ~Controlled /\ ~worker.timeup /\ SlotFree
          /\ worker' = [worker EXCEPT !.pc = "tool", !.calling = TRUE]
          /\ UNCHANGED <<session, open, failures, broken>>
    /\ UNCHANGED <<prompts, intents, started, task, late, up, claims, restarts>>

ToolStops ==
    /\ At("tool")
    /\ GivesUp
    /\ FinishFailed
    /\ UNCHANGED <<prompts, intents, started, task, up, claims, restarts>>

(* execute returns a ToolResult ...                                        *)
ToolReturns ==
    /\ At("tool") /\ ~Controlled /\ ~worker.timeup
    /\ \E result \in Result :
          worker' = [worker EXCEPT !.pc = "result", !.calling = FALSE, !.result = result,
                                   !.tool_count = @ + 1]
    /\ UNCHANGED <<rows, task, late, up, claims, restarts>>

(* ... or raises ToolExecutionError.                                       *)
ToolRaises ==
    /\ At("tool") /\ ~Controlled /\ ~worker.timeup
    /\ FinishFailed
    /\ worker' = [worker EXCEPT !.pc = "error", !.calling = FALSE, !.outcome = "failed"]
    /\ UNCHANGED <<prompts, intents, started, task, late, up, claims, restarts>>

(***************************************************************************)
(* _bound_payload: a payload over the limit becomes a preview, which has   *)
(* no status, and _finish_tool stores a missing status as failed.          *)
(***************************************************************************)
_bound_payload(payload, limit) ==
    IF payload.chars <= limit THEN payload ELSE [status |-> "failed", chars |-> limit]

Remaining == MaxTotalChars - worker.total_tool_chars

StoreResult(payload) ==
    /\ open' = open \ {Current}
    /\ failures' = IF payload.status = "failed" THEN failures \cup {Current} ELSE failures
    /\ broken' = IF worker.result.status = "failed" THEN broken \cup {Current} ELSE broken
    /\ UNCHANGED session

Learned == IF worker.result.status = "failed"
           THEN worker.failed_calls \cup {worker.tool} ELSE worker.failed_calls

(* Over the cumulative limit only a notice of one unit is stored.          *)
ToolCommits ==
    LET payload == _bound_payload(worker.result, MaxResultChars)
        notice == _bound_payload([worker.result EXCEPT !.chars = 1], Remaining)
    IN /\ At("result")
       /\ \/ /\ Controlled
             /\ FinishFailed
             /\ worker' = [worker EXCEPT !.pc = "release", !.outcome = Stopped]
          \/ /\ ~Controlled /\ payload.chars > Remaining
             /\ StoreResult(notice)
             /\ Goto("limit")
          \/ /\ ~Controlled /\ payload.chars <= Remaining
             /\ StoreResult(payload)
             /\ worker' = [worker EXCEPT !.pc = "top", !.tool = None, !.result = NoResult,
                              !.total_tool_chars = @ + payload.chars,
                              !.failed_calls = Learned]
       /\ UNCHANGED <<prompts, intents, started, task, late, up, claims, restarts>>
-----------------------------------------------------------------------------
(* Ends of an attempt.                                                     *)

(* stop_with_limit.                                                        *)
_save_limit ==
    /\ At("limit")
    /\ \/ Raises /\ UNCHANGED session
       \/ ~Controlled /\ session' = "failed" /\ EndWith("succeeded")
    /\ UNCHANGED <<prompts, intents, failures, open, broken, started, task, late, up, claims,
                   restarts>>

_create_plan ==
    /\ At("proposing")
    /\ \/ Raises /\ UNCHANGED session
       \/ /\ worker' = [worker EXCEPT !.pc = "error", !.outcome = "failed"]
          /\ UNCHANGED session
       \/ ~Controlled /\ session' = "approval_required" /\ EndWith("succeeded")
    /\ UNCHANGED <<prompts, intents, failures, open, broken, started, task, late, up, claims,
                   restarts>>

_save_answer ==
    /\ At("answering")
    /\ \/ Raises /\ UNCHANGED session
       \/ /\ ~Controlled
          /\ session' \in {"answered", "needs_input"}
          /\ EndWith("succeeded")
    /\ UNCHANGED <<prompts, intents, failures, open, broken, started, task, late, up, claims,
                   restarts>>

(* _save_failure checks no control; a provider failure returns a result.   *)
_save_failure ==
    /\ At("error")
    /\ session' = "failed"
    /\ EndWith(worker.outcome)
    /\ UNCHANGED <<prompts, intents, failures, open, broken, started, task, late, up, claims,
                   restarts>>

_release_controlled_session ==
    /\ At("release")
    /\ session' = "active"
    /\ EndWith(worker.outcome)
    /\ UNCHANGED <<prompts, intents, failures, open, broken, started, task, late, up, claims,
                   restarts>>

(* _finish of the engine.                                                  *)
Finish ==
    /\ At("ending")
    /\ task' = [task EXCEPT ![worker.task].status = worker.outcome]
    /\ worker' = IdleWorker
    /\ UNCHANGED <<rows, late, up, claims, restarts>>

LateCallEnds ==
    /\ up /\ late > 0
    /\ late' = late - 1
    /\ UNCHANGED <<rows, task, worker, up, claims, restarts>>
-----------------------------------------------------------------------------
(* Administrators: the plan is decided, the tasks are controlled.          *)
PlanDecided ==
    /\ up /\ session = "approval_required"
    /\ session' = "active"
    /\ UNCHANGED <<prompts, intents, failures, open, broken, started, task, worker, late, up,
                   claims, restarts>>

Pause(t) ==
    /\ up
    /\ \/ task[t].status = "queued" /\ task' = [task EXCEPT ![t].status = "paused"]
       \/ task[t].status = "running" /\ task' = [task EXCEPT ![t].control = "pause"]
    /\ UNCHANGED <<rows, worker, late, up, claims, restarts>>

Cancel(t) ==
    /\ up
    /\ \/ /\ task[t].status \in {"queued", "paused"}
          /\ task' = [task EXCEPT ![t].status = "cancelled"]
       \/ task[t].status = "running" /\ task' = [task EXCEPT ![t].control = "cancel"]
    /\ UNCHANGED <<rows, worker, late, up, claims, restarts>>

\* A resume of a running task, which the code accepts, is TaskEngine's
\* (UndocumentedOnlyByRace); here it is left out.
Resume(t) ==
    /\ up
    /\ task[t].status # "running" /\ MayTransition(task[t].status, "queued")
    /\ task' = [task EXCEPT ![t] = [status |-> "queued", control |-> "none"]]
    /\ UNCHANGED <<rows, worker, late, up, claims, restarts>>

RecoversSessionsOnly ==                              \* mutant: tool runs left alone
    /\ session' = IF session = "processing" THEN "active" ELSE session
    /\ UNCHANGED <<open, failures, broken>>

(* Open tool runs of a processing session fail and are remembered.         *)
recover_interrupted ==
    /\ session' = IF session = "processing" THEN "active" ELSE session
    /\ IF session = "processing"
       THEN /\ open' = {}
            /\ failures' = failures \cup open
            /\ broken' = broken \cup open
       ELSE UNCHANGED <<open, failures, broken>>

Crash ==
    /\ up /\ restarts < MaxRestarts
    /\ up' = FALSE
    /\ worker' = IdleWorker
    /\ late' = 0
    /\ UNCHANGED <<rows, task, claims, restarts>>

(* recover_interrupted, then the engine's own recovery.                    *)
Restart ==
    /\ ~up
    /\ up' = TRUE
    /\ restarts' = restarts + 1
    /\ recover_interrupted
    /\ task' = [t \in Tasks |-> IF task[t].status = "running"
                                THEN [status |-> "queued", control |-> "none"] ELSE task[t]]
    /\ UNCHANGED <<prompts, intents, started, worker, late, claims>>

Next ==
    \/ \E t \in Tasks : Claim(t) \/ Pause(t) \/ Cancel(t) \/ Resume(t)
    \/ ClaimSession \/ DeadlinePasses \/ ProviderGone
    \/ AskProvider \/ AskingStops \/ ProviderAnswers \/ FormatRefused \/ TurnIncomplete
    \/ TurnDecides \/ _queue_tool \/ MarkAndCall \/ ToolStops \/ ToolReturns \/ ToolRaises
    \/ ToolCommits
    \/ _save_limit \/ _create_plan \/ _save_answer \/ _save_failure
    \/ _release_controlled_session \/ Finish
    \/ LateCallEnds \/ PlanDecided \/ Crash \/ Restart

(***************************************************************************)
(* The lane's thread runs, time passes and the service manager restarts a  *)
(* dead manager.  That a call ever returns, or a late thread ever ends, is *)
(* not assumed.                                                            *)
(***************************************************************************)
WorkerStep ==
    \/ ClaimSession \/ AskProvider \/ AskingStops \/ TurnDecides \/ _queue_tool \/ MarkAndCall
    \/ ToolStops \/ ToolCommits \/ _save_limit \/ _create_plan \/ _save_answer
    \/ _save_failure \/ _release_controlled_session \/ Finish

Fairness == WF_vars(WorkerStep) /\ WF_vars(DeadlinePasses) /\ WF_vars(Restart)

Spec == Init /\ [][Next]_vars /\ Fairness
-----------------------------------------------------------------------------
(***************************************************************************)
(* A tool run is open only while its session is processing.  Recovery      *)
(* looks for open runs of processing sessions only, so any other run would *)
(* stay "running" for ever: every error path has to finish the run before  *)
(* it releases the session, and a crash may fall anywhere.                 *)
(***************************************************************************)
OpenRunHasItsWorker == up /\ open # {} => session = "processing" /\ open = {Current}

(***************************************************************************)
(* A tool call of a request that failed, was interrupted or was stopped is *)
(* not made again for that request, across pauses, retries and restarts:   *)
(* failed_calls is rebuilt from the stored messages.                       *)
(***************************************************************************)
FailedToolNotRepeated ==
    [][\A c \in broken : started'[c] = started[c]]_vars

(***************************************************************************)
(* Call threads never exceed the runner's capacity, though the worker      *)
(* abandons them at deadlines and control requests.                        *)
(***************************************************************************)
CallsAreBounded == late + (IF worker.calling THEN 1 ELSE 0) <= CallSlots

(***************************************************************************)
(* A processing session is released, even if the provider and the tools    *)
(* never answer and abandoned calls hold every slot.                       *)
(***************************************************************************)
ResponseEnds == (session = "processing") ~> (session # "processing")
-----------------------------------------------------------------------------
(***************************************************************************)
(* The invariant behind the safety properties, in three parts.             *)
(***************************************************************************)

(* What the worker holds where it is.                                      *)
WorkerInv ==
    /\ ~up => worker = IdleWorker /\ restarts < MaxRestarts
    /\ worker.pc # "idle" => worker.task \in Tasks
    /\ worker.pc \in {"turn", "queue", "mark", "tool", "result"} => worker.tool \in Tools
    /\ worker.pc \in {"queue", "mark", "tool"} => worker.tool_count < MaxToolTurns
    /\ worker.calling => worker.pc \in {"asking", "tool"}
    /\ CallsAreBounded

(* The session is processing from the claim until an end of the attempt is *)
(* stored, and the only open run is the one the worker is on.              *)
SessionInv ==
    /\ worker.pc \in WorkerPc \ {"idle", "claim", "release", "ending"} => session = "processing"
    /\ open # {} => session = "processing"
    /\ up /\ open # {} => worker.pc \in {"mark", "tool", "result"} /\ open = {Current}

(* Every failure is stored, and the worker's memory holds those of its     *)
(* task for as long as it may queue a tool.                                *)
MemoryInv ==
    /\ broken \subseteq failures
    /\ worker.pc \in {"top", "asking", "turn", "queue", "mark", "tool", "result"} =>
          \A c \in Tools : <<worker.task, c>> \in broken => c \in worker.failed_calls
    /\ worker.pc = "queue" => worker.tool \notin worker.failed_calls

IInv == TypeOK /\ WorkerInv /\ SessionInv /\ MemoryInv
=============================================================================
