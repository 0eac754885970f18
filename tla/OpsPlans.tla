------------------------------ MODULE OpsPlans ------------------------------
(***************************************************************************)
(* AI operations: sessions, the plans a response proposes, their approval  *)
(* and execution (backend/app/api/diagnostics.py,                          *)
(* backend/app/operations/executor.py, the session side of                 *)
(* backend/app/services/ops_orchestrator.py and the history clear of       *)
(* backend/app/api/settings.py).                                           *)
(*                                                                         *)
(* ops.respond and operation.execute both belong to the control lane, so   *)
(* one worker thread runs every handler here.  Administrator requests run  *)
(* beside it; each reads, decides, and commits in a second step.  Task     *)
(* rows change in whole operations: the races inside those operations are  *)
(* module TaskEngine's.                                                    *)
(***************************************************************************)
EXTENDS Naturals, TaskStates

CONSTANTS
    Sessions,     \* operations session identifiers
    Plans,        \* operation plan identifiers
    Tasks,        \* task identifiers
    NoTask,       \* "no task"
    Nothing,      \* the subject of an idle request or an absent row
    Steps,        \* the number of steps of a plan
    Requests,     \* concurrent administrator requests
    Controls,     \* the task control endpoints administrators call
    MaxRestarts,  \* bound: manager restarts
    MaxCalls      \* bound: administrator calls

ASSUME OpsPlansAssumption ==
    /\ NoTask \notin Tasks
    /\ Nothing \notin Sessions \cup Plans
    /\ Sessions \cap Plans = {}
    /\ Steps \in Nat \ {0}
    /\ Controls \subseteq {"pause", "resume", "cancel"}
    /\ MaxRestarts \in Nat
    /\ MaxCalls \in Nat

VARIABLES
    session,   \* ops_sessions.status
    plan,      \* operation_plans.status
    origin,    \* the session whose message links the plan
    tasks,     \* ops.respond and operation.execute rows
    worker,    \* the control lane's thread
    request,   \* the request threads
    runs,      \* how often each step of a plan was started (history)
    up,        \* "up", "down", or "starting" between the two recoveries
    restarts,
    calls

vars == <<session, plan, origin, tasks, worker, request, runs, up, restarts, calls>>

SessionStatus ==
    {"absent", "active", "processing", "answered", "needs_input", "approval_required",
     "failed", "deleted"}

Lifecycle == INSTANCE PlanLifecycle WITH status <- plan

(***************************************************************************)
(* A task row: its payload names a session (ops.respond) or a plan         *)
(* (operation.execute), from which the idempotency key is built; keyed is  *)
(* FALSE once create_task has released the key of a terminal task; control *)
(* is the request result_json carries.                                     *)
(***************************************************************************)
Task == [status : TaskStatus \cup {"absent", "deleted"},
         about : Sessions \cup Plans \cup {Nothing},
         keyed : BOOLEAN,
         control : {"none", "pause", "cancel"},
         cancel_requested : BOOLEAN]

AbsentTask == [status |-> "absent", about |-> Nothing, keyed |-> FALSE, control |-> "none",
               cancel_requested |-> FALSE]

WorkerPc == {"idle", "responding", "thinking", "reading", "claiming", "stepping", "running",
             "ending", "dead"}

Worker == [pc : WorkerPc, task : Tasks \cup {NoTask}, step : 1..Steps + 1,
           loaded : Lifecycle!PlanStatus, outcome : TaskStatus]

IdleWorker == [pc |-> "idle", task |-> NoTask, step |-> 1, loaded |-> "absent",
               outcome |-> "queued"]

Request == [op : {"none", "message", "approve", "reject", "clear"},
            about : Sessions \cup Plans \cup {Nothing},
            release : BOOLEAN]     \* reject_plan found the session awaiting approval

IdleRequest == [op |-> "none", about |-> Nothing, release |-> FALSE]

Init ==
    /\ session = [s \in Sessions |-> "absent"]
    /\ plan = [p \in Plans |-> "absent"]
    /\ origin = [p \in Plans |-> Nothing]
    /\ tasks = [t \in Tasks |-> AbsentTask]
    /\ worker = IdleWorker
    /\ request = [r \in Requests |-> IdleRequest]
    /\ runs = [p \in Plans |-> [i \in 1..Steps |-> 0]]
    /\ up = "up"
    /\ restarts = 0
    /\ calls = 0

Call == up = "up" /\ calls < MaxCalls /\ calls' = calls + 1
-----------------------------------------------------------------------------
(* Administrator requests.                                                 *)

create_session(s) ==
    /\ Call
    /\ session[s] = "absent"
    /\ session' = [session EXCEPT ![s] = "active"]
    /\ UNCHANGED <<plan, origin, tasks, worker, request, runs, up, restarts>>

Open(r, op, about, release) ==
    request' = [request EXCEPT ![r] = [op |-> op, about |-> about, release |-> release]]

Close(r) == request' = [request EXCEPT ![r] = IdleRequest]

(* create_task under the key of what the task is about.                    *)
Live(t) == tasks[t].status \in TaskStatus \ TERMINAL_STATES

KeyHolder(t, about) == tasks[t].about = about /\ tasks[t].keyed
                       /\ tasks[t].status \in TaskStatus

create_task(about) ==
    IF \E t \in Tasks : KeyHolder(t, about) /\ Live(t)
    THEN tasks' = tasks
    ELSE \E t \in Tasks :
            /\ tasks[t].status = "absent"
            /\ tasks' = [u \in Tasks |->
                  IF u = t THEN [AbsentTask EXCEPT !.status = "queued", !.about = about,
                                                   !.keyed = TRUE]
                  ELSE IF KeyHolder(u, about) THEN [tasks[u] EXCEPT !.keyed = FALSE]
                  ELSE tasks[u]]

Processable == {"active", "answered", "needs_input", "failed"}

(* _queue_message, up to ensure_provider_ready, which may probe a provider *)
MessageRead(r, s) ==
    /\ Call
    /\ request[r].op = "none"
    /\ session[s] \in Processable
    /\ ~\E t \in Tasks : tasks[t].about = s /\ Live(t)    \* _active_response_task
    /\ Open(r, "message", s, FALSE)
    /\ UNCHANGED <<session, plan, origin, tasks, worker, runs, up, restarts>>

MessageCommit(r) ==
    /\ up = "up" /\ request[r].op = "message"
    /\ create_task(request[r].about)
    /\ Close(r)
    /\ UNCHANGED <<session, plan, origin, worker, runs, up, restarts, calls>>

DecidesAnyPlan(p) == plan[p] \in {"pending", "rejected"}  \* mutant: rejected plans too

Undecided(p) == plan[p] = "pending"

ApproveRead(r, p) ==
    /\ Call
    /\ request[r].op = "none"
    /\ Undecided(p)
    /\ Open(r, "approve", p, FALSE)
    /\ UNCHANGED <<session, plan, origin, tasks, worker, runs, up, restarts>>

(* The UPDATE of a row deleted meanwhile raises and rolls back.            *)
ApproveCommit(r) ==
    LET p == request[r].about
    IN /\ up = "up" /\ request[r].op = "approve"
       /\ IF plan[p] = "deleted" THEN UNCHANGED <<plan, tasks>>
          ELSE plan' = [plan EXCEPT ![p] = "approved"] /\ create_task(p)
       /\ Close(r)
       /\ UNCHANGED <<session, origin, worker, runs, up, restarts, calls>>

(***************************************************************************)
(* create_task's SELECT missed a task another request then inserted: its   *)
(* INSERT violates the UNIQUE key and db.rollback() takes the caller's     *)
(* uncommitted approval with it.  The caller still answers with that task. *)
(***************************************************************************)
CreateConflict(r) ==
    /\ up = "up" /\ request[r].op \in {"message", "approve"}
    /\ \E t \in Tasks : KeyHolder(t, request[r].about) /\ Live(t)
    /\ Close(r)
    /\ UNCHANGED <<session, plan, origin, tasks, worker, runs, up, restarts, calls>>

RejectRead(r, p) ==
    /\ Call
    /\ request[r].op = "none"
    /\ Undecided(p)
    /\ Open(r, "reject", p, session[origin[p]] = "approval_required")
    /\ UNCHANGED <<session, plan, origin, tasks, worker, runs, up, restarts>>

RejectCommit(r) ==
    LET p == request[r].about
    IN /\ up = "up" /\ request[r].op = "reject"
       /\ IF plan[p] = "deleted" THEN UNCHANGED <<plan, session>>
          ELSE /\ plan' = [plan EXCEPT ![p] = "rejected"]
               /\ session' = IF request[r].release
                             THEN [session EXCEPT ![origin[p]] = "active"] ELSE session
       /\ Close(r)
       /\ UNCHANGED <<origin, tasks, worker, runs, up, restarts, calls>>

(***************************************************************************)
(* clear_alerts_diagnostics_history: the two checks (SQLite ignores their  *)
(* FOR UPDATE), then the deletes in one transaction.                       *)
(***************************************************************************)
ClearRead(r) ==
    /\ Call
    /\ request[r].op = "none"
    /\ ~\E t \in Tasks : Live(t) \/ (tasks[t].status \in TaskStatus
                                     /\ tasks[t].cancel_requested)
    /\ ~\E p \in Plans : plan[p] \in {"approved", "executing"}
    /\ Open(r, "clear", Nothing, FALSE)
    /\ UNCHANGED <<session, plan, origin, tasks, worker, runs, up, restarts>>

Deleted(status) == IF status = "absent" THEN "absent" ELSE "deleted"

ClearCommit(r) ==
    /\ up = "up" /\ request[r].op = "clear"
    /\ session' = [s \in Sessions |-> Deleted(session[s])]
    /\ plan' = [p \in Plans |-> Deleted(plan[p])]
    /\ tasks' = [t \in Tasks |-> IF tasks[t].status = "failed"
                                 THEN [tasks[t] EXCEPT !.status = "deleted"] ELSE tasks[t]]
    /\ Close(r)
    /\ UNCHANGED <<origin, worker, runs, up, restarts, calls>>

(* The task control endpoints.                                             *)
pause(row) == IF row.status = "queued" THEN [row EXCEPT !.status = "paused"]
                                       ELSE [row EXCEPT !.control = "pause"]

cancel(row) == IF row.status \in {"queued", "paused"}
               THEN [row EXCEPT !.status = "cancelled"]
               ELSE [row EXCEPT !.control = "cancel", !.cancel_requested = TRUE]

resume(row) == [row EXCEPT !.status = "queued", !.control = "none", !.cancel_requested = FALSE]

ControlTask(op, t) ==
    /\ Call
    /\ op \in Controls
    /\ \/ /\ op = "pause" /\ tasks[t].status \in {"queued", "running"}
          /\ tasks' = [tasks EXCEPT ![t] = pause(@)]
       \/ /\ op = "cancel" /\ tasks[t].status \in {"queued", "paused", "running"}
          /\ tasks' = [tasks EXCEPT ![t] = cancel(@)]
       \/ /\ op = "resume" /\ tasks[t].status \in TaskStatus
          /\ MayTransition(tasks[t].status, "queued")
          /\ tasks' = [tasks EXCEPT ![t] = resume(@)]
    /\ UNCHANGED <<session, plan, origin, worker, request, runs, up, restarts>>
-----------------------------------------------------------------------------
(* The control lane: _run claims a task and calls its handler.             *)

Subject == tasks[worker.task].about

Controlled == tasks[worker.task].control # "none" \/ tasks[worker.task].cancel_requested

(* The status check_control's exception leads to.                          *)
Stopped == IF tasks[worker.task].control = "pause" THEN "paused" ELSE "cancelled"

At(pc) == up = "up" /\ worker.pc = pc

Goto(pc) == worker' = [worker EXCEPT !.pc = pc]

EndWith(outcome) == worker' = [worker EXCEPT !.pc = "ending", !.outcome = outcome]

ClaimTask(t) ==
    /\ At("idle")
    /\ tasks[t].status = "queued"
    /\ tasks' = [tasks EXCEPT ![t].status = "running"]
    /\ worker' = [IdleWorker EXCEPT !.task = t,
                     !.pc = IF tasks[t].about \in Sessions THEN "responding" ELSE "reading"]
    /\ UNCHANGED <<session, plan, origin, request, runs, up, restarts, calls>>

(* respond up to _claim_and_append_prompt: one conditional UPDATE decides. *)
(* Before it, secret material in the prompt, and a provider or deployment  *)
(* that is missing, raise ValueError and leave the session as it is.       *)
RespondClaim ==
    /\ At("responding")
    /\ \/ Controlled /\ EndWith(Stopped) /\ UNCHANGED session
       \/ /\ ~Controlled /\ session[Subject] \in Processable
          /\ session' = [session EXCEPT ![Subject] = "processing"]
          /\ Goto("thinking")
       \/ EndWith("failed") /\ UNCHANGED session
    /\ UNCHANGED <<plan, origin, tasks, request, runs, up, restarts, calls>>

(* check_control raises somewhere in the provider loop.                    *)
RespondStops ==
    /\ At("thinking") /\ Controlled
    /\ session' = IF session[Subject] = "deleted" THEN session
                  ELSE [session EXCEPT ![Subject] = "active"]
    /\ EndWith(Stopped)
    /\ UNCHANGED <<plan, origin, tasks, request, runs, up, restarts, calls>>

(* A cleared session: OpsSessionNotFound.                                  *)
RespondFindsNothing ==
    /\ At("thinking") /\ ~Controlled /\ session[Subject] = "deleted"
    /\ EndWith("failed")
    /\ UNCHANGED <<session, plan, origin, tasks, request, runs, up, restarts, calls>>

(* _save_answer, _save_limit.                                              *)
RespondAnswers ==
    /\ At("thinking") /\ ~Controlled /\ session[Subject] # "deleted"
    /\ \E status \in {"answered", "needs_input", "failed"} :
          session' = [session EXCEPT ![Subject] = status]
    /\ EndWith("succeeded")
    /\ UNCHANGED <<plan, origin, tasks, request, runs, up, restarts, calls>>

(* _save_failure: no check_control; provider failures return a result.     *)
RespondFails ==
    /\ At("thinking") /\ session[Subject] # "deleted"
    /\ session' = [session EXCEPT ![Subject] = "failed"]
    /\ \E outcome \in {"succeeded", "failed"} : EndWith(outcome)
    /\ UNCHANGED <<plan, origin, tasks, request, runs, up, restarts, calls>>

(* _create_plan.                                                           *)
RespondPlans(p) ==
    /\ At("thinking") /\ ~Controlled /\ session[Subject] # "deleted"
    /\ plan[p] = "absent"
    /\ plan' = [plan EXCEPT ![p] = "pending"]
    /\ origin' = [origin EXCEPT ![p] = Subject]
    /\ session' = [session EXCEPT ![Subject] = "approval_required"]
    /\ EndWith("succeeded")
    /\ UNCHANGED <<tasks, request, runs, up, restarts, calls>>
-----------------------------------------------------------------------------
(***************************************************************************)
(* The executor.  No code changes the steps of a stored plan, so the       *)
(* digest comparisons of _claim_plan and _verify_approval_digest succeed   *)
(* while the row exists.                                                   *)
(***************************************************************************)
ClaimsFailedPlan == {"approved", "executing", "failed"}      \* mutant

_ACTIVE_PLAN_STATUSES == {"approved", "executing"}

ExecuteRead ==
    /\ At("reading")
    /\ IF plan[Subject] \in _ACTIVE_PLAN_STATUSES
       THEN worker' = [worker EXCEPT !.pc = "claiming", !.loaded = plan[Subject]]
       ELSE EndWith("failed")
    /\ UNCHANGED <<session, plan, origin, tasks, request, runs, up, restarts, calls>>

(* _claim_plan commits; nothing is written when the row was loaded as      *)
(* executing (the re-run after a restart).                                 *)
ExecuteClaim ==
    /\ At("claiming")
    /\ IF plan[Subject] = "deleted" /\ worker.loaded # "executing"
       THEN EndWith("failed") /\ UNCHANGED plan
       ELSE /\ plan' = [plan EXCEPT ![Subject] = Column(@, worker.loaded, "executing")]
            /\ Goto("stepping")
    /\ UNCHANGED <<session, origin, tasks, request, runs, up, restarts, calls>>

SavePlanOnly(p, status) ==      \* mutant: the linked session is forgotten
    /\ plan' = [plan EXCEPT ![p] = IF @ = "deleted" THEN @ ELSE status]
    /\ UNCHANGED session

\* Read and commit are one step: only SELECTs lie between them, and a request
\* that decides or clears refuses an executing plan.
_save_plan_result(p, status) ==
    IF plan[p] = "deleted" THEN UNCHANGED <<plan, session>>
    ELSE /\ plan' = [plan EXCEPT ![p] = status]
         /\ session' = IF status = "executing" \/ session[origin[p]] = "deleted" THEN session
                       ELSE [session EXCEPT ![origin[p]] =
                                IF status = "completed" THEN "active" ELSE "failed"]

FailureSavesNothing ==          \* mutant: the exception leaves the plan executing
    /\ At("stepping") \/ At("running")
    /\ worker.step <= Steps
    /\ EndWith("failed")
    /\ UNCHANGED <<session, plan, origin, tasks, request, runs, up, restarts, calls>>

(* A step's exception: redaction material, agent start, job or poll.       *)
StepFails ==
    /\ At("stepping") \/ At("running")
    /\ worker.step <= Steps
    /\ _save_plan_result(Subject, "failed")
    /\ EndWith("failed")
    /\ UNCHANGED <<origin, tasks, request, runs, up, restarts, calls>>

StepControlled ==
    /\ At("stepping") \/ At("running")
    /\ worker.step <= Steps /\ Controlled
    /\ _save_plan_result(Subject, "failed")
    /\ EndWith(Stopped)
    /\ UNCHANGED <<origin, tasks, request, runs, up, restarts, calls>>

StepBegins ==
    /\ At("stepping") /\ worker.step <= Steps /\ ~Controlled
    /\ IF plan[Subject] = "deleted"                     \* _verify_approval_digest
       THEN EndWith("failed") /\ UNCHANGED runs
       ELSE Goto("running") /\ runs' = [runs EXCEPT ![Subject][worker.step] = @ + 1]
    /\ UNCHANGED <<session, plan, origin, tasks, request, up, restarts, calls>>

(* The step succeeded, or was skipped as not executable.                   *)
StepEnds ==
    /\ \/ At("running")
       \/ At("stepping") /\ worker.step <= Steps /\ ~Controlled /\ plan[Subject] # "deleted"
    /\ _save_plan_result(Subject, "executing")
    /\ worker' = [worker EXCEPT !.pc = "stepping", !.step = @ + 1]
    /\ UNCHANGED <<origin, tasks, request, runs, up, restarts, calls>>

PlanCompletes ==
    /\ At("stepping") /\ worker.step > Steps
    /\ _save_plan_result(Subject, "completed")
    /\ EndWith("succeeded")
    /\ UNCHANGED <<origin, tasks, request, runs, up, restarts, calls>>

(* _finish clears result_json's request but not cancel_requested; a        *)
(* refused transition ends the thread.                                     *)
FinishTask ==
    LET row == tasks[worker.task]
    IN /\ At("ending")
       /\ IF MayTransition(row.status, worker.outcome)
          THEN /\ tasks' = [tasks EXCEPT ![worker.task] =
                     [row EXCEPT !.status = worker.outcome, !.control = "none"]]
               /\ worker' = IdleWorker
          ELSE worker' = [IdleWorker EXCEPT !.pc = "dead"] /\ UNCHANGED tasks
       /\ UNCHANGED <<session, plan, origin, request, runs, up, restarts, calls>>
-----------------------------------------------------------------------------
ProcessEnds ==
    /\ up = "up" /\ restarts < MaxRestarts
    /\ up' = "down"
    /\ restarts' = restarts + 1
    /\ worker' = IdleWorker
    /\ request' = [r \in Requests |-> IdleRequest]
    /\ UNCHANGED <<session, plan, origin, tasks, runs, calls>>

KeepsProcessing(status) == status      \* mutant: no session recovery at startup

(* OpsOrchestrator.recover_interrupted, first in the application lifespan. *)
recover_interrupted(status) == IF status = "processing" THEN "active" ELSE status

RecoverSessions ==
    /\ up = "down"
    /\ up' = "starting"
    /\ session' = [s \in Sessions |-> recover_interrupted(session[s])]
    /\ UNCHANGED <<plan, origin, tasks, worker, request, runs, restarts, calls>>

StartForgets ==       \* mutant: interrupted tasks are closed, not queued again
    /\ up = "starting"
    /\ up' = "up"
    /\ tasks' = [t \in Tasks |-> IF tasks[t].status = "running"
                                 THEN [tasks[t] EXCEPT !.status = "failed"] ELSE tasks[t]]
    /\ UNCHANGED <<session, plan, origin, worker, request, runs, restarts, calls>>

(* TaskEngine.start, later in the lifespan.                                *)
Start ==
    /\ up = "starting"
    /\ up' = "up"
    /\ tasks' = [t \in Tasks |-> IF tasks[t].status = "running" THEN resume(tasks[t])
                                                                ELSE tasks[t]]
    /\ UNCHANGED <<session, plan, origin, worker, request, runs, restarts, calls>>

RequestStep(r) ==
    \/ \E s \in Sessions : MessageRead(r, s)
    \/ MessageCommit(r)
    \/ \E p \in Plans : ApproveRead(r, p) \/ RejectRead(r, p)
    \/ ApproveCommit(r)
    \/ CreateConflict(r)
    \/ RejectCommit(r)
    \/ ClearRead(r)
    \/ ClearCommit(r)

RespondStep ==
    \/ RespondClaim
    \/ RespondStops
    \/ RespondFindsNothing
    \/ RespondAnswers
    \/ RespondFails
    \/ \E p \in Plans : RespondPlans(p)

ExecuteStep ==
    \/ ExecuteRead
    \/ ExecuteClaim
    \/ StepFails
    \/ StepControlled
    \/ StepBegins
    \/ StepEnds
    \/ PlanCompletes

WorkerStep == (\E t \in Tasks : ClaimTask(t)) \/ RespondStep \/ ExecuteStep \/ FinishTask

Next ==
    \/ \E s \in Sessions : create_session(s)
    \/ \E r \in Requests : RequestStep(r)
    \/ \E op \in Controls, t \in Tasks : ControlTask(op, t)
    \/ WorkerStep
    \/ ProcessEnds
    \/ RecoverSessions
    \/ Start

Spec == Init /\ [][Next]_vars

(* The worker thread is scheduled and each handler bounds its own waits    *)
(* (provider and tool deadlines, the agent's job timeouts); the manager is *)
(* restarted by its service manager.  Administrators owe nothing.          *)
Fairness ==
    /\ WF_vars(WorkerStep)
    /\ WF_vars(RecoverSessions)
    /\ WF_vars(Start)

FairSpec == Spec /\ Fairness
-----------------------------------------------------------------------------
(* Every row and thread keeps a value of its type.                         *)
TypeOK ==
    /\ session \in [Sessions -> SessionStatus]
    /\ plan \in [Plans -> Lifecycle!PlanStatus]
    /\ origin \in [Plans -> Sessions \cup {Nothing}]
    /\ tasks \in [Tasks -> Task]
    /\ worker \in Worker
    /\ request \in [Requests -> Request]
    /\ runs \in [Plans -> [1..Steps -> Nat]]
    /\ up \in {"up", "down", "starting"}
    /\ restarts \in 0..MaxRestarts
    /\ calls \in 0..MaxCalls

(***************************************************************************)
(* While the manager serves, a session says processing only if the worker  *)
(* is answering it: no failure, control request, crash or history clear    *)
(* leaves a session that refuses every further message.                    *)
(***************************************************************************)
ProcessingIsHeld ==
    \A s \in Sessions : up = "up" /\ session[s] = "processing" =>
        worker.pc = "thinking" /\ Subject = s

(***************************************************************************)
(* A session waits for approval only while one of its plans can still be   *)
(* decided or is being carried out.                                        *)
(***************************************************************************)
ApprovalIsDecidable ==
    \A s \in Sessions : session[s] = "approval_required" =>
        \E p \in Plans : origin[p] = s /\ plan[p] \in {"pending", "approved", "executing"}

(***************************************************************************)
(* The worker starts a step of an approved plan once, and once more for    *)
(* each restart that interrupted it: resuming a paused, cancelled or       *)
(* failed execution never starts a step again.  It holds while requests    *)
(* come one at a time: a resume that is committed late, over a claim,      *)
(* queues a running task again.                                            *)
(***************************************************************************)
StepOncePerStart ==
    \A p \in Plans, i \in 1..Steps : runs[p][i] <= 1 + restarts

(***************************************************************************)
(* An approved or executing plan has a task that is queued, running or     *)
(* paused, or that an administrator cancelled before it was claimed and    *)
(* may resume: no failure of the handler leaves the plan unfinished.       *)
(***************************************************************************)
UnfinishedPlanIsResumable ==
    \A p \in Plans : plan[p] \in {"approved", "executing"} =>
        \E t \in Tasks : tasks[t].about = p /\ (Live(t) \/ tasks[t].status = "cancelled")

(* The plans follow PlanLifecycle, whatever the worker, the controls and   *)
(* the restarts do meanwhile.                                              *)
FollowsLifecycle == Lifecycle!Spec

(***************************************************************************)
(* An approved plan ends, through crashes and re-runs, unless an           *)
(* administrator pauses or cancels its task or, by resuming a running      *)
(* task, ends the lane's thread.                                           *)
(***************************************************************************)
ApprovedEnds ==
    \A p \in Plans : plan[p] = "approved" ~>
        \/ plan[p] \in {"completed", "failed"}
        \/ \E t \in Tasks : tasks[t].about = p /\ tasks[t].status \in {"paused", "cancelled"}
        \/ worker.pc = "dead"
-----------------------------------------------------------------------------
(***************************************************************************)
(* The invariant behind ProcessingIsHeld and ApprovalIsDecidable, for any  *)
(* number of concurrent requests.                                          *)
(***************************************************************************)

(* A task is about a session, or about a plan that was decided.            *)
TaskInv(t) ==
    /\ tasks[t].status # "absent" => tasks[t].about \in Sessions \cup Plans
    /\ tasks[t].about \in Plans => plan[tasks[t].about] \notin {"absent", "pending"}

(* A request is about something that exists.                               *)
RequestInv(r) ==
    /\ request[r].op = "message" => request[r].about \in Sessions
    /\ request[r].op \in {"approve", "reject"} =>
          request[r].about \in Plans /\ plan[request[r].about] # "absent"

(* The worker has a task of the kind its handler is for.                   *)
WorkerInv ==
    /\ worker.pc \notin {"idle", "dead"} =>
          worker.task \in Tasks /\ tasks[worker.task].status # "absent"
    /\ worker.pc \in {"responding", "thinking"} => Subject \in Sessions
    /\ worker.pc \in {"reading", "claiming", "stepping", "running"} => Subject \in Plans
    /\ worker.pc = "running" => worker.step <= Steps
    /\ up # "up" => worker = IdleWorker /\ request = [r \in Requests |-> IdleRequest]

(* ProcessingIsHeld, from the first recovery on.                           *)
HeldInv(s) ==
    up # "down" /\ session[s] = "processing" => worker.pc = "thinking" /\ Subject = s

(* A plan that keeps its session waiting: whoever is rejecting it saw the  *)
(* session waiting, and will release it.                                   *)
Keeps(p, s) ==
    /\ origin[p] = s /\ plan[p] \in {"pending", "approved", "executing"}
    /\ \A r \in Requests : request[r].op = "reject" /\ request[r].about = p => request[r].release

WaitInv(s) == session[s] = "approval_required" => \E p \in Plans : Keeps(p, s)

IInv ==
    /\ TypeOK
    /\ \A t \in Tasks : TaskInv(t)
    /\ \A r \in Requests : RequestInv(r)
    /\ WorkerInv
    /\ \A p \in Plans : plan[p] # "absent" => origin[p] \in Sessions
    /\ \A s \in Sessions : HeldInv(s) /\ WaitInv(s)

(***************************************************************************)
(* What holds beside it when the administrators' requests come one at a    *)
(* time, behind the lifecycle of the plans, StepOncePerStart and           *)
(* UnfinishedPlanIsResumable.                                              *)
(***************************************************************************)
OneAtATime == \A r, q \in Requests : r = q

Unfinished == {"approved", "executing"}

(* What a request read still holds when it commits.                        *)
DecisionInv(r) ==
    /\ request[r].op \in {"approve", "reject"} => plan[request[r].about] = "pending"
    /\ request[r].op = "clear" => \A p \in Plans : plan[p] \notin Unfinished

(* The executor's plan is the one it loaded, and is concluded at its end.  *)
ExecutorInv ==
    /\ worker.pc = "claiming" => plan[Subject] = worker.loaded /\ worker.loaded \in Unfinished
    /\ worker.pc \in {"stepping", "running"} => plan[Subject] = "executing"
    /\ worker.pc = "ending" /\ Subject \in Plans => plan[Subject] \notin Unfinished

Resumable(p) ==
    plan[p] \in Unfinished =>
        \E t \in Tasks : tasks[t].about = p
                         /\ tasks[t].status \in {"queued", "running", "paused", "cancelled"}

(* The worker is carrying out plan p and has started its step i.           *)
Begun(p, i) ==
    /\ worker.pc \in {"stepping", "running"} /\ Subject = p
    /\ i < worker.step \/ (i = worker.step /\ worker.pc = "running")

RunsInv(p) ==
    \A i \in 1..Steps :
        /\ runs[p][i] <= 1 + restarts
        /\ plan[p] \in {"absent", "pending", "approved"} => runs[p][i] = 0
        /\ plan[p] = "executing" /\ ~Begun(p, i) => runs[p][i] <= restarts

OneInv ==
    /\ IInv
    /\ \A r \in Requests : DecisionInv(r)
    /\ ExecutorInv
    /\ \A p \in Plans : Resumable(p) /\ RunsInv(p)
=============================================================================
