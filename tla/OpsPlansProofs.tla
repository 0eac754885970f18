--------------------------- MODULE OpsPlansProofs ---------------------------
(***************************************************************************)
(* The safety properties of OpsPlans, for every set of sessions, plans,    *)
(* tasks and requests, and that it implements PlanLifecycle when the       *)
(* administrators' requests come one at a time.                            *)
(***************************************************************************)
EXTENDS OpsPlans, TLAPS

(* The records the model starts from have their types.                     *)
LEMMA InitialTypes ==
    /\ AbsentTask \in Task /\ AbsentTask.status = "absent" /\ AbsentTask.about = Nothing
    /\ IdleWorker \in Worker /\ IdleWorker.pc = "idle"
    /\ IdleRequest \in Request /\ IdleRequest.op = "none"
<1>1. AbsentTask \in Task
  BY DEF AbsentTask, Task
<1>2. IdleWorker \in Worker
  <2>1. 1 \in 1..Steps + 1
    BY OpsPlansAssumption
  <2> QED BY <2>1 DEF IdleWorker, Worker, WorkerPc, Lifecycle!PlanStatus, TaskStatus
<1>3. IdleRequest \in Request
  BY DEF IdleRequest, Request
<1> QED BY <1>1, <1>2, <1>3 DEF AbsentTask, IdleWorker, IdleRequest

(* The statuses a handler may end with.                                    *)
LEMMA StoppedType == Stopped \in TaskStatus
  BY DEF Stopped, TaskStatus

(* What a step keeps of a task, and of the plans.                          *)
TaskKept(t) ==
    tasks[t].status # "absent" => tasks'[t].about = tasks[t].about /\ tasks'[t].status # "absent"

PlansKept ==
    \A p \in Plans :
        /\ plan[p] # "absent" => plan'[p] # "absent" /\ origin'[p] = origin[p]
        /\ plan[p] \notin {"absent", "pending"} => plan'[p] \notin {"absent", "pending"}

(* A task that is only controlled, claimed or finished.                    *)
LEMMA TaskSame ==
    ASSUME NEW t \in Tasks, TaskInv(t), PlansKept, tasks'[t].about = tasks[t].about,
           tasks'[t].status # "absent" => tasks[t].status # "absent"
    PROVE  TaskInv(t)'
  BY DEF TaskInv, PlansKept

(* A request that is not served.                                           *)
LEMMA RequestSame ==
    ASSUME NEW r \in Requests, RequestInv(r), request'[r] = request[r], PlansKept
    PROVE  RequestInv(r)'
  BY DEF RequestInv, PlansKept

(* The worker stands still while its task keeps its subject.               *)
LEMMA WorkerSame ==
    ASSUME WorkerInv, worker' = worker, \A t \in Tasks : TaskKept(t), up' = up,
           up # "up" => request' = request
    PROVE  WorkerInv'
<1>1. worker.pc \notin {"idle", "dead"} => Subject' = Subject /\ tasks'[worker.task].status # "absent"
  BY DEF WorkerInv, Subject, TaskKept
<1> QED BY <1>1 DEF WorkerInv

(* No session becomes processing while the worker stands still.            *)
LEMMA HeldSame ==
    ASSUME NEW s \in Sessions, WorkerInv, HeldInv(s), worker' = worker,
           \A t \in Tasks : TaskKept(t), up' = up,
           session'[s] = "processing" => session[s] = "processing"
    PROVE  HeldInv(s)'
  BY DEF HeldInv, WorkerInv, Subject, TaskKept

(* The plan that keeps a session waiting still does.                       *)
LEMMA WaitSame ==
    ASSUME NEW s \in Sessions, WaitInv(s),
           session'[s] = "approval_required" => session[s] = "approval_required",
           session'[s] = "approval_required" => \A p \in Plans : Keeps(p, s) => Keeps(p, s)'
    PROVE  WaitInv(s)'
  BY DEF WaitInv
-----------------------------------------------------------------------------
(***************************************************************************)
(* A step that leaves the worker, the processing sessions and the          *)
(* subjects of the tasks alone.                                            *)
(***************************************************************************)
LEMMA BesideInv ==
    ASSUME IInv, TypeOK', worker' = worker, up = "up", up' = up,
           \A t \in Tasks : TaskKept(t) /\ TaskInv(t)', PlansKept,
           \A r \in Requests : RequestInv(r)',
           \A p \in Plans : plan'[p] # "absent" => origin'[p] \in Sessions,
           \A s \in Sessions : session'[s] = "processing" => session[s] = "processing",
           \A s \in Sessions : WaitInv(s)'
    PROVE  IInv'
<1>1. WorkerInv'
  BY WorkerSame DEF IInv
<1>2. \A s \in Sessions : HeldInv(s)'
  BY HeldSame DEF IInv
<1> QED BY <1>1, <1>2 DEF IInv

(* create_session                                                          *)
LEMMA CreateSessionStep ==
    ASSUME IInv, NEW s \in Sessions, create_session(s)
    PROVE  IInv'
<1>1. /\ UNCHANGED <<plan, origin, tasks, worker, request, runs, up, restarts>>
      /\ up = "up" /\ session' = [session EXCEPT ![s] = "active"]
      /\ session \in [Sessions -> SessionStatus]
  BY DEF create_session, Call, IInv, TypeOK
<1>2. TypeOK'
  BY <1>1, OpsPlansAssumption DEF create_session, Call, IInv, TypeOK, SessionStatus
<1>3. (\A t \in Tasks : TaskKept(t) /\ TaskInv(t)') /\ PlansKept
  BY <1>1, TaskSame DEF TaskKept, PlansKept, IInv
<1>4. \A r \in Requests : RequestInv(r)'
  BY <1>1, <1>3, RequestSame DEF IInv
<1>5. \A x \in Sessions : WaitInv(x)'
  <2> TAKE x \in Sessions
  <2>1. \A p \in Plans : Keeps(p, x) => Keeps(p, x)'
    BY <1>1 DEF Keeps
  <2> QED BY <1>1, <2>1, WaitSame DEF IInv
<1> QED BY <1>1, <1>2, <1>3, <1>4, <1>5, BesideInv DEF IInv

(***************************************************************************)
(* A step that reads for a request, or closes one without a write.         *)
(***************************************************************************)
LEMMA ReadInv ==
    ASSUME IInv, NEW r \in Requests, up = "up",
           request' \in [Requests -> Request],
           \A q \in Requests : q # r => request'[q] = request[q],
           RequestInv(r)',
           request'[r].op = "reject" =>
              (request'[r].release <=> session[origin[request'[r].about]] = "approval_required"),
           calls' \in 0..MaxCalls,
           UNCHANGED <<session, plan, origin, tasks, worker, runs, up, restarts>>
    PROVE  IInv'
<1>1. TypeOK'
  BY DEF IInv, TypeOK
<1>2. (\A t \in Tasks : TaskKept(t) /\ TaskInv(t)') /\ PlansKept
  BY TaskSame DEF TaskKept, PlansKept, IInv
<1>3. \A q \in Requests : RequestInv(q)'
  BY <1>2, RequestSame DEF IInv
<1>4. \A s \in Sessions : WaitInv(s)'
  <2> TAKE s \in Sessions
  <2>1. session[s] = "approval_required" => \A p \in Plans : Keeps(p, s) => Keeps(p, s)'
    BY DEF Keeps
  <2> QED BY <2>1, WaitSame DEF IInv
<1> QED BY <1>1, <1>2, <1>3, <1>4, BesideInv DEF IInv

(* An administrator's call is counted.                                     *)
LEMMA CallFacts ==
    ASSUME TypeOK, Call
    PROVE  up = "up" /\ calls' \in 0..MaxCalls
  BY OpsPlansAssumption DEF Call, TypeOK

(* A request that is opened.                                               *)
LEMMA OpenFacts ==
    ASSUME TypeOK, NEW r \in Requests, NEW op \in {"message", "approve", "reject", "clear"},
           NEW about \in Sessions \cup Plans \cup {Nothing},
           \E release \in BOOLEAN : Open(r, op, about, release)
    PROVE  /\ request' \in [Requests -> Request]
           /\ \A q \in Requests : q # r => request'[q] = request[q]
           /\ request'[r].op = op /\ request'[r].about = about
           /\ \A release \in BOOLEAN : Open(r, op, about, release) => request'[r].release = release
<1>1. PICK release \in BOOLEAN : Open(r, op, about, release)
  OBVIOUS
<1>2. [op |-> op, about |-> about, release |-> release] \in Request
  BY DEF Request
<1>3. request' = [request EXCEPT ![r] = [op |-> op, about |-> about, release |-> release]]
      /\ request \in [Requests -> Request]
  BY <1>1 DEF Open, TypeOK
<1>4. ASSUME NEW x \in BOOLEAN, Open(r, op, about, x) PROVE request'[r].release = x
  BY <1>3, <1>4 DEF Open
<1> QED BY <1>2, <1>3, <1>4

(* MessageRead, ApproveRead, RejectRead, ClearRead                         *)
LEMMA RequestReadStep ==
    ASSUME IInv, NEW r \in Requests,
           \/ \E s \in Sessions : MessageRead(r, s)
           \/ \E p \in Plans : ApproveRead(r, p) \/ RejectRead(r, p)
           \/ ClearRead(r)
    PROVE  IInv'
<1>1. /\ up = "up" /\ calls' \in 0..MaxCalls /\ TypeOK
      /\ UNCHANGED <<session, plan, origin, tasks, worker, runs, up, restarts>>
  <2>1. TypeOK /\ Call
    BY DEF MessageRead, ApproveRead, RejectRead, ClearRead, IInv
  <2>2. UNCHANGED <<session, plan, origin, tasks, worker, runs, up, restarts>>
    BY DEF MessageRead, ApproveRead, RejectRead, ClearRead
  <2> QED BY <2>1, <2>2, CallFacts
<1>2. ASSUME NEW s \in Sessions, MessageRead(r, s) PROVE IInv'
  <2>1. Open(r, "message", s, FALSE)
    BY <1>2 DEF MessageRead
  <2>2. /\ request' \in [Requests -> Request] /\ request'[r].op = "message"
        /\ \A q \in Requests : q # r => request'[q] = request[q]
        /\ request'[r].about = s
    BY <1>1, <2>1, OpenFacts
  <2>3. RequestInv(r)'
    BY <2>2 DEF RequestInv
  <2> QED BY <1>1, <2>2, <2>3, ReadInv
<1>3. ASSUME NEW p \in Plans, ApproveRead(r, p) PROVE IInv'
  <2>1. Open(r, "approve", p, FALSE) /\ plan[p] = "pending"
    BY <1>3 DEF ApproveRead, Undecided
  <2>2. /\ request' \in [Requests -> Request] /\ request'[r].op = "approve"
        /\ \A q \in Requests : q # r => request'[q] = request[q]
        /\ request'[r].about = p
    BY <1>1, <2>1, OpenFacts
  <2>3. RequestInv(r)'
    BY <1>1, <2>1, <2>2 DEF RequestInv
  <2> QED BY <1>1, <2>2, <2>3, ReadInv
<1>4. ASSUME NEW p \in Plans, RejectRead(r, p) PROVE IInv'
  <2>1. PICK b \in BOOLEAN : b = (session[origin[p]] = "approval_required")
    OBVIOUS
  <2>2. Open(r, "reject", p, b) /\ plan[p] = "pending"
    BY <1>4, <2>1 DEF RejectRead, Undecided
  <2>3. /\ request' \in [Requests -> Request] /\ request'[r].op = "reject"
        /\ \A q \in Requests : q # r => request'[q] = request[q]
        /\ request'[r].about = p /\ request'[r].release = b
    BY <1>1, <2>2, OpenFacts
  <2>4. RequestInv(r)'
    BY <1>1, <2>2, <2>3 DEF RequestInv
  <2> QED BY <1>1, <2>1, <2>3, <2>4, ReadInv
<1>5. CASE ClearRead(r)
  <2>1. Open(r, "clear", Nothing, FALSE)
    BY <1>5 DEF ClearRead
  <2>2. /\ request' \in [Requests -> Request] /\ request'[r].op = "clear"
        /\ \A q \in Requests : q # r => request'[q] = request[q]
    BY <1>1, <2>1, OpenFacts
  <2>3. RequestInv(r)'
    BY <2>2 DEF RequestInv
  <2> QED BY <1>1, <2>2, <2>3, ReadInv
<1> QED BY <1>2, <1>3, <1>4, <1>5

(* Close                                                                   *)
LEMMA CloseFacts ==
    ASSUME TypeOK, NEW r \in Requests, Close(r)
    PROVE  /\ request' \in [Requests -> Request] /\ request'[r].op = "none"
           /\ \A q \in Requests : q # r => request'[q] = request[q]
           /\ RequestInv(r)'
<1>1. request' = [request EXCEPT ![r] = IdleRequest] /\ request \in [Requests -> Request]
  BY DEF Close, TypeOK
<1>2. request'[r] = IdleRequest /\ request' \in [Requests -> Request]
      /\ \A q \in Requests : q # r => request'[q] = request[q]
  BY <1>1, InitialTypes
<1>3. request'[r].op = "none"
  BY <1>2, InitialTypes
<1> QED BY <1>2, <1>3 DEF RequestInv

(* CreateConflict                                                          *)
LEMMA CreateConflictStep ==
    ASSUME IInv, NEW r \in Requests, CreateConflict(r)
    PROVE  IInv'
<1>1. TypeOK /\ Close(r) /\ up = "up" /\ calls' \in 0..MaxCalls
      /\ UNCHANGED <<session, plan, origin, tasks, worker, runs, up, restarts>>
  BY DEF CreateConflict, IInv, TypeOK
<1> QED BY <1>1, CloseFacts, ReadInv
-----------------------------------------------------------------------------
(***************************************************************************)
(* create_task changes no status of a task that exists, and there is a     *)
(* live task for its subject afterwards.                                   *)
(***************************************************************************)
LEMMA CreateTaskFacts ==
    ASSUME TypeOK, NEW about \in Sessions \cup Plans, create_task(about)
    PROVE  /\ tasks' \in [Tasks -> Task]
           /\ \A t \in Tasks : \/ tasks'[t].about = tasks[t].about
                                  /\ tasks'[t].status = tasks[t].status
                               \/ tasks[t].status = "absent"
                                  /\ tasks'[t].about = about /\ tasks'[t].status = "queued"
           /\ \E t \in Tasks : tasks'[t].about = about
                               /\ tasks'[t].status \in {"queued", "running", "paused"}
<1>1. tasks \in [Tasks -> Task]
  BY DEF TypeOK
<1>2. CASE \E t \in Tasks : KeyHolder(t, about) /\ Live(t)
  <2>1. tasks' = tasks
    BY <1>2 DEF create_task
  <2>2. PICK t \in Tasks : KeyHolder(t, about) /\ Live(t)
    BY <1>2
  <2>3. tasks[t].about = about /\ tasks[t].status \in {"queued", "running", "paused"}
    BY <2>2 DEF KeyHolder, Live, TaskStatus, TERMINAL_STATES
  <2> QED BY <1>1, <2>1, <2>3
<1>3. CASE ~\E t \in Tasks : KeyHolder(t, about) /\ Live(t)
  <2> DEFINE new == [AbsentTask EXCEPT !.status = "queued", !.about = about, !.keyed = TRUE]
  <2>1. PICK t \in Tasks :
            /\ tasks[t].status = "absent"
            /\ tasks' = [u \in Tasks |->
                  IF u = t THEN new
                  ELSE IF KeyHolder(u, about) THEN [tasks[u] EXCEPT !.keyed = FALSE]
                  ELSE tasks[u]]
    BY <1>3 DEF create_task
  <2>2. new \in Task /\ new.status = "queued" /\ new.about = about
    BY InitialTypes DEF Task, TaskStatus
  <2>3. \A u \in Tasks : /\ [tasks[u] EXCEPT !.keyed = FALSE] \in Task
                         /\ [tasks[u] EXCEPT !.keyed = FALSE].status = tasks[u].status
                         /\ [tasks[u] EXCEPT !.keyed = FALSE].about = tasks[u].about
    BY <1>1 DEF Task
  <2> HIDE DEF new
  <2> QED BY <1>1, <2>1, <2>2, <2>3
<1> QED BY <1>2, <1>3

(* The new task's row satisfies its invariant.                             *)
LEMMA CreateTaskInv ==
    ASSUME IInv, PlansKept, NEW about \in Sessions \cup Plans, create_task(about),
           about \in Plans => plan'[about] \notin {"absent", "pending"}
    PROVE  tasks' \in [Tasks -> Task] /\ \A t \in Tasks : TaskKept(t) /\ TaskInv(t)'
<1>1. /\ tasks' \in [Tasks -> Task]
      /\ \A t \in Tasks : \/ tasks'[t].about = tasks[t].about
                             /\ tasks'[t].status = tasks[t].status
                          \/ tasks[t].status = "absent"
                             /\ tasks'[t].about = about /\ tasks'[t].status = "queued"
  BY CreateTaskFacts DEF IInv
<1>2. ASSUME NEW t \in Tasks PROVE TaskKept(t) /\ TaskInv(t)'
  <2>1. CASE tasks'[t].about = tasks[t].about /\ tasks'[t].status = tasks[t].status
    BY <2>1, TaskSame DEF TaskKept, IInv
  <2>2. CASE tasks[t].status = "absent" /\ tasks'[t].about = about
    BY <2>2 DEF TaskKept, TaskInv
  <2> QED BY <1>1, <2>1, <2>2
<1> QED BY <1>1, <1>2

(* MessageCommit                                                           *)
LEMMA MessageCommitStep ==
    ASSUME IInv, NEW r \in Requests, MessageCommit(r)
    PROVE  IInv'
<1>1. TypeOK /\ Close(r) /\ up = "up" /\ create_task(request[r].about)
      /\ UNCHANGED <<session, plan, origin, worker, runs, up, restarts, calls>>
  BY DEF MessageCommit, IInv
<1>2. PICK about \in Sessions : about = request[r].about
  BY DEF MessageCommit, IInv, RequestInv
<1>3. PlansKept
  BY <1>1 DEF PlansKept
<1>4. about \notin Plans
  BY OpsPlansAssumption
<1>5. tasks' \in [Tasks -> Task] /\ \A t \in Tasks : TaskKept(t) /\ TaskInv(t)'
  BY <1>1, <1>2, <1>3, <1>4, CreateTaskInv
<1>6. /\ request' \in [Requests -> Request] /\ request'[r].op = "none"
      /\ \A q \in Requests : q # r => request'[q] = request[q]
      /\ RequestInv(r)'
  BY <1>1, CloseFacts
<1>7. \A q \in Requests : RequestInv(q)'
  BY <1>3, <1>6, RequestSame DEF IInv
<1>8. TypeOK'
  BY <1>1, <1>5, <1>6 DEF TypeOK
<1>9. \A s \in Sessions : WaitInv(s)'
  <2> TAKE s \in Sessions
  <2>1. \A p \in Plans : Keeps(p, s) => Keeps(p, s)'
    BY <1>1, <1>6 DEF Keeps
  <2> QED BY <1>1, <2>1, WaitSame DEF IInv
<1> QED BY <1>1, <1>3, <1>5, <1>7, <1>8, <1>9, BesideInv DEF IInv

(* ApproveCommit                                                           *)
LEMMA ApproveCommitStep ==
    ASSUME IInv, NEW r \in Requests, ApproveCommit(r)
    PROVE  IInv'
<1>1. TypeOK /\ Close(r) /\ up = "up"
      /\ UNCHANGED <<session, origin, worker, runs, up, restarts, calls>>
  BY DEF ApproveCommit, IInv
<1>2. PICK p \in Plans : p = request[r].about /\ plan[p] # "absent"
  BY DEF ApproveCommit, IInv, RequestInv
<1>3. /\ request' \in [Requests -> Request] /\ request'[r].op = "none"
      /\ \A q \in Requests : q # r => request'[q] = request[q]
      /\ RequestInv(r)'
  BY <1>1, CloseFacts
<1>4. CASE plan[p] = "deleted"
  <2>1. plan' = plan /\ tasks' = tasks
    BY <1>2, <1>4 DEF ApproveCommit
  <2>2. calls' \in 0..MaxCalls
    BY <1>1 DEF TypeOK
  <2> QED BY <1>1, <1>3, <2>1, <2>2, ReadInv
<1>5. CASE plan[p] # "deleted"
  <2>1. plan' = [plan EXCEPT ![p] = "approved"] /\ create_task(p)
        /\ plan \in [Plans -> Lifecycle!PlanStatus]
    BY <1>1, <1>2, <1>5 DEF ApproveCommit, TypeOK
  <2>2. plan' \in [Plans -> Lifecycle!PlanStatus] /\ plan'[p] = "approved"
        /\ \A q \in Plans : q # p => plan'[q] = plan[q]
    BY <2>1 DEF Lifecycle!PlanStatus
  <2>3. PlansKept
    BY <1>1, <2>2 DEF PlansKept
  <2>4. tasks' \in [Tasks -> Task] /\ \A t \in Tasks : TaskKept(t) /\ TaskInv(t)'
    BY <2>1, <2>2, <2>3, CreateTaskInv
  <2>5. \A q \in Requests : RequestInv(q)'
    BY <1>3, <2>3, RequestSame DEF IInv
  <2>6. TypeOK'
    BY <1>1, <1>3, <2>2, <2>4 DEF TypeOK
  <2>7. \A s \in Sessions : WaitInv(s)'
    <3> TAKE s \in Sessions
    <3>1. \A q \in Plans : Keeps(q, s) => Keeps(q, s)'
      BY <1>1, <1>3, <2>2 DEF Keeps
    <3> QED BY <1>1, <3>1, WaitSame DEF IInv
  <2>8. \A q \in Plans : plan'[q] # "absent" => origin'[q] \in Sessions
    BY <1>1, <1>2, <2>2 DEF IInv
  <2> QED BY <1>1, <2>3, <2>4, <2>5, <2>6, <2>7, <2>8, BesideInv
<1> QED BY <1>4, <1>5

(***************************************************************************)
(* RejectCommit: the session that waited for the plan is released if the   *)
(* request saw it waiting, and another plan keeps it waiting if not.       *)
(***************************************************************************)
LEMMA RejectCommitStep ==
    ASSUME IInv, NEW r \in Requests, RejectCommit(r)
    PROVE  IInv'
<1>1. TypeOK /\ Close(r) /\ up = "up" /\ request[r].op = "reject"
      /\ UNCHANGED <<origin, tasks, worker, runs, up, restarts, calls>>
  BY DEF RejectCommit, IInv
<1>2. PICK p \in Plans : p = request[r].about /\ plan[p] # "absent"
  BY <1>1 DEF IInv, RequestInv
<1>3. /\ request' \in [Requests -> Request] /\ request'[r].op = "none"
      /\ \A q \in Requests : q # r => request'[q] = request[q]
      /\ RequestInv(r)'
  BY <1>1, CloseFacts
<1>4. CASE plan[p] = "deleted"
  <2>1. plan' = plan /\ session' = session
    BY <1>2, <1>4 DEF RejectCommit
  <2>2. calls' \in 0..MaxCalls
    BY <1>1 DEF TypeOK
  <2> QED BY <1>1, <1>3, <2>1, <2>2, ReadInv
<1>5. CASE plan[p] # "deleted"
  <2>1. /\ plan' = [plan EXCEPT ![p] = "rejected"]
        /\ session' = IF request[r].release THEN [session EXCEPT ![origin[p]] = "active"]
                                            ELSE session
        /\ plan \in [Plans -> Lifecycle!PlanStatus] /\ session \in [Sessions -> SessionStatus]
        /\ origin[p] \in Sessions
    BY <1>1, <1>2, <1>5 DEF RejectCommit, TypeOK, IInv
  <2>2. plan' \in [Plans -> Lifecycle!PlanStatus] /\ plan'[p] = "rejected"
        /\ \A q \in Plans : q # p => plan'[q] = plan[q]
    BY <2>1 DEF Lifecycle!PlanStatus
  <2>3. /\ session' \in [Sessions -> SessionStatus]
        /\ \A s \in Sessions : session'[s] \in {"active", session[s]}
        /\ request[r].release => session'[origin[p]] = "active"
    BY <2>1 DEF SessionStatus
  <2>4. PlansKept
    BY <1>1, <2>2 DEF PlansKept
  <2>5. \A t \in Tasks : TaskKept(t) /\ TaskInv(t)'
    BY <1>1, <2>4, TaskSame DEF TaskKept, IInv
  <2>6. \A q \in Requests : RequestInv(q)'
    BY <1>3, <2>4, RequestSame DEF IInv
  <2>7. TypeOK'
    BY <1>1, <1>3, <2>2, <2>3 DEF TypeOK
  <2>8. \A s \in Sessions : WaitInv(s)'
    <3> TAKE s \in Sessions
    <3>1. session'[s] = "approval_required" => ~Keeps(p, s)
      BY <1>1, <1>2, <2>3 DEF Keeps
    <3>2. \A q \in Plans : q # p => (Keeps(q, s) => Keeps(q, s)')
      BY <1>1, <1>3, <2>2 DEF Keeps
    <3> QED BY <2>3, <3>1, <3>2, WaitSame DEF IInv
  <2>9. \A q \in Plans : plan'[q] # "absent" => origin'[q] \in Sessions
    BY <1>1, <1>2, <2>2 DEF IInv
  <2> QED BY <1>1, <2>3, <2>4, <2>5, <2>6, <2>7, <2>8, <2>9, BesideInv
<1> QED BY <1>4, <1>5

(* ClearCommit                                                             *)
LEMMA ClearCommitStep ==
    ASSUME IInv, NEW r \in Requests, ClearCommit(r)
    PROVE  IInv'
<1>1. /\ TypeOK /\ Close(r) /\ up = "up"
      /\ session' = [s \in Sessions |-> Deleted(session[s])]
      /\ plan' = [p \in Plans |-> Deleted(plan[p])]
      /\ tasks' = [t \in Tasks |-> IF tasks[t].status = "failed"
                                 THEN [tasks[t] EXCEPT !.status = "deleted"] ELSE tasks[t]]
      /\ UNCHANGED <<origin, worker, runs, up, restarts, calls>>
  BY DEF ClearCommit, IInv
<1>2. /\ request' \in [Requests -> Request] /\ request'[r].op = "none"
      /\ \A q \in Requests : q # r => request'[q] = request[q]
      /\ RequestInv(r)'
  BY <1>1, CloseFacts
<1>3. /\ session' \in [Sessions -> SessionStatus]
      /\ \A s \in Sessions : session'[s] \in {"absent", "deleted"}
  BY <1>1 DEF Deleted, SessionStatus
<1>4. /\ plan' \in [Plans -> Lifecycle!PlanStatus]
      /\ \A p \in Plans : plan'[p] = IF plan[p] = "absent" THEN "absent" ELSE "deleted"
  BY <1>1 DEF Deleted, Lifecycle!PlanStatus
<1>5. \A t \in Tasks : /\ tasks'[t] \in Task /\ tasks'[t].about = tasks[t].about
                       /\ tasks'[t].status = "absent" <=> tasks[t].status = "absent"
  <2> TAKE t \in Tasks
  <2>1. tasks[t] \in Task
    BY <1>1 DEF TypeOK
  <2>2. CASE tasks[t].status = "failed"
    BY <1>1, <2>1, <2>2 DEF Task
  <2>3. CASE tasks[t].status # "failed"
    BY <1>1, <2>1, <2>3
  <2> QED BY <2>2, <2>3
<1>6. PlansKept
  BY <1>1, <1>4 DEF PlansKept
<1>7. tasks' \in [Tasks -> Task] /\ \A t \in Tasks : TaskKept(t) /\ TaskInv(t)'
  BY <1>1, <1>5, <1>6, TaskSame DEF TaskKept, IInv
<1>8. \A q \in Requests : RequestInv(q)'
  BY <1>2, <1>6, RequestSame DEF IInv
<1>9. TypeOK'
  BY <1>1, <1>2, <1>3, <1>4, <1>7 DEF TypeOK
<1>10. \A s \in Sessions : WaitInv(s)'
  BY <1>3 DEF WaitInv
<1>11. \A q \in Plans : plan'[q] # "absent" => origin'[q] \in Sessions
  BY <1>1, <1>4 DEF IInv
<1> QED BY <1>1, <1>3, <1>6, <1>7, <1>8, <1>9, <1>10, <1>11, BesideInv
-----------------------------------------------------------------------------
(* A task in one of these states can still run its handler.                *)
Usable == {"queued", "running", "paused", "cancelled"}

(***************************************************************************)
(* The control endpoints, the lane's claim and the engine's recovery keep  *)
(* the subject of a task and leave a usable task usable.                   *)
(***************************************************************************)
RowsKept ==
    /\ tasks' \in [Tasks -> Task]
    /\ \A t \in Tasks : /\ tasks'[t].about = tasks[t].about
                        /\ tasks'[t].status = "absent" <=> tasks[t].status = "absent"
                        /\ tasks[t].status \in Usable => tasks'[t].status \in Usable

(* One row written, to another usable status.                              *)
LEMMA RowWritten ==
    ASSUME TypeOK, NEW t \in Tasks,
           \E row \in Task : /\ tasks' = [tasks EXCEPT ![t] = row]
                             /\ row.about = tasks[t].about /\ row.status \in Usable,
           tasks[t].status # "absent"
    PROVE  RowsKept
  BY DEF TypeOK, RowsKept, Usable

(* ControlTask                                                             *)
LEMMA ControlFacts ==
    ASSUME TypeOK, NEW op \in Controls, NEW t \in Tasks, ControlTask(op, t)
    PROVE  RowsKept
<1>1. tasks[t] \in Task
  BY DEF TypeOK
<1>2. CASE /\ tasks[t].status \in {"queued", "running"}
           /\ tasks' = [tasks EXCEPT ![t] = pause(@)]
  <2>1. pause(tasks[t]) \in Task /\ pause(tasks[t]).about = tasks[t].about
        /\ pause(tasks[t]).status \in Usable
    BY <1>1, <1>2 DEF pause, Task, TaskStatus, Usable
  <2>2. tasks' = [tasks EXCEPT ![t] = pause(tasks[t])]
    BY <1>2 DEF TypeOK
  <2> QED BY <1>2, <2>1, <2>2, RowWritten
<1>3. CASE /\ tasks[t].status \in {"queued", "paused", "running"}
           /\ tasks' = [tasks EXCEPT ![t] = cancel(@)]
  <2>1. cancel(tasks[t]) \in Task /\ cancel(tasks[t]).about = tasks[t].about
        /\ cancel(tasks[t]).status \in Usable
    BY <1>1, <1>3 DEF cancel, Task, TaskStatus, Usable
  <2>2. tasks' = [tasks EXCEPT ![t] = cancel(tasks[t])]
    BY <1>3 DEF TypeOK
  <2> QED BY <1>3, <2>1, <2>2, RowWritten
<1>4. CASE /\ tasks[t].status \in TaskStatus
           /\ tasks' = [tasks EXCEPT ![t] = resume(@)]
  <2>1. resume(tasks[t]) \in Task /\ resume(tasks[t]).about = tasks[t].about
        /\ resume(tasks[t]).status \in Usable
    BY <1>1 DEF resume, Task, TaskStatus, Usable
  <2>2. tasks' = [tasks EXCEPT ![t] = resume(tasks[t])]
    BY <1>4 DEF TypeOK
  <2>3. tasks[t].status # "absent"
    BY <1>4 DEF TaskStatus
  <2> QED BY <2>1, <2>2, <2>3, RowWritten
<1> QED BY <1>2, <1>3, <1>4 DEF ControlTask

(* The pause, cancel and resume endpoints keep the invariant.              *)
LEMMA ControlTaskStep ==
    ASSUME IInv, NEW op \in Controls, NEW t \in Tasks, ControlTask(op, t)
    PROVE  IInv'
<1>1. /\ TypeOK /\ up = "up" /\ calls' \in 0..MaxCalls
      /\ UNCHANGED <<session, plan, origin, worker, request, runs, up, restarts>>
  BY CallFacts DEF ControlTask, IInv
<1>2. RowsKept
  BY <1>1, ControlFacts
<1>3. PlansKept
  BY <1>1 DEF PlansKept
<1>4. \A u \in Tasks : TaskKept(u) /\ TaskInv(u)'
  BY <1>2, <1>3, TaskSame DEF RowsKept, TaskKept, IInv
<1>5. TypeOK'
  BY <1>1, <1>2 DEF TypeOK, RowsKept
<1>6. \A q \in Requests : RequestInv(q)'
  BY <1>1, <1>3, RequestSame DEF IInv
<1>7. \A s \in Sessions : WaitInv(s)'
  BY <1>1 DEF IInv, WaitInv, Keeps
<1> QED BY <1>1, <1>3, <1>4, <1>5, <1>6, <1>7, BesideInv DEF IInv

(* ClaimTask                                                               *)
LEMMA ClaimFacts ==
    ASSUME TypeOK, NEW t \in Tasks, ClaimTask(t)
    PROVE  /\ RowsKept /\ worker' \in Worker /\ worker'.task = t /\ worker'.step = 1
           /\ worker'.pc = IF tasks[t].about \in Sessions THEN "responding" ELSE "reading"
<1> DEFINE pc == IF tasks[t].about \in Sessions THEN "responding" ELSE "reading"
<1>1. /\ tasks[t] \in Task /\ tasks[t].status = "queued"
      /\ tasks' = [tasks EXCEPT ![t] = [tasks[t] EXCEPT !.status = "running"]]
      /\ worker' = [IdleWorker EXCEPT !.task = t, !.pc = pc]
  BY DEF ClaimTask, TypeOK
<1>2. /\ [tasks[t] EXCEPT !.status = "running"] \in Task
      /\ [tasks[t] EXCEPT !.status = "running"].about = tasks[t].about
      /\ [tasks[t] EXCEPT !.status = "running"].status = "running"
  BY <1>1 DEF Task, TaskStatus
<1>3. RowsKept
  BY <1>1, <1>2, RowWritten DEF Usable
<1>4. pc \in WorkerPc
  BY DEF WorkerPc
<1> HIDE DEF pc
<1>5. worker' \in Worker /\ worker'.task = t /\ worker'.pc = pc
  BY <1>1, <1>4, InitialTypes DEF Worker
<1>6. worker'.step = 1
  BY <1>1 DEF IdleWorker
<1> QED BY <1>3, <1>5, <1>6 DEF pc

(* The lane's claim of a queued task keeps the invariant.                  *)
LEMMA ClaimTaskStep ==
    ASSUME IInv, NEW t \in Tasks, ClaimTask(t)
    PROVE  IInv'
<1>1. /\ TypeOK /\ up = "up" /\ worker.pc = "idle" /\ tasks[t].status = "queued"
      /\ UNCHANGED <<session, plan, origin, request, runs, up, restarts, calls>>
  BY DEF ClaimTask, At, IInv
<1>2. /\ RowsKept /\ worker' \in Worker /\ worker'.task = t
      /\ worker'.pc = IF tasks[t].about \in Sessions THEN "responding" ELSE "reading"
  BY <1>1, ClaimFacts
<1>3. PlansKept
  BY <1>1 DEF PlansKept
<1>4. \A u \in Tasks : TaskInv(u)'
  BY <1>2, <1>3, TaskSame DEF RowsKept, IInv
<1>5. TypeOK'
  BY <1>1, <1>2 DEF TypeOK, RowsKept
<1>6. \A q \in Requests : RequestInv(q)'
  BY <1>1, <1>3, RequestSame DEF IInv
<1>7. WorkerInv'
  <2>1. Subject' = tasks[t].about /\ tasks'[t].status # "absent"
    BY <1>1, <1>2 DEF RowsKept, Subject
  <2>2. tasks[t].about \in Sessions \cup Plans
    BY <1>1 DEF IInv, TaskInv
  <2> QED BY <1>1, <1>2, <2>1, <2>2 DEF WorkerInv
<1>8. \A s \in Sessions : HeldInv(s)'
  BY <1>1 DEF IInv, HeldInv
<1>9. \A s \in Sessions : WaitInv(s)'
  BY <1>1 DEF IInv, WaitInv, Keeps
<1> QED BY <1>1, <1>4, <1>5, <1>6, <1>7, <1>8, <1>9 DEF IInv

(* FinishTask                                                              *)
LEMMA FinishFacts ==
    ASSUME IInv, FinishTask
    PROVE  /\ tasks' \in [Tasks -> Task]
           /\ worker' \in Worker /\ worker'.pc \in {"idle", "dead"}
           /\ worker.task \in Tasks /\ tasks[worker.task].status # "absent"
           /\ \A t \in Tasks : /\ tasks'[t].about = tasks[t].about
                               /\ tasks'[t].status = "absent" <=> tasks[t].status = "absent"
                               /\ t # worker.task => tasks'[t].status = tasks[t].status
<1>1. /\ worker.task \in Tasks /\ tasks[worker.task].status # "absent"
      /\ tasks \in [Tasks -> Task] /\ worker.outcome \in TaskStatus
  BY DEF FinishTask, At, IInv, WorkerInv, TypeOK, Worker
<1>2. worker' \in Worker /\ worker'.pc \in {"idle", "dead"}
  <2>1. /\ [IdleWorker EXCEPT !.pc = "dead"] \in Worker
        /\ [IdleWorker EXCEPT !.pc = "dead"].pc = "dead"
    BY InitialTypes DEF Worker, WorkerPc
  <2>2. worker' = IdleWorker \/ worker' = [IdleWorker EXCEPT !.pc = "dead"]
    BY DEF FinishTask
  <2> QED BY <2>1, <2>2, InitialTypes
<1> DEFINE row == [tasks[worker.task] EXCEPT !.status = worker.outcome, !.control = "none"]
<1>3. tasks' = tasks \/ tasks' = [tasks EXCEPT ![worker.task] = row]
  BY DEF FinishTask
<1>4. row \in Task /\ row.about = tasks[worker.task].about /\ row.status = worker.outcome
  BY <1>1, ZenonT(60) DEF Task
<1>5. worker.outcome # "absent"
  BY <1>1 DEF TaskStatus
<1> HIDE DEF row
<1> QED BY <1>1, <1>2, <1>3, <1>4, <1>5

(* The commit of a handler's outcome keeps the invariant.                  *)
LEMMA FinishTaskStep ==
    ASSUME IInv, FinishTask
    PROVE  IInv'
<1>1. /\ TypeOK /\ up = "up" /\ worker.pc = "ending"
      /\ UNCHANGED <<session, plan, origin, request, runs, up, restarts, calls>>
  BY DEF FinishTask, At, IInv
<1>2. /\ tasks' \in [Tasks -> Task]
      /\ worker' \in Worker /\ worker'.pc \in {"idle", "dead"}
      /\ \A t \in Tasks : /\ tasks'[t].about = tasks[t].about
                          /\ tasks'[t].status = "absent" <=> tasks[t].status = "absent"
  BY FinishFacts
<1>3. PlansKept
  BY <1>1 DEF PlansKept
<1>4. \A u \in Tasks : TaskInv(u)'
  BY <1>2, <1>3, TaskSame DEF IInv
<1>5. TypeOK'
  BY <1>1, <1>2 DEF TypeOK
<1>6. \A q \in Requests : RequestInv(q)'
  BY <1>1, <1>3, RequestSame DEF IInv
<1>7. WorkerInv'
  BY <1>1, <1>2 DEF WorkerInv
<1>8. \A s \in Sessions : HeldInv(s)'
  BY <1>1 DEF IInv, HeldInv
<1>9. \A s \in Sessions : WaitInv(s)'
  BY <1>1 DEF IInv, WaitInv, Keeps
<1> QED BY <1>1, <1>4, <1>5, <1>6, <1>7, <1>8, <1>9 DEF IInv

(* ProcessEnds                                                             *)
LEMMA ProcessEndsStep ==
    ASSUME IInv, ProcessEnds
    PROVE  IInv'
<1>1. /\ TypeOK /\ up' = "down" /\ worker' = IdleWorker /\ restarts' = restarts + 1
      /\ restarts < MaxRestarts /\ request' = [r \in Requests |-> IdleRequest]
      /\ UNCHANGED <<session, plan, origin, tasks, runs, calls>>
  BY DEF ProcessEnds, IInv
<1>2. PlansKept
  BY <1>1 DEF PlansKept
<1>3. \A u \in Tasks : TaskInv(u)'
  BY <1>1, <1>2, TaskSame DEF IInv
<1>4. TypeOK'
  <2>1. restarts + 1 \in 0..MaxRestarts
    BY <1>1, OpsPlansAssumption DEF TypeOK
  <2>2. request' \in [Requests -> Request] /\ worker' \in Worker
    BY <1>1, InitialTypes
  <2> QED BY <1>1, <2>1, <2>2 DEF TypeOK
<1>5. \A r \in Requests : request'[r].op = "none" /\ RequestInv(r)'
  BY <1>1, InitialTypes DEF RequestInv
<1>6. WorkerInv'
  BY <1>1, InitialTypes DEF WorkerInv
<1>7. \A s \in Sessions : HeldInv(s)'
  BY <1>1 DEF HeldInv
<1>8. \A s \in Sessions : WaitInv(s)'
  BY <1>1, <1>5 DEF IInv, WaitInv, Keeps
<1> QED BY <1>1, <1>3, <1>4, <1>5, <1>6, <1>7, <1>8 DEF IInv

(* RecoverSessions                                                         *)
LEMMA RecoverSessionsStep ==
    ASSUME IInv, RecoverSessions
    PROVE  IInv'
<1>1. /\ TypeOK /\ up = "down" /\ up' = "starting"
      /\ session' = [s \in Sessions |-> recover_interrupted(session[s])]
      /\ UNCHANGED <<plan, origin, tasks, worker, request, runs, restarts, calls>>
  BY DEF RecoverSessions, IInv
<1>2. session' \in [Sessions -> SessionStatus]
      /\ \A s \in Sessions : /\ session'[s] # "processing"
                             /\ session'[s] = "approval_required" =>
                                   session[s] = "approval_required"
  BY <1>1 DEF TypeOK, recover_interrupted, SessionStatus
<1>3. PlansKept
  BY <1>1 DEF PlansKept
<1>4. \A u \in Tasks : TaskInv(u)'
  BY <1>1, <1>3, TaskSame DEF IInv
<1>5. TypeOK'
  BY <1>1, <1>2 DEF TypeOK
<1>6. \A r \in Requests : RequestInv(r)'
  BY <1>1, <1>3, RequestSame DEF IInv
<1>7. WorkerInv'
  BY <1>1, InitialTypes DEF IInv, WorkerInv
<1>8. \A s \in Sessions : HeldInv(s)'
  BY <1>2 DEF HeldInv
<1>9. \A s \in Sessions : WaitInv(s)'
  BY <1>1, <1>2 DEF IInv, WaitInv, Keeps
<1> QED BY <1>1, <1>4, <1>5, <1>6, <1>7, <1>8, <1>9 DEF IInv

(* Start                                                                   *)
LEMMA StartFacts ==
    ASSUME TypeOK, Start
    PROVE  RowsKept
<1>1. /\ tasks \in [Tasks -> Task]
      /\ tasks' = [t \in Tasks |-> IF tasks[t].status = "running" THEN resume(tasks[t])
                                                                   ELSE tasks[t]]
  BY DEF Start, TypeOK
<1>2. \A t \in Tasks : resume(tasks[t]) \in Task /\ resume(tasks[t]).about = tasks[t].about
                       /\ resume(tasks[t]).status = "queued"
  BY <1>1 DEF resume, Task, TaskStatus
<1> QED BY <1>1, <1>2 DEF RowsKept, Usable

(* Recovery at start-up, which requeues running tasks, keeps the           *)
(* invariant.                                                              *)
LEMMA StartStep ==
    ASSUME IInv, Start
    PROVE  IInv'
<1>1. /\ TypeOK /\ up = "starting" /\ up' = "up"
      /\ UNCHANGED <<session, plan, origin, worker, request, runs, restarts, calls>>
  BY DEF Start, IInv
<1>2. RowsKept
  BY <1>1, StartFacts
<1>3. PlansKept
  BY <1>1 DEF PlansKept
<1>4. \A u \in Tasks : TaskInv(u)'
  BY <1>2, <1>3, TaskSame DEF RowsKept, IInv
<1>5. TypeOK'
  BY <1>1, <1>2 DEF TypeOK, RowsKept
<1>6. \A r \in Requests : RequestInv(r)'
  BY <1>1, <1>3, RequestSame DEF IInv
<1>7. worker'.pc = "idle"
  BY <1>1, InitialTypes DEF IInv, WorkerInv
<1>8. WorkerInv'
  BY <1>1, <1>7 DEF WorkerInv
<1>9. \A s \in Sessions : HeldInv(s)'
  BY <1>1, <1>7 DEF IInv, HeldInv
<1>10. \A s \in Sessions : WaitInv(s)'
  BY <1>1 DEF IInv, WaitInv, Keeps
<1> QED BY <1>1, <1>4, <1>5, <1>6, <1>8, <1>9, <1>10 DEF IInv
-----------------------------------------------------------------------------
(* A step of a handler: the tasks and the requests stay as they are.       *)
LEMMA LaneInv ==
    ASSUME IInv, up = "up", UNCHANGED <<tasks, request, up, restarts, calls>>,
           worker.task \in Tasks, tasks[worker.task].status # "absent",
           worker' \in Worker, worker'.task = worker.task,
           worker'.pc \in {"responding", "thinking"} => Subject \in Sessions,
           worker'.pc \in {"reading", "claiming", "stepping", "running"} => Subject \in Plans,
           worker'.pc = "running" => worker'.step <= Steps,
           session' \in [Sessions -> SessionStatus],
           plan' \in [Plans -> Lifecycle!PlanStatus],
           origin' \in [Plans -> Sessions \cup {Nothing}],
           runs' \in [Plans -> [1..Steps -> Nat]],
           PlansKept, \A p \in Plans : plan'[p] # "absent" => origin'[p] \in Sessions,
           \A s \in Sessions : session'[s] = "processing" =>
              worker'.pc = "thinking" /\ Subject = s,
           \A s \in Sessions : WaitInv(s)'
    PROVE  IInv'
<1>1. TypeOK'
  BY DEF IInv, TypeOK
<1>2. Subject' = Subject
  BY DEF Subject
<1>3. \A t \in Tasks : TaskInv(t)'
  BY TaskSame DEF IInv
<1>4. \A r \in Requests : RequestInv(r)'
  BY RequestSame DEF IInv
<1>5. WorkerInv'
  BY <1>2 DEF WorkerInv
<1>6. \A s \in Sessions : HeldInv(s)'
  BY <1>2 DEF HeldInv
<1> QED BY <1>1, <1>3, <1>4, <1>5, <1>6 DEF IInv

(* The worker's moves keep its type and its task.                          *)
LEMMA EndFacts ==
    ASSUME worker \in Worker, \E outcome \in TaskStatus : EndWith(outcome)
    PROVE  worker' \in Worker /\ worker'.pc = "ending" /\ worker'.task = worker.task
  BY DEF EndWith, Worker, WorkerPc

(* A move to the next point of the handler changes nothing but that point. *)
LEMMA GotoFacts ==
    ASSUME worker \in Worker, NEW pc \in WorkerPc, Goto(pc)
    PROVE  /\ worker' \in Worker /\ worker'.pc = pc /\ worker'.task = worker.task
           /\ worker'.step = worker.step /\ worker'.loaded = worker.loaded
  BY DEF Goto, Worker

(* A handler's step that writes one session, not to wait for approval.     *)
LEMMA SessionWritten ==
    ASSUME IInv, UNCHANGED <<plan, origin, request>>,
           \/ session' = session
           \/ \E x \in SessionStatus \ {"approval_required"} :
                 session' = [session EXCEPT ![Subject] = x]
    PROVE  /\ session' \in [Sessions -> SessionStatus]
           /\ plan' \in [Plans -> Lifecycle!PlanStatus]
           /\ origin' \in [Plans -> Sessions \cup {Nothing}]
           /\ PlansKept
           /\ \A p \in Plans : plan'[p] # "absent" => origin'[p] \in Sessions
           /\ \A s \in Sessions : WaitInv(s)'
<1>1. /\ session' \in [Sessions -> SessionStatus]
      /\ \A s \in Sessions : session'[s] = "approval_required" =>
                               session[s] = "approval_required"
  BY DEF IInv, TypeOK
<1>2. /\ plan' \in [Plans -> Lifecycle!PlanStatus]
      /\ origin' \in [Plans -> Sessions \cup {Nothing}] /\ PlansKept
  BY DEF IInv, TypeOK, PlansKept
<1>3. \A p \in Plans : plan'[p] # "absent" => origin'[p] \in Sessions
  BY DEF IInv
<1>4. \A s \in Sessions : WaitInv(s)'
  BY <1>1 DEF IInv, WaitInv, Keeps
<1> QED BY <1>1, <1>2, <1>3, <1>4

(* RespondClaim                                                            *)
LEMMA RespondClaimStep ==
    ASSUME IInv, RespondClaim
    PROVE  IInv'
<1>1. /\ up = "up" /\ worker.pc = "responding" /\ worker \in Worker
      /\ worker.task \in Tasks /\ tasks[worker.task].status # "absent"
      /\ UNCHANGED <<tasks, request, up, restarts, calls>>
      /\ UNCHANGED <<plan, origin, request>> /\ runs' \in [Plans -> [1..Steps -> Nat]]
      /\ session \in [Sessions -> SessionStatus] /\ Subject \in Sessions
      /\ \A s \in Sessions : session[s] # "processing"
  BY DEF RespondClaim, At, IInv, TypeOK, WorkerInv, HeldInv
<1>2. CASE (EndWith(Stopped) \/ EndWith("failed")) /\ UNCHANGED session
  <2>1. worker' \in Worker /\ worker'.pc = "ending" /\ worker'.task = worker.task
    BY <1>1, <1>2, EndFacts, StoppedType DEF TaskStatus
  <2> QED BY <1>1, <1>2, <2>1, LaneInv, SessionWritten
<1>3. CASE session' = [session EXCEPT ![Subject] = "processing"] /\ Goto("thinking")
  <2>1. worker' \in Worker /\ worker'.pc = "thinking" /\ worker'.task = worker.task
    BY <1>1, <1>3, GotoFacts DEF WorkerPc
  <2>2. \A s \in Sessions : session'[s] = "processing" => Subject = s
    BY <1>1, <1>3
  <2>3. "processing" \in SessionStatus \ {"approval_required"}
    BY DEF SessionStatus
  <2> QED BY <1>1, <1>3, <2>1, <2>2, <2>3, LaneInv, SessionWritten
<1> QED BY <1>2, <1>3 DEF RespondClaim

(* RespondStops, RespondFindsNothing, RespondAnswers, RespondFails: the    *)
(* session stops processing, or was deleted.                               *)
LEMMA RespondEndStep ==
    ASSUME IInv, RespondStops \/ RespondFindsNothing \/ RespondAnswers \/ RespondFails
    PROVE  IInv'
<1>1. /\ up = "up" /\ worker.pc = "thinking" /\ worker \in Worker
      /\ worker.task \in Tasks /\ tasks[worker.task].status # "absent"
      /\ UNCHANGED <<tasks, request, up, restarts, calls>>
      /\ UNCHANGED <<plan, origin, request>> /\ runs' \in [Plans -> [1..Steps -> Nat]]
      /\ session \in [Sessions -> SessionStatus] /\ Subject \in Sessions
      /\ \A s \in Sessions : session[s] = "processing" => Subject = s
  <2>1. up = "up" /\ worker.pc = "thinking"
    BY DEF RespondStops, RespondFindsNothing, RespondAnswers, RespondFails, At
  <2>2. UNCHANGED <<tasks, request, up, restarts, calls, plan, origin, runs>>
    BY DEF RespondStops, RespondFindsNothing, RespondAnswers, RespondFails
  <2> QED BY <2>1, <2>2 DEF IInv, TypeOK, WorkerInv, HeldInv
<1>2. \E outcome \in TaskStatus : EndWith(outcome)
  BY StoppedType
     DEF RespondStops, RespondFindsNothing, RespondAnswers, RespondFails, TaskStatus
<1>3. worker' \in Worker /\ worker'.pc = "ending" /\ worker'.task = worker.task
  BY <1>1, <1>2, EndFacts
<1>4. \/ session' = session /\ session[Subject] = "deleted"
      \/ \E x \in {"active", "answered", "needs_input", "failed"} :
            session' = [session EXCEPT ![Subject] = x]
  BY DEF RespondStops, RespondFindsNothing, RespondAnswers, RespondFails
<1>5. \/ session' = session
      \/ \E x \in SessionStatus \ {"approval_required"} :
                 session' = [session EXCEPT ![Subject] = x]
  BY <1>4 DEF SessionStatus
<1>6. \A s \in Sessions : session'[s] # "processing"
  BY <1>1, <1>4
<1> QED BY <1>1, <1>3, <1>5, <1>6, LaneInv, SessionWritten

(* RespondPlans                                                            *)
LEMMA RespondPlansStep ==
    ASSUME IInv, NEW p \in Plans, RespondPlans(p)
    PROVE  IInv'
<1>1. /\ up = "up" /\ worker.pc = "thinking" /\ worker \in Worker /\ plan[p] = "absent"
      /\ worker.task \in Tasks /\ tasks[worker.task].status # "absent"
      /\ UNCHANGED <<tasks, request, up, restarts, calls>>
      /\ runs' \in [Plans -> [1..Steps -> Nat]]
      /\ session \in [Sessions -> SessionStatus] /\ Subject \in Sessions
      /\ plan \in [Plans -> Lifecycle!PlanStatus]
      /\ origin \in [Plans -> Sessions \cup {Nothing}]
      /\ \A s \in Sessions : session[s] = "processing" => Subject = s
      /\ plan' = [plan EXCEPT ![p] = "pending"] /\ origin' = [origin EXCEPT ![p] = Subject]
      /\ session' = [session EXCEPT ![Subject] = "approval_required"]
      /\ EndWith("succeeded")
  BY DEF RespondPlans, At, IInv, TypeOK, WorkerInv, HeldInv
<1>2. worker' \in Worker /\ worker'.pc = "ending" /\ worker'.task = worker.task
  BY <1>1, EndFacts DEF TaskStatus
<1>3. /\ session' \in [Sessions -> SessionStatus]
      /\ plan' \in [Plans -> Lifecycle!PlanStatus]
      /\ origin' \in [Plans -> Sessions \cup {Nothing}]
      /\ PlansKept
  BY <1>1 DEF SessionStatus, Lifecycle!PlanStatus, PlansKept
<1>4. \A q \in Plans : plan'[q] # "absent" => origin'[q] \in Sessions
  BY <1>1 DEF IInv
<1>5. \A s \in Sessions : session'[s] # "processing"
  BY <1>1
<1>6. \A s \in Sessions : WaitInv(s)'
  <2> TAKE s \in Sessions
  <2>1. CASE s = Subject
    <3>1. \A r \in Requests : ~(request[r].op = "reject" /\ request[r].about = p)
      BY <1>1 DEF IInv, RequestInv
    <3>2. Keeps(p, s)'
      BY <1>1, <2>1, <3>1 DEF Keeps
    <3> QED BY <3>2 DEF WaitInv
  <2>2. CASE s # Subject
    <3>1. session'[s] = session[s]
      BY <1>1, <2>2
    <3>2. \A q \in Plans : Keeps(q, s) => Keeps(q, s)'
      BY <1>1 DEF Keeps
    <3> QED BY <3>1, <3>2, WaitSame DEF IInv
  <2> QED BY <2>1, <2>2
<1> QED BY <1>1, <1>2, <1>3, <1>4, <1>5, <1>6, LaneInv
-----------------------------------------------------------------------------
(* While the executor works its plan was decided, and no session is being  *)
(* answered.                                                               *)
LEMMA ExecutorFacts ==
    ASSUME IInv, up = "up", worker.pc \in {"reading", "claiming", "stepping", "running"}
    PROVE  /\ worker \in Worker /\ worker.task \in Tasks
           /\ tasks[worker.task].status # "absent"
           /\ Subject \in Plans /\ plan[Subject] \notin {"absent", "pending"}
           /\ origin[Subject] \in Sessions
           /\ \A s \in Sessions : session[s] # "processing"
<1>1. worker \in Worker /\ worker.task \in Tasks /\ tasks[worker.task].status # "absent"
      /\ Subject \in Plans
  BY DEF IInv, TypeOK, WorkerInv
<1>2. plan[Subject] \notin {"absent", "pending"}
  BY <1>1 DEF IInv, TaskInv, Subject
<1>3. origin[Subject] \in Sessions
  BY <1>1, <1>2 DEF IInv
<1>4. \A s \in Sessions : session[s] # "processing"
  BY DEF IInv, HeldInv
<1> QED BY <1>1, <1>2, <1>3, <1>4

(* What a step of the executor may leave of the plans and the sessions.    *)
StoresKept ==
    /\ session' \in [Sessions -> SessionStatus]
    /\ plan' \in [Plans -> Lifecycle!PlanStatus]
    /\ origin' \in [Plans -> Sessions \cup {Nothing}]
    /\ PlansKept
    /\ \A p \in Plans : plan'[p] # "absent" => origin'[p] \in Sessions
    /\ \A s \in Sessions : session'[s] = "processing" => session[s] = "processing"
    /\ \A s \in Sessions : WaitInv(s)'

(* A step that writes neither a plan nor a session.                        *)
LEMMA StoresSame ==
    ASSUME IInv, UNCHANGED <<session, plan, origin, request>>
    PROVE  StoresKept
<1>1. PlansKept
  BY DEF PlansKept
<1>2. \A s \in Sessions : WaitInv(s)'
  BY DEF IInv, WaitInv, Keeps
<1> QED BY <1>1, <1>2 DEF StoresKept, IInv, TypeOK

(* A decided plan that becomes executing still keeps its session waiting.  *)
LEMMA PlanExecutes ==
    ASSUME IInv, NEW p \in Plans, plan[p] # "absent", UNCHANGED <<session, origin, request>>,
           plan' = [plan EXCEPT ![p] = "executing"]
    PROVE  StoresKept
<1>1. /\ plan' \in [Plans -> Lifecycle!PlanStatus] /\ plan'[p] = "executing"
      /\ \A q \in Plans : q # p => plan'[q] = plan[q]
  BY DEF IInv, TypeOK, Lifecycle!PlanStatus
<1>2. PlansKept
  BY <1>1 DEF PlansKept
<1>3. \A s \in Sessions : WaitInv(s)'
  <2> TAKE s \in Sessions
  <2>1. \A q \in Plans : Keeps(q, s) => Keeps(q, s)'
    BY <1>1 DEF Keeps
  <2> QED BY <2>1, WaitSame DEF IInv
<1>4. \A q \in Plans : plan'[q] # "absent" => origin'[q] \in Sessions
  BY <1>1 DEF IInv
<1> QED BY <1>1, <1>2, <1>3, <1>4 DEF StoresKept, IInv, TypeOK

(* _save_plan_result: a plan that ends releases its session.               *)
LEMMA SaveResult ==
    ASSUME IInv, NEW p \in Plans, plan[p] # "absent", UNCHANGED <<origin, request>>,
           NEW status \in {"executing", "completed", "failed"}, _save_plan_result(p, status)
    PROVE  StoresKept
<1>1. CASE plan[p] = "deleted"
  BY <1>1, StoresSame DEF _save_plan_result
<1>2. CASE plan[p] # "deleted" /\ status = "executing"
  BY <1>2, PlanExecutes DEF _save_plan_result
<1>3. CASE plan[p] # "deleted" /\ status # "executing"
  <2>1. /\ plan' = [plan EXCEPT ![p] = status]
        /\ session' = IF session[origin[p]] = "deleted" THEN session
                       ELSE [session EXCEPT ![origin[p]] =
                                IF status = "completed" THEN "active" ELSE "failed"]
        /\ plan \in [Plans -> Lifecycle!PlanStatus] /\ session \in [Sessions -> SessionStatus]
        /\ origin[p] \in Sessions
    BY <1>3 DEF _save_plan_result, IInv, TypeOK
  <2>2. /\ plan' \in [Plans -> Lifecycle!PlanStatus] /\ plan'[p] = status
        /\ \A q \in Plans : q # p => plan'[q] = plan[q]
    BY <2>1 DEF Lifecycle!PlanStatus
  <2>3. /\ session' \in [Sessions -> SessionStatus]
        /\ session'[origin[p]] \in {"deleted", "active", "failed"}
        /\ \A s \in Sessions : s # origin[p] => session'[s] = session[s]
    BY <2>1 DEF SessionStatus
  <2>4. PlansKept
    BY <2>2 DEF PlansKept
  <2>5. \A s \in Sessions : WaitInv(s)'
    <3> TAKE s \in Sessions
    <3>1. CASE s = origin[p]
      BY <2>3, <3>1 DEF WaitInv
    <3>2. CASE s # origin[p]
      <4>1. \A q \in Plans : Keeps(q, s) => Keeps(q, s)'
        BY <2>2, <3>2 DEF Keeps
      <4> QED BY <2>3, <3>2, <4>1, WaitSame DEF IInv
    <3> QED BY <3>1, <3>2
  <2>6. \A q \in Plans : plan'[q] # "absent" => origin'[q] \in Sessions
    BY <2>2 DEF IInv
  <2>7. \A s \in Sessions : session'[s] = "processing" => session[s] = "processing"
    BY <2>3
  <2> QED BY <2>2, <2>3, <2>4, <2>5, <2>6, <2>7 DEF StoresKept, IInv, TypeOK
<1> QED BY <1>1, <1>2, <1>3

(* A step of the executor, from what it leaves in the worker and the rows. *)
LEMMA ExecutorInvStep ==
    ASSUME IInv, up = "up", worker.pc \in {"reading", "claiming", "stepping", "running"},
           UNCHANGED <<tasks, request, up, restarts, calls>>, StoresKept,
           runs' \in [Plans -> [1..Steps -> Nat]],
           worker' \in Worker, worker'.task = worker.task,
           worker'.pc \in {"claiming", "stepping", "running", "ending"},
           worker'.pc = "running" => worker'.step <= Steps
    PROVE  IInv'
<1>1. /\ worker.task \in Tasks /\ tasks[worker.task].status # "absent" /\ Subject \in Plans
      /\ \A s \in Sessions : session[s] # "processing"
  BY ExecutorFacts
<1> QED BY <1>1, LaneInv DEF StoresKept

(* ExecuteRead                                                             *)
LEMMA ExecuteReadStep ==
    ASSUME IInv, ExecuteRead
    PROVE  IInv'
<1>1. /\ up = "up" /\ worker.pc = "reading" /\ worker \in Worker /\ Subject \in Plans
      /\ UNCHANGED <<session, plan, origin, tasks, request, runs, up, restarts, calls>>
      /\ plan[Subject] \in Lifecycle!PlanStatus /\ runs' \in [Plans -> [1..Steps -> Nat]]
  BY DEF ExecuteRead, At, IInv, WorkerInv, TypeOK
<1>2. /\ worker' \in Worker /\ worker'.task = worker.task
      /\ worker'.pc \in {"claiming", "ending"}
  BY <1>1 DEF ExecuteRead, EndWith, Worker, WorkerPc, TaskStatus
<1>3. StoresKept
  BY <1>1, StoresSame
<1> QED BY <1>1, <1>2, <1>3, ExecutorInvStep

(* ExecuteClaim                                                            *)
LEMMA ExecuteClaimStep ==
    ASSUME IInv, ExecuteClaim
    PROVE  IInv'
<1>1. /\ up = "up" /\ worker.pc = "claiming" /\ worker \in Worker
      /\ UNCHANGED <<session, origin, tasks, request, runs, up, restarts, calls>>
      /\ runs' \in [Plans -> [1..Steps -> Nat]]
      /\ plan \in [Plans -> Lifecycle!PlanStatus]
  BY DEF ExecuteClaim, At, IInv, TypeOK
<1>2. Subject \in Plans /\ plan[Subject] # "absent"
  BY <1>1, ExecutorFacts
<1>3. /\ worker' \in Worker /\ worker'.task = worker.task
      /\ worker'.pc \in {"stepping", "ending"}
  BY <1>1, EndFacts, GotoFacts DEF ExecuteClaim, WorkerPc, TaskStatus
<1>4. plan' = plan \/ plan' = [plan EXCEPT ![Subject] = "executing"]
  BY <1>1, <1>2 DEF ExecuteClaim, Column
<1>5. PICK p \in Plans : p = Subject
  BY <1>2
<1>6. StoresKept
  BY <1>1, <1>2, <1>4, <1>5, StoresSame, PlanExecutes
<1> QED BY <1>1, <1>3, <1>6, ExecutorInvStep

(* StepFails, StepControlled, PlanCompletes: the plan concludes.           *)
LEMMA ConcludeStep ==
    ASSUME IInv, StepFails \/ StepControlled \/ PlanCompletes
    PROVE  IInv'
<1>1. /\ up = "up" /\ worker.pc \in {"stepping", "running"}
      /\ UNCHANGED <<origin, tasks, request, runs, up, restarts, calls>>
  BY DEF StepFails, StepControlled, PlanCompletes, At
<1>2. \E outcome \in TaskStatus : EndWith(outcome)
  BY StoppedType DEF StepFails, StepControlled, PlanCompletes, TaskStatus
<1>3. Subject \in Plans /\ plan[Subject] # "absent" /\ worker \in Worker
  BY <1>1, ExecutorFacts
<1>4. worker' \in Worker /\ worker'.pc = "ending" /\ worker'.task = worker.task
  BY <1>2, <1>3, EndFacts
<1>5. PICK p \in Plans : p = Subject /\ plan[p] # "absent"
  BY <1>3
<1>6. _save_plan_result(p, "failed") \/ _save_plan_result(p, "completed")
  BY <1>5 DEF StepFails, StepControlled, PlanCompletes
<1>7. StoresKept
  BY <1>1, <1>5, <1>6, SaveResult
<1>8. runs' \in [Plans -> [1..Steps -> Nat]]
  BY <1>1 DEF IInv, TypeOK
<1> QED BY <1>1, <1>4, <1>7, <1>8, ExecutorInvStep

(* StepBegins starts one step and counts it.                               *)
LEMMA BeginFacts ==
    ASSUME IInv, StepBegins
    PROVE  /\ runs' \in [Plans -> [1..Steps -> Nat]]
           /\ worker.step \in 1..Steps
           /\ \A q \in Plans : q # Subject => runs'[q] = runs[q]
           /\ \A i \in 1..Steps : i # worker.step => runs'[Subject][i] = runs[Subject][i]
           /\ plan[Subject] = "deleted" => runs' = runs
           /\ plan[Subject] # "deleted" =>
                 runs'[Subject][worker.step] = runs[Subject][worker.step] + 1
<1>1. /\ up = "up" /\ worker.pc = "stepping" /\ worker.step <= Steps
      /\ runs \in [Plans -> [1..Steps -> Nat]]
      /\ runs' = runs \/ runs' = [runs EXCEPT ![Subject][worker.step] = @ + 1]
      /\ plan[Subject] = "deleted" => runs' = runs
      /\ plan[Subject] # "deleted" => runs' = [runs EXCEPT ![Subject][worker.step] = @ + 1]
  BY DEF StepBegins, At, IInv, TypeOK
<1>2. Subject \in Plans /\ worker \in Worker
  BY <1>1, ExecutorFacts
<1>3. worker.step \in 1..Steps
  BY <1>1, <1>2, OpsPlansAssumption DEF Worker
<1>4. PICK p \in Plans : p = Subject
  BY <1>2
<1>5. PICK i \in 1..Steps : i = worker.step
  BY <1>3
<1> DEFINE row == [runs[p] EXCEPT ![i] = runs[p][i] + 1]
<1>6. row \in [1..Steps -> Nat] /\ row[i] = runs[p][i] + 1
      /\ \A j \in 1..Steps : j # i => row[j] = runs[p][j]
  <2>1. runs[p] \in [1..Steps -> Nat]
    BY <1>1
  <2>2. runs[p][i] \in Nat
    BY <2>1
  <2>3. PICK n \in Nat : n = runs[p][i] + 1
    BY <2>2
  <2>4. row = [runs[p] EXCEPT ![i] = n]
    BY <2>3
  <2> HIDE DEF row
  <2> QED BY <2>1, <2>3, <2>4
<1>7. /\ runs' = runs \/ runs' = [runs EXCEPT ![p] = row]
      /\ plan[p] # "deleted" => runs' = [runs EXCEPT ![p] = row]
  BY <1>1, <1>4, <1>5
<1> HIDE DEF row
<1>8. /\ runs' \in [Plans -> [1..Steps -> Nat]]
      /\ \A q \in Plans : q # p => runs'[q] = runs[q]
      /\ \A j \in 1..Steps : j # i => runs'[p][j] = runs[p][j]
      /\ plan[p] # "deleted" => runs'[p][i] = runs[p][i] + 1
  BY <1>1, <1>6, <1>7
<1> QED BY <1>1, <1>3, <1>4, <1>5, <1>8

(* StepBegins                                                              *)
LEMMA StepBeginsStep ==
    ASSUME IInv, StepBegins
    PROVE  IInv'
<1>1. /\ up = "up" /\ worker.pc = "stepping" /\ worker \in Worker
      /\ UNCHANGED <<session, plan, origin, tasks, request, up, restarts, calls>>
      /\ worker.step <= Steps
  BY DEF StepBegins, At, IInv, TypeOK
<1>2. /\ worker' \in Worker /\ worker'.task = worker.task
      /\ \/ worker'.pc = "ending"
         \/ worker'.pc = "running" /\ worker'.step = worker.step
  BY <1>1, EndFacts, GotoFacts DEF StepBegins, WorkerPc, TaskStatus
<1>3. runs' \in [Plans -> [1..Steps -> Nat]]
  BY BeginFacts
<1>4. StoresKept
  BY <1>1, StoresSame
<1> QED BY <1>1, <1>2, <1>3, <1>4, ExecutorInvStep

(* StepEnds moves the worker to the next step.                             *)
LEMMA StepEndFacts ==
    ASSUME IInv, StepEnds
    PROVE  /\ up = "up" /\ worker.pc \in {"stepping", "running"} /\ worker.step \in 1..Steps
           /\ worker' \in Worker /\ worker'.task = worker.task /\ worker'.pc = "stepping"
           /\ worker'.step = worker.step + 1
           /\ UNCHANGED <<origin, tasks, request, runs, up, restarts, calls>>
<1>1. /\ up = "up" /\ worker.pc \in {"stepping", "running"} /\ worker \in Worker
      /\ worker.step <= Steps
      /\ worker' = [worker EXCEPT !.pc = "stepping", !.step = worker.step + 1]
      /\ UNCHANGED <<origin, tasks, request, runs, up, restarts, calls>>
  <2>1. worker' = [worker EXCEPT !.pc = "stepping", !.step = @ + 1] /\ worker \in Worker
    BY DEF StepEnds, IInv, TypeOK
  <2>2. up = "up" /\ worker.pc \in {"stepping", "running"} /\ worker.step <= Steps
    BY DEF StepEnds, At, IInv, WorkerInv
  <2>3. UNCHANGED <<origin, tasks, request, runs, up, restarts, calls>>
    BY DEF StepEnds
  <2> QED BY <2>1, <2>2, <2>3 DEF Worker
<1>2. worker.step \in 1..Steps /\ worker.step + 1 \in 1..Steps + 1
  BY <1>1, OpsPlansAssumption DEF Worker
<1>3. PICK k \in 1..Steps + 1 : k = worker.step + 1
  BY <1>2
<1>4. worker' = [worker EXCEPT !.pc = "stepping", !.step = k]
  BY <1>1, <1>3
<1>5. worker' \in Worker /\ worker'.task = worker.task /\ worker'.pc = "stepping"
      /\ worker'.step = k
  BY <1>1, <1>4 DEF Worker, WorkerPc
<1> QED BY <1>1, <1>2, <1>3, <1>5

(* StepEnds                                                                *)
LEMMA StepEndsStep ==
    ASSUME IInv, StepEnds
    PROVE  IInv'
<1>1. /\ up = "up" /\ worker.pc \in {"stepping", "running"}
      /\ worker' \in Worker /\ worker'.task = worker.task /\ worker'.pc = "stepping"
      /\ UNCHANGED <<origin, tasks, request, runs, up, restarts, calls>>
  BY StepEndFacts
<1>2. Subject \in Plans /\ plan[Subject] # "absent"
  BY <1>1, ExecutorFacts
<1>3. PICK p \in Plans : p = Subject /\ plan[p] # "absent"
  BY <1>2
<1>4. _save_plan_result(p, "executing")
  BY <1>3 DEF StepEnds
<1>5. StoresKept
  BY <1>1, <1>3, <1>4, SaveResult
<1>6. runs' \in [Plans -> [1..Steps -> Nat]]
  BY <1>1 DEF IInv, TypeOK
<1> QED BY <1>1, <1>5, <1>6, ExecutorInvStep
-----------------------------------------------------------------------------
(* The initial states.                                                     *)
LEMMA InitInv == Init => IInv
<1> SUFFICES ASSUME Init PROVE IInv
  OBVIOUS
<1>1. TypeOK
  BY InitialTypes, OpsPlansAssumption DEF Init, TypeOK, SessionStatus, Lifecycle!PlanStatus
<1>2. \A t \in Tasks : TaskInv(t)
  <2>1. Nothing \notin Plans
    BY OpsPlansAssumption
  <2> QED BY <2>1, InitialTypes DEF Init, TaskInv
<1>3. \A r \in Requests : RequestInv(r)
  BY InitialTypes DEF Init, RequestInv
<1>4. WorkerInv
  BY InitialTypes DEF Init, WorkerInv
<1>5. \A s \in Sessions : HeldInv(s) /\ WaitInv(s)
  BY DEF Init, HeldInv, WaitInv
<1>6. \A p \in Plans : plan[p] = "absent"
  BY DEF Init
<1> QED BY <1>1, <1>2, <1>3, <1>4, <1>5, <1>6 DEF IInv

(* Every step keeps the invariant.                                         *)
LEMMA Inductive == IInv /\ [Next]_vars => IInv'
<1> SUFFICES ASSUME IInv, [Next]_vars PROVE IInv'
  OBVIOUS
<1>1. CASE \E s \in Sessions : create_session(s)
  BY <1>1, CreateSessionStep
<1>2. ASSUME NEW r \in Requests, RequestStep(r) PROVE IInv'
  BY <1>2, RequestReadStep, MessageCommitStep, ApproveCommitStep, CreateConflictStep,
     RejectCommitStep, ClearCommitStep DEF RequestStep
<1>3. CASE \E op \in Controls, t \in Tasks : ControlTask(op, t)
  BY <1>3, ControlTaskStep
<1>4. CASE WorkerStep
  <2>1. CASE \E t \in Tasks : ClaimTask(t)
    BY <2>1, ClaimTaskStep
  <2>2. CASE RespondStep
    BY <2>2, RespondClaimStep, RespondEndStep, RespondPlansStep DEF RespondStep
  <2>3. CASE ExecuteStep
    BY <2>3, ExecuteReadStep, ExecuteClaimStep, ConcludeStep, StepBeginsStep, StepEndsStep
       DEF ExecuteStep
  <2>4. CASE FinishTask
    BY <2>4, FinishTaskStep
  <2> QED BY <1>4, <2>1, <2>2, <2>3, <2>4 DEF WorkerStep
<1>5. CASE ProcessEnds
  BY <1>5, ProcessEndsStep
<1>6. CASE RecoverSessions
  BY <1>6, RecoverSessionsStep
<1>7. CASE Start
  BY <1>7, StartStep
<1>8. CASE UNCHANGED vars
  BY <1>8 DEF vars, IInv, TypeOK, TaskInv, RequestInv, WorkerInv, HeldInv, WaitInv, Keeps,
     Subject
<1> QED BY <1>1, <1>2, <1>3, <1>4, <1>5, <1>6, <1>7, <1>8 DEF Next

(***************************************************************************)
(* The rows and threads of AI operations satisfy the inductive invariant,  *)
(* TypeOK among its parts.                                                 *)
(***************************************************************************)
THEOREM Invariance == Spec => []IInv
  BY InitInv, Inductive, PTL DEF Spec

(***************************************************************************)
(* For any number of concurrent requests, restarts and control calls: a    *)
(* session says processing only while the worker is answering it.          *)
(***************************************************************************)
THEOREM ProcessingSessionsAreHeld == Spec => []ProcessingIsHeld
<1>1. IInv => ProcessingIsHeld
  BY DEF IInv, HeldInv, ProcessingIsHeld
<1> QED BY <1>1, Invariance, PTL

(***************************************************************************)
(* For any number of concurrent requests: a session waits for approval     *)
(* only while one of its plans can still be decided or is carried out.     *)
(***************************************************************************)
THEOREM ApprovalsAreDecidable == Spec => []ApprovalIsDecidable
<1>1. IInv => ApprovalIsDecidable
  BY DEF IInv, WaitInv, Keeps, ApprovalIsDecidable
<1> QED BY <1>1, Invariance, PTL
-----------------------------------------------------------------------------
(***************************************************************************)
(* One request at a time: every step keeps OneInv and is a step of         *)
(* PlanLifecycle, or leaves the plans alone.                               *)
(***************************************************************************)
PlansQuiet ==
    \A p \in Plans : /\ plan[p] = "pending" => plan'[p] = "pending"
                     /\ plan[p] \notin Unfinished => plan'[p] \notin Unfinished

UsableKept ==
    \A t \in Tasks : tasks[t].status \in Usable =>
        tasks'[t].status \in Usable /\ tasks'[t].about = tasks[t].about

(* A request that is not served keeps what it read.                        *)
LEMMA DecisionSame ==
    ASSUME NEW r \in Requests, DecisionInv(r), RequestInv(r), request'[r] = request[r],
           PlansQuiet
    PROVE  DecisionInv(r)'
  BY DEF DecisionInv, RequestInv, PlansQuiet

(* The executor stands still and nobody writes its plan.                   *)
LEMMA ExecutorSame ==
    ASSUME WorkerInv, ExecutorInv, worker' = worker, \A t \in Tasks : TaskKept(t),
           worker.pc \in {"claiming", "stepping", "running", "ending"} /\ Subject \in Plans =>
              plan'[Subject] = plan[Subject]
    PROVE  ExecutorInv' /\ \A p \in Plans, i \in 1..Steps : Begun(p, i) => Begun(p, i)'
<1>1. worker.pc \notin {"idle", "dead"} => Subject' = Subject
  BY DEF WorkerInv, Subject, TaskKept
<1>2. ExecutorInv'
  BY <1>1 DEF WorkerInv, ExecutorInv
<1>3. \A p \in Plans, i \in 1..Steps : Begun(p, i) => Begun(p, i)'
  BY <1>1 DEF Begun
<1> QED BY <1>2, <1>3

(* A plan whose tasks stay usable is still resumable.                      *)
LEMMA ResumableSame ==
    ASSUME NEW p \in Plans, Resumable(p), UsableKept,
           plan'[p] \in Unfinished => plan[p] \in Unfinished
    PROVE  Resumable(p)'
  BY DEF Resumable, UsableKept, Usable

(* A plan whose steps are not started.                                     *)
LEMMA RunsSame ==
    ASSUME NEW p \in Plans, RunsInv(p), plan'[p] = plan[p], runs'[p] = runs[p],
           restarts' = restarts, \A i \in 1..Steps : Begun(p, i) => Begun(p, i)'
    PROVE  RunsInv(p)'
  BY DEF RunsInv

(* A step beside the worker that writes no plan.                           *)
LEMMA OneBeside ==
    ASSUME OneInv, IInv', UNCHANGED <<plan, runs, worker, restarts>>,
           \A t \in Tasks : TaskKept(t), UsableKept, \A r \in Requests : DecisionInv(r)'
    PROVE  OneInv'
<1>1. ExecutorInv' /\ \A p \in Plans, i \in 1..Steps : Begun(p, i) => Begun(p, i)'
  BY ExecutorSame DEF OneInv, IInv
<1>2. \A p \in Plans : Resumable(p)' /\ RunsInv(p)'
  BY <1>1, ResumableSame, RunsSame DEF OneInv
<1> QED BY <1>1, <1>2 DEF OneInv

(* A step of the worker outside the executor's loop that writes no plan.   *)
LEMMA OneWorks ==
    ASSUME OneInv, IInv', UNCHANGED <<plan, runs, request, restarts>>, UsableKept,
           worker.pc \notin {"stepping", "running"}, ExecutorInv'
    PROVE  OneInv'
<1>1. PlansQuiet
  BY DEF PlansQuiet
<1>2. \A r \in Requests : DecisionInv(r)'
  BY <1>1, DecisionSame DEF OneInv, IInv
<1>3. \A p \in Plans, i \in 1..Steps : ~Begun(p, i)
  BY DEF Begun
<1>4. \A p \in Plans : Resumable(p)' /\ RunsInv(p)'
  BY <1>3, ResumableSame, RunsSame DEF OneInv
<1> QED BY <1>2, <1>4 DEF OneInv

(* MessageRead, ApproveRead, RejectRead, ClearRead                         *)
LEMMA OneReads ==
    ASSUME OneAtATime, OneInv, IInv', NEW r \in Requests,
           \/ \E s \in Sessions : MessageRead(r, s)
           \/ \E p \in Plans : ApproveRead(r, p) \/ RejectRead(r, p)
           \/ ClearRead(r)
    PROVE  OneInv' /\ plan' = plan
<1>1. UNCHANGED <<session, plan, origin, tasks, worker, runs, up, restarts>>
  BY DEF MessageRead, ApproveRead, RejectRead, ClearRead
<1>2. TypeOK
  BY DEF OneInv, IInv
<1>3. DecisionInv(r)'
  <2>1. ASSUME NEW s \in Sessions, MessageRead(r, s) PROVE DecisionInv(r)'
    <3>1. request'[r].op = "message"
      BY <1>2, <2>1, OpenFacts DEF MessageRead
    <3> QED BY <3>1 DEF DecisionInv
  <2>2. ASSUME NEW p \in Plans, ApproveRead(r, p) PROVE DecisionInv(r)'
    <3>1. request'[r].op = "approve" /\ request'[r].about = p /\ plan[p] = "pending"
      BY <1>2, <2>2, OpenFacts DEF ApproveRead, Undecided
    <3> QED BY <1>1, <3>1 DEF DecisionInv
  <2>3. ASSUME NEW p \in Plans, RejectRead(r, p) PROVE DecisionInv(r)'
    <3>1. PICK b \in BOOLEAN : b = (session[origin[p]] = "approval_required")
      OBVIOUS
    <3>2. Open(r, "reject", p, b) /\ plan[p] = "pending"
      BY <2>3, <3>1 DEF RejectRead, Undecided
    <3>3. request'[r].op = "reject" /\ request'[r].about = p
      BY <1>2, <3>2, OpenFacts
    <3> QED BY <1>1, <3>2, <3>3 DEF DecisionInv
  <2>4. CASE ClearRead(r)
    <3>1. request'[r].op = "clear"
      BY <1>2, <2>4, OpenFacts DEF ClearRead
    <3>2. \A p \in Plans : plan[p] \notin Unfinished
      BY <2>4 DEF ClearRead, Unfinished
    <3> QED BY <1>1, <3>1, <3>2 DEF DecisionInv
  <2> QED BY <2>1, <2>2, <2>3, <2>4
<1>4. \A q \in Requests : DecisionInv(q)'
  BY <1>3 DEF OneAtATime
<1>5. (\A t \in Tasks : TaskKept(t)) /\ UsableKept
  BY <1>1 DEF TaskKept, UsableKept
<1> QED BY <1>1, <1>4, <1>5, OneBeside

(* Once its request is closed nothing is decided.                          *)
LEMMA OneCloses ==
    ASSUME OneAtATime, TypeOK, NEW r \in Requests, Close(r)
    PROVE  \A q \in Requests : DecisionInv(q)'
<1>1. request'[r].op = "none"
  BY CloseFacts
<1> QED BY <1>1 DEF OneAtATime, DecisionInv

(* MessageCommit, CreateConflict                                           *)
LEMMA OneMessage ==
    ASSUME OneAtATime, OneInv, IInv', NEW r \in Requests, MessageCommit(r) \/ CreateConflict(r)
    PROVE  OneInv' /\ plan' = plan
<1>1. TypeOK /\ Close(r) /\ UNCHANGED <<plan, runs, worker, restarts>>
  BY DEF MessageCommit, CreateConflict, OneInv, IInv
<1>2. (\A t \in Tasks : TaskKept(t)) /\ UsableKept
  <2>1. CASE MessageCommit(r)
    <3>1. PICK about \in Sessions : about = request[r].about
      BY <2>1 DEF MessageCommit, OneInv, IInv, RequestInv
    <3>2. create_task(about)
      BY <2>1, <3>1 DEF MessageCommit
    <3> QED BY <1>1, <3>2, CreateTaskFacts DEF TaskKept, UsableKept, Usable
  <2>2. CASE CreateConflict(r)
    BY <2>2 DEF CreateConflict, TaskKept, UsableKept
  <2> QED BY <2>1, <2>2
<1> QED BY <1>1, <1>2, OneCloses, OneBeside

(* A pending plan is nobody's but the request's.                           *)
LEMMA PendingIsIdle ==
    ASSUME IInv, NEW p \in Plans, plan[p] = "pending"
    PROVE  worker.pc \in {"claiming", "stepping", "running", "ending"} => Subject # p
  BY DEF IInv, WorkerInv, TaskInv, Subject

(* A request that decides its plan.                                        *)
LEMMA OneDecides ==
    ASSUME OneAtATime, OneInv, IInv', NEW r \in Requests, Close(r), NEW p \in Plans,
           plan[p] = "pending", NEW decision \in {"approved", "rejected"},
           plan' = [plan EXCEPT ![p] = decision], UNCHANGED <<runs, worker, restarts>>,
           \A t \in Tasks : TaskKept(t), UsableKept, decision = "approved" => Resumable(p)'
    PROVE  OneInv' /\ Lifecycle!Next
<1>1. /\ TypeOK /\ plan'[p] = decision /\ \A q \in Plans : q # p => plan'[q] = plan[q]
  BY DEF OneInv, IInv, TypeOK
<1>2. worker.pc \in {"claiming", "stepping", "running", "ending"} => Subject # p
  BY PendingIsIdle DEF OneInv
<1>3. ExecutorInv' /\ \A q \in Plans, i \in 1..Steps : Begun(q, i) => Begun(q, i)'
  BY <1>1, <1>2, ExecutorSame DEF OneInv, IInv
<1>4. \A q \in Requests : DecisionInv(q)'
  BY <1>1, OneCloses
<1>5. \A q \in Plans : Resumable(q)'
  <2>1. decision = "rejected" => Resumable(p)'
    BY <1>1 DEF Resumable, Unfinished
  <2>2. \A q \in Plans : q # p => Resumable(q)'
    BY <1>1, ResumableSame DEF OneInv
  <2> QED BY <2>1, <2>2
<1>6. \A q \in Plans : RunsInv(q)'
  <2>1. RunsInv(p)'
    BY <1>1 DEF OneInv, RunsInv
  <2>2. \A q \in Plans : q # p => RunsInv(q)'
    BY <1>1, <1>3, RunsSame DEF OneInv
  <2> QED BY <2>1, <2>2
<1>7. Lifecycle!Next
  BY DEF Lifecycle!Next, Lifecycle!Decide
<1> QED BY <1>3, <1>4, <1>5, <1>6, <1>7 DEF OneInv

(* ApproveCommit                                                           *)
LEMMA OneApproves ==
    ASSUME OneAtATime, OneInv, IInv', NEW r \in Requests, ApproveCommit(r)
    PROVE  OneInv' /\ Lifecycle!Next
<1>1. PICK p \in Plans : p = request[r].about /\ plan[p] = "pending"
  BY DEF ApproveCommit, OneInv, IInv, RequestInv, DecisionInv
<1>2. /\ TypeOK /\ Close(r) /\ plan' = [plan EXCEPT ![p] = "approved"] /\ create_task(p)
      /\ UNCHANGED <<runs, worker, restarts>>
  BY <1>1 DEF ApproveCommit, OneInv, IInv
<1>3. /\ \A t \in Tasks : \/ tasks'[t].about = tasks[t].about
                             /\ tasks'[t].status = tasks[t].status
                          \/ tasks[t].status = "absent"
                             /\ tasks'[t].about = p /\ tasks'[t].status = "queued"
      /\ \E t \in Tasks : tasks'[t].about = p
                          /\ tasks'[t].status \in {"queued", "running", "paused"}
  BY <1>2, CreateTaskFacts
<1>4. (\A t \in Tasks : TaskKept(t)) /\ UsableKept
  BY <1>3 DEF TaskKept, UsableKept, Usable
<1>5. Resumable(p)'
  BY <1>3 DEF Resumable
<1> QED BY <1>1, <1>2, <1>4, <1>5, OneDecides

(* RejectCommit                                                            *)
LEMMA OneRejects ==
    ASSUME OneAtATime, OneInv, IInv', NEW r \in Requests, RejectCommit(r)
    PROVE  OneInv' /\ Lifecycle!Next
<1>1. PICK p \in Plans : p = request[r].about /\ plan[p] = "pending"
  BY DEF RejectCommit, OneInv, IInv, RequestInv, DecisionInv
<1>2. /\ Close(r) /\ plan' = [plan EXCEPT ![p] = "rejected"]
      /\ UNCHANGED <<tasks, runs, worker, restarts>>
  BY <1>1 DEF RejectCommit
<1>3. (\A t \in Tasks : TaskKept(t)) /\ UsableKept
  BY <1>2 DEF TaskKept, UsableKept
<1> QED BY <1>1, <1>2, <1>3, OneDecides

(* ClearCommit: no plan is unfinished, so the executor has none in hand.   *)
LEMMA OneClears ==
    ASSUME OneAtATime, OneInv, IInv', NEW r \in Requests, ClearCommit(r)
    PROVE  OneInv' /\ Lifecycle!Next
<1>1. /\ TypeOK /\ Close(r) /\ plan' = [p \in Plans |-> Deleted(plan[p])]
      /\ UNCHANGED <<runs, worker, restarts>>
      /\ \A p \in Plans : plan[p] \notin Unfinished
  BY DEF ClearCommit, OneInv, IInv, DecisionInv
<1>2. \A p \in Plans : /\ plan'[p] = IF plan[p] = "absent" THEN "absent" ELSE "deleted"
                       /\ plan'[p] \notin Unfinished
  BY <1>1 DEF Deleted, Unfinished
<1>3. \A q \in Requests : DecisionInv(q)'
  BY <1>1, OneCloses
<1>4. worker.pc \notin {"claiming", "stepping", "running"}
  BY <1>1 DEF OneInv, IInv, WorkerInv, ExecutorInv, Unfinished
<1>5. ExecutorInv'
  BY <1>1, <1>2, <1>4 DEF ExecutorInv
<1>6. \A p \in Plans : Resumable(p)' /\ RunsInv(p)'
  BY <1>1, <1>2 DEF OneInv, Resumable, RunsInv
<1>7. Lifecycle!Clear
  BY <1>1 DEF Lifecycle!Clear, Unfinished, Deleted
<1> QED BY <1>3, <1>5, <1>6, <1>7 DEF OneInv, Lifecycle!Next

(* create_session, ControlTask                                             *)
LEMMA OneControls ==
    ASSUME OneInv, IInv',
           \/ \E s \in Sessions : create_session(s)
           \/ \E op \in Controls, t \in Tasks : ControlTask(op, t)
    PROVE  OneInv' /\ plan' = plan
<1>1. TypeOK /\ UNCHANGED <<plan, worker, request, runs, restarts>>
  BY DEF create_session, ControlTask, OneInv, IInv
<1>2. PlansQuiet
  BY <1>1 DEF PlansQuiet
<1>3. \A r \in Requests : DecisionInv(r)'
  BY <1>1, <1>2, DecisionSame DEF OneInv, IInv
<1>4. (\A t \in Tasks : TaskKept(t)) /\ UsableKept
  <2>1. CASE tasks' = tasks
    BY <2>1 DEF TaskKept, UsableKept
  <2>2. CASE RowsKept
    BY <2>2 DEF RowsKept, TaskKept, UsableKept
  <2> QED BY <1>1, <2>1, <2>2, ControlFacts DEF create_session
<1> QED BY <1>1, <1>3, <1>4, OneBeside

(* ClaimTask                                                               *)
LEMMA OneClaims ==
    ASSUME OneInv, IInv', NEW t \in Tasks, ClaimTask(t)
    PROVE  OneInv' /\ plan' = plan
<1>1. TypeOK /\ worker.pc = "idle" /\ UNCHANGED <<plan, runs, request, restarts>>
  BY DEF ClaimTask, At, OneInv, IInv
<1>2. RowsKept /\ worker'.pc \in {"responding", "reading"}
  BY <1>1, ClaimFacts
<1>3. UsableKept /\ ExecutorInv'
  BY <1>2 DEF RowsKept, UsableKept, ExecutorInv
<1> QED BY <1>1, <1>3, OneWorks

(***************************************************************************)
(* FinishTask may end the task as succeeded or failed: its plan, if it has *)
(* one, was concluded before.                                              *)
(***************************************************************************)
LEMMA OneFinishes ==
    ASSUME OneInv, IInv', FinishTask
    PROVE  OneInv' /\ plan' = plan
<1>1. /\ worker.pc = "ending" /\ worker.task \in Tasks
      /\ UNCHANGED <<plan, request, runs, restarts>>
      /\ worker'.pc \in {"idle", "dead"}
      /\ \A t \in Tasks : /\ tasks'[t].about = tasks[t].about
                          /\ t # worker.task => tasks'[t].status = tasks[t].status
  BY FinishFacts DEF FinishTask, At, OneInv
<1>2. \A p \in Plans : plan[p] \in Unfinished => tasks[worker.task].about # p
  BY <1>1 DEF OneInv, ExecutorInv, Subject
<1>3. \A p \in Plans : Resumable(p)'
  BY <1>1, <1>2 DEF OneInv, Resumable
<1>4. ExecutorInv'
  BY <1>1 DEF ExecutorInv
<1>5. PlansQuiet
  BY <1>1 DEF PlansQuiet
<1>6. \A r \in Requests : DecisionInv(r)'
  BY <1>1, <1>5, DecisionSame DEF OneInv, IInv
<1>7. \A p \in Plans : RunsInv(p)'
  <2>1. \A p \in Plans, i \in 1..Steps : ~Begun(p, i)
    BY <1>1 DEF Begun
  <2> QED BY <1>1, <2>1, RunsSame DEF OneInv
<1> QED BY <1>1, <1>3, <1>4, <1>6, <1>7 DEF OneInv

(* ProcessEnds: every step may be started once more.                       *)
LEMMA OneProcessEnds ==
    ASSUME OneInv, IInv', ProcessEnds
    PROVE  OneInv' /\ plan' = plan
<1>1. /\ TypeOK /\ worker' = IdleWorker /\ restarts' = restarts + 1
      /\ request' = [r \in Requests |-> IdleRequest]
      /\ UNCHANGED <<plan, tasks, runs>>
  BY DEF ProcessEnds, OneInv, IInv
<1>2. \A r \in Requests : DecisionInv(r)'
  BY <1>1, InitialTypes DEF DecisionInv
<1>3. ExecutorInv'
  BY <1>1, InitialTypes DEF ExecutorInv
<1>4. \A p \in Plans : Resumable(p)'
  BY <1>1 DEF OneInv, Resumable
<1>5. \A p \in Plans : RunsInv(p)'
  <2> SUFFICES ASSUME NEW p \in Plans, NEW i \in 1..Steps
               PROVE  /\ (runs[p][i] <= 1 + restarts)'
                      /\ (plan[p] \in {"absent", "pending", "approved"} => runs[p][i] = 0)'
                      /\ (plan[p] = "executing" => runs[p][i] <= restarts)'
    BY DEF RunsInv
  <2>1. PICK n \in Nat : n = restarts
    BY <1>1 DEF TypeOK
  <2>2. PICK m \in Nat : m = runs[p][i]
    BY <1>1 DEF TypeOK
  <2>3. m <= 1 + n /\ (plan[p] \in {"absent", "pending", "approved"} => m = 0)
    BY <2>1, <2>2 DEF OneInv, RunsInv
  <2>4. runs'[p][i] = m /\ restarts' = n + 1 /\ plan'[p] = plan[p]
    BY <1>1, <2>1, <2>2
  <2> QED BY <2>3, <2>4
<1> QED BY <1>1, <1>2, <1>3, <1>4, <1>5 DEF OneInv

(* RecoverSessions, Start                                                  *)
LEMMA OneStarts ==
    ASSUME OneInv, IInv', RecoverSessions \/ Start
    PROVE  OneInv' /\ plan' = plan
<1>1. TypeOK /\ up # "up" /\ UNCHANGED <<plan, runs, request, worker, restarts>>
  BY DEF RecoverSessions, Start, OneInv, IInv
<1>2. worker.pc = "idle"
  BY <1>1, InitialTypes DEF OneInv, IInv, WorkerInv
<1>3. UsableKept
  <2>1. CASE RecoverSessions
    BY <2>1 DEF RecoverSessions, UsableKept
  <2>2. CASE Start
    BY <1>1, <2>2, StartFacts DEF RowsKept, UsableKept
  <2> QED BY <2>1, <2>2
<1>4. ExecutorInv'
  BY <1>1, <1>2 DEF ExecutorInv
<1> QED BY <1>1, <1>2, <1>3, <1>4, OneWorks

(* RespondClaim, RespondStops, RespondFindsNothing, RespondAnswers,        *)
(* RespondFails                                                            *)
LEMMA OneResponds ==
    ASSUME OneInv, IInv', \/ RespondClaim \/ RespondStops \/ RespondFindsNothing
                          \/ RespondAnswers \/ RespondFails
    PROVE  OneInv' /\ plan' = plan
<1>1. /\ worker.pc \in {"responding", "thinking"}
      /\ UNCHANGED <<plan, tasks, request, runs, restarts>>
  BY DEF RespondClaim, RespondStops, RespondFindsNothing, RespondAnswers, RespondFails, At
<1>2. worker \in Worker /\ Subject \in Sessions
  BY <1>1 DEF OneInv, IInv, TypeOK, WorkerInv
<1>3. (\E outcome \in TaskStatus : EndWith(outcome)) \/ Goto("thinking")
  BY StoppedType
     DEF RespondClaim, RespondStops, RespondFindsNothing, RespondAnswers, RespondFails,
         TaskStatus
<1>4. worker'.pc \in {"ending", "thinking"} /\ worker'.task = worker.task
  BY <1>2, <1>3, EndFacts, GotoFacts DEF WorkerPc
<1>5. Subject' \notin Plans
  BY <1>1, <1>2, <1>4, OpsPlansAssumption DEF Subject
<1>6. ExecutorInv'
  BY <1>4, <1>5 DEF ExecutorInv
<1>7. UsableKept
  BY <1>1 DEF UsableKept
<1> QED BY <1>1, <1>6, <1>7, OneWorks

(* RespondPlans proposes a plan nobody has started.                        *)
LEMMA OneProposes ==
    ASSUME OneInv, IInv', NEW p \in Plans, RespondPlans(p)
    PROVE  OneInv' /\ Lifecycle!Next
<1>1. /\ worker.pc = "thinking" /\ worker \in Worker /\ Subject \in Sessions
      /\ plan[p] = "absent" /\ plan' = [plan EXCEPT ![p] = "pending"]
      /\ UNCHANGED <<tasks, request, runs, restarts>> /\ EndWith("succeeded")
      /\ plan \in [Plans -> Lifecycle!PlanStatus]
  BY DEF RespondPlans, At, OneInv, IInv, WorkerInv, TypeOK
<1>2. worker'.pc = "ending" /\ worker'.task = worker.task
  BY <1>1, EndFacts DEF TaskStatus
<1>3. Subject' \notin Plans
  BY <1>1, <1>2, OpsPlansAssumption DEF Subject
<1>4. ExecutorInv'
  BY <1>2, <1>3 DEF ExecutorInv
<1>5. plan'[p] = "pending" /\ \A q \in Plans : q # p => plan'[q] = plan[q]
  BY <1>1
<1>6. PlansQuiet
  BY <1>1, <1>5 DEF PlansQuiet, Unfinished
<1>7. \A r \in Requests : DecisionInv(r)'
  BY <1>1, <1>6, DecisionSame DEF OneInv, IInv
<1>8. \A q \in Plans : Resumable(q)'
  BY <1>1, <1>5 DEF OneInv, Resumable, Unfinished
<1>9. \A q \in Plans : RunsInv(q)'
  <2>1. \A q \in Plans, i \in 1..Steps : ~Begun(q, i)
    BY <1>1 DEF Begun
  <2>2. RunsInv(p)'
    BY <1>1, <1>5 DEF OneInv, RunsInv
  <2>3. \A q \in Plans : q # p => RunsInv(q)'
    BY <1>1, <1>5, <2>1, RunsSame DEF OneInv
  <2> QED BY <2>2, <2>3
<1>10. Lifecycle!Next
  BY <1>1 DEF Lifecycle!Next, Lifecycle!Propose
<1> QED BY <1>4, <1>7, <1>8, <1>9, <1>10 DEF OneInv

(* ExecuteRead                                                             *)
LEMMA OneExecuteReads ==
    ASSUME OneInv, IInv', ExecuteRead
    PROVE  OneInv' /\ plan' = plan
<1>1. /\ up = "up" /\ worker.pc = "reading"
      /\ UNCHANGED <<plan, tasks, request, runs, restarts>>
  BY DEF ExecuteRead, At
<1>2. worker \in Worker /\ Subject \in Plans /\ plan[Subject] \in Lifecycle!PlanStatus
  BY <1>1, ExecutorFacts DEF OneInv, IInv, TypeOK
<1>3. \/ /\ worker'.pc = "claiming" /\ worker'.task = worker.task
         /\ worker'.loaded = plan[Subject] /\ plan[Subject] \in Unfinished
      \/ /\ worker'.pc = "ending" /\ worker'.task = worker.task
         /\ plan[Subject] \notin Unfinished
  BY <1>2 DEF ExecuteRead, EndWith, Worker, _ACTIVE_PLAN_STATUSES, Unfinished
<1>4. Subject' = Subject
  BY <1>1, <1>3 DEF Subject
<1>5. ExecutorInv'
  BY <1>1, <1>3, <1>4 DEF ExecutorInv
<1>6. UsableKept
  BY <1>1 DEF UsableKept
<1> QED BY <1>1, <1>5, <1>6, OneWorks

(***************************************************************************)
(* A step of the executor on its own unfinished plan: what remains to be   *)
(* shown is the plan's new status and its counts.                          *)
(***************************************************************************)
LEMMA OneExecutes ==
    ASSUME OneInv, IInv', up = "up", worker.pc \in {"claiming", "stepping", "running"},
           UNCHANGED <<tasks, request, restarts>>, worker'.task = worker.task,
           ExecutorInv',
           \A q \in Plans : q # Subject => plan'[q] = plan[q] /\ runs'[q] = runs[q],
           RunsInv(Subject)'
    PROVE  OneInv'
<1>1. Subject \in Plans /\ plan[Subject] \in Unfinished
  <2>1. Subject \in Plans
    BY ExecutorFacts DEF OneInv
  <2> QED BY <2>1 DEF OneInv, ExecutorInv, Unfinished
<1>2. Subject' = Subject
  BY DEF Subject
<1>3. PlansQuiet
  <2>1. \A q \in Plans : plan[q] = "pending" => q # Subject
    BY <1>1 DEF Unfinished
  <2>2. \A q \in Plans : plan[q] \notin Unfinished => q # Subject
    BY <1>1
  <2> QED BY <2>1, <2>2 DEF PlansQuiet
<1>4. \A r \in Requests : DecisionInv(r)'
  BY <1>3, DecisionSame DEF OneInv, IInv
<1>5. \A q \in Plans : Resumable(q)'
  BY <1>1 DEF OneInv, Resumable
<1>6. \A q \in Plans : RunsInv(q)'
  <2>1. \A q \in Plans, i \in 1..Steps : q # Subject => ~Begun(q, i)
    BY DEF Begun
  <2>2. \A q \in Plans : q # Subject => RunsInv(q)'
    BY <2>1, RunsSame DEF OneInv
  <2>3. \A q \in Plans : q = Subject => RunsInv(q)'
    BY <1>2
  <2> QED BY <2>2, <2>3
<1> QED BY <1>4, <1>5, <1>6 DEF OneInv

(***************************************************************************)
(* ExecuteClaim: an approved plan starts to execute; a plan that a restart *)
(* interrupted goes on.                                                    *)
(***************************************************************************)
LEMMA OneExecuteClaims ==
    ASSUME OneInv, IInv', ExecuteClaim
    PROVE  OneInv' /\ (Lifecycle!Next \/ plan' = plan)
<1>1. /\ up = "up" /\ worker.pc = "claiming" /\ TypeOK
      /\ UNCHANGED <<tasks, request, runs, restarts>>
  BY DEF ExecuteClaim, At, OneInv, IInv
<1>2. worker \in Worker /\ Subject \in Plans
  BY <1>1, ExecutorFacts DEF OneInv
<1>3. plan[Subject] = worker.loaded /\ plan[Subject] \in Unfinished
  BY <1>1 DEF OneInv, ExecutorInv
<1>4. PICK p \in Plans : p = Subject
  BY <1>2
<1>5. /\ plan' = [plan EXCEPT ![p] = Column(@, worker.loaded, "executing")]
      /\ Goto("stepping")
  BY <1>3, <1>4 DEF ExecuteClaim, Unfinished
<1>6. worker'.pc = "stepping" /\ worker'.task = worker.task
  BY <1>2, <1>5, GotoFacts DEF WorkerPc
<1>7. Subject' = p
  BY <1>1, <1>4, <1>6 DEF Subject
<1>8. plan' = [plan EXCEPT ![p] = "executing"]
  BY <1>1, <1>3, <1>4, <1>5 DEF Column, TypeOK
<1>9. plan'[p] = "executing" /\ \A q \in Plans : q # p => plan'[q] = plan[q]
  BY <1>1, <1>8 DEF TypeOK
<1>10. ExecutorInv'
  BY <1>6, <1>7, <1>9 DEF ExecutorInv
<1>11. RunsInv(p)'
  <2> SUFFICES ASSUME NEW i \in 1..Steps
               PROVE  (runs[p][i] <= 1 + restarts)' /\ (runs[p][i] <= restarts)'
    BY <1>9 DEF RunsInv
  <2>1. runs[p][i] \in Nat /\ restarts \in Nat
    <3>1. runs[p] \in [1..Steps -> Nat] /\ restarts \in 0..MaxRestarts
      BY <1>1 DEF TypeOK
    <3> QED BY <3>1, OpsPlansAssumption
  <2>2. ~Begun(p, i)
    BY <1>1 DEF Begun
  <2>3. runs[p][i] <= restarts
    BY <1>3, <1>4, <2>1, <2>2 DEF OneInv, RunsInv, Unfinished
  <2> QED BY <1>1, <2>1, <2>3
<1>12. OneInv'
  BY <1>1, <1>4, <1>6, <1>7, <1>9, <1>10, <1>11, OneExecutes
<1>13. CASE plan[p] = "approved"
  <2>1. Lifecycle!Execute(p)
    BY <1>8, <1>13 DEF Lifecycle!Execute
  <2> QED BY <1>12, <2>1 DEF Lifecycle!Next
<1>14. CASE plan[p] = "executing"
  <2>1. plan' = plan
    BY <1>1, <1>8, <1>14 DEF TypeOK
  <2> QED BY <1>12, <2>1
<1> QED BY <1>3, <1>4, <1>13, <1>14 DEF Unfinished

(* StepFails, StepControlled, PlanCompletes: the plan concludes once.      *)
LEMMA OneConcludes ==
    ASSUME OneInv, IInv', StepFails \/ StepControlled \/ PlanCompletes
    PROVE  OneInv' /\ Lifecycle!Next
<1>1. /\ up = "up" /\ worker.pc \in {"stepping", "running"} /\ TypeOK
      /\ UNCHANGED <<tasks, request, runs, restarts>>
  BY DEF StepFails, StepControlled, PlanCompletes, At, OneInv, IInv
<1>2. worker \in Worker /\ Subject \in Plans
  BY <1>1, ExecutorFacts DEF OneInv
<1>3. PICK p \in Plans : p = Subject /\ plan[p] = "executing"
  BY <1>1, <1>2 DEF OneInv, ExecutorInv
<1>4. \E outcome \in TaskStatus : EndWith(outcome)
  BY StoppedType DEF StepFails, StepControlled, PlanCompletes, TaskStatus
<1>5. worker'.pc = "ending" /\ worker'.task = worker.task
  BY <1>2, <1>4, EndFacts
<1>6. PICK status \in {"completed", "failed"} : plan' = [plan EXCEPT ![p] = status]
  BY <1>3 DEF StepFails, StepControlled, PlanCompletes, _save_plan_result
<1>7. plan'[p] = status /\ \A q \in Plans : q # p => plan'[q] = plan[q]
  BY <1>1, <1>6 DEF TypeOK
<1>8. Subject' = p
  BY <1>1, <1>3, <1>5 DEF Subject
<1>9. ExecutorInv'
  BY <1>5, <1>7, <1>8 DEF ExecutorInv, Unfinished
<1>10. RunsInv(p)'
  BY <1>1, <1>7 DEF OneInv, RunsInv
<1>11. Lifecycle!Next
  BY <1>3, <1>6 DEF Lifecycle!Next, Lifecycle!Conclude
<1> QED BY <1>1, <1>3, <1>5, <1>7, <1>8, <1>9, <1>10, <1>11, OneExecutes

(* StepBegins starts a step that this run of the plan has not started.     *)
LEMMA OneStepBegins ==
    ASSUME OneInv, IInv', StepBegins
    PROVE  OneInv' /\ plan' = plan
<1>1. /\ up = "up" /\ worker.pc = "stepping" /\ TypeOK
      /\ UNCHANGED <<plan, tasks, request, restarts>>
  BY DEF StepBegins, At, OneInv, IInv
<1>2. worker \in Worker /\ Subject \in Plans
  BY <1>1, ExecutorFacts DEF OneInv
<1>3. PICK p \in Plans : p = Subject /\ plan[p] = "executing"
  BY <1>1, <1>2 DEF OneInv, ExecutorInv
<1>4. Goto("running")
  BY <1>3 DEF StepBegins
<1>5. worker'.pc = "running" /\ worker'.task = worker.task /\ worker'.step = worker.step
  BY <1>2, <1>4, GotoFacts DEF WorkerPc
<1>6. Subject' = p
  BY <1>1, <1>3, <1>5 DEF Subject
<1>7. ExecutorInv'
  BY <1>1, <1>3, <1>5, <1>6 DEF ExecutorInv
<1>8. PICK k \in 1..Steps : k = worker.step
  BY BeginFacts DEF OneInv
<1>9. /\ \A q \in Plans : q # p => runs'[q] = runs[q]
      /\ \A i \in 1..Steps : i # k => runs'[p][i] = runs[p][i]
      /\ runs'[p][k] = runs[p][k] + 1
  BY <1>3, <1>8, BeginFacts DEF OneInv
<1>10. RunsInv(p)'
  <2> SUFFICES ASSUME NEW i \in 1..Steps
               PROVE  /\ (runs[p][i] <= 1 + restarts)'
                      /\ (~Begun(p, i) => runs[p][i] <= restarts)'
    BY <1>1, <1>3 DEF RunsInv
  <2>1. PICK n \in Nat : n = restarts
    BY <1>1 DEF TypeOK
  <2>2. PICK m \in Nat : m = runs[p][i]
    BY <1>1 DEF TypeOK
  <2>3. m <= 1 + n /\ (~Begun(p, i) => m <= n)
    BY <1>3, <2>1, <2>2 DEF OneInv, RunsInv
  <2>4. CASE i = k
    <3>1. ~Begun(p, i)
      BY <1>1, <1>8, <2>4 DEF Begun
    <3>2. m + 1 <= 1 + n
      BY <2>3, <3>1
    <3>3. Begun(p, i)'
      BY <1>5, <1>6, <1>8, <2>4 DEF Begun
    <3>4. runs'[p][i] = m + 1 /\ restarts' = n
      BY <1>1, <1>9, <2>1, <2>2, <2>4
    <3> QED BY <3>2, <3>3, <3>4
  <2>5. CASE i # k
    <3>1. Begun(p, i) => Begun(p, i)'
      BY <1>3, <1>5, <1>6, <1>8, <2>5 DEF Begun
    <3>2. runs'[p][i] = m /\ restarts' = n
      BY <1>1, <1>9, <2>1, <2>2, <2>5
    <3> QED BY <2>3, <3>1, <3>2
  <2> QED BY <2>4, <2>5
<1> QED BY <1>1, <1>3, <1>5, <1>6, <1>7, <1>9, <1>10, OneExecutes

(* StepEnds leaves its step started and the plan executing.                *)
LEMMA OneStepEnds ==
    ASSUME OneInv, IInv', StepEnds
    PROVE  OneInv' /\ plan' = plan
<1>1. /\ up = "up" /\ worker.pc \in {"stepping", "running"} /\ TypeOK
      /\ worker'.task = worker.task /\ worker'.pc = "stepping"
      /\ UNCHANGED <<tasks, request, runs, restarts>>
  BY StepEndFacts DEF OneInv, IInv
<1>2. PICK k \in 1..Steps : k = worker.step /\ worker'.step = k + 1
  BY StepEndFacts DEF OneInv
<1>3. Subject \in Plans
  BY <1>1, ExecutorFacts DEF OneInv
<1>4. PICK p \in Plans : p = Subject /\ plan[p] = "executing"
  BY <1>1, <1>3 DEF OneInv, ExecutorInv
<1>5. plan' = [plan EXCEPT ![p] = "executing"]
  BY <1>4 DEF StepEnds, _save_plan_result
<1>6. plan' = plan
  BY <1>1, <1>4, <1>5 DEF TypeOK
<1>7. Subject' = p
  BY <1>1, <1>4 DEF Subject
<1>8. ExecutorInv'
  BY <1>1, <1>4, <1>6, <1>7 DEF ExecutorInv
<1>9. \A i \in 1..Steps : Begun(p, i) => Begun(p, i)'
  <2> TAKE i \in 1..Steps
  <2>1. Begun(p, i) => i < k + 1
    BY <1>2, OpsPlansAssumption DEF Begun
  <2> QED BY <1>1, <1>2, <1>7, <2>1 DEF Begun
<1>10. RunsInv(p)'
  BY <1>1, <1>6, <1>9, RunsSame DEF OneInv
<1> QED BY <1>1, <1>4, <1>6, <1>7, <1>8, <1>10, OneExecutes
-----------------------------------------------------------------------------
(* The initial states.                                                     *)
LEMMA OneInit == Init => OneInv
<1> SUFFICES ASSUME Init PROVE OneInv
  OBVIOUS
<1>1. IInv
  BY InitInv
<1>2. \A r \in Requests : DecisionInv(r)
  BY InitialTypes DEF Init, DecisionInv
<1>3. ExecutorInv
  BY InitialTypes DEF Init, ExecutorInv
<1>4. \A p \in Plans : Resumable(p) /\ RunsInv(p)
  BY DEF Init, Resumable, RunsInv, Unfinished
<1> QED BY <1>1, <1>2, <1>3, <1>4 DEF OneInv

(* Every step keeps OneInv and is a step of the lifecycle or leaves the    *)
(* plans alone.                                                            *)
LEMMA OneStep ==
    ASSUME OneAtATime, OneInv, [Next]_vars
    PROVE  OneInv' /\ [Lifecycle!Next]_plan
<1>1. IInv'
  BY Inductive DEF OneInv
<1>2. CASE \/ \E s \in Sessions : create_session(s)
           \/ \E op \in Controls, t \in Tasks : ControlTask(op, t)
  BY <1>1, <1>2, OneControls
<1>3. ASSUME NEW r \in Requests, RequestStep(r) PROVE OneInv' /\ [Lifecycle!Next]_plan
  BY <1>1, <1>3, OneReads, OneMessage, OneApproves, OneRejects, OneClears DEF RequestStep
<1>4. CASE WorkerStep
  <2>1. CASE \E t \in Tasks : ClaimTask(t)
    BY <1>1, <2>1, OneClaims
  <2>2. CASE RespondStep
    BY <1>1, <2>2, OneResponds, OneProposes DEF RespondStep
  <2>3. CASE ExecuteStep
    BY <1>1, <2>3, OneExecuteReads, OneExecuteClaims, OneConcludes, OneStepBegins, OneStepEnds
       DEF ExecuteStep
  <2>4. CASE FinishTask
    BY <1>1, <2>4, OneFinishes
  <2> QED BY <1>4, <2>1, <2>2, <2>3, <2>4 DEF WorkerStep
<1>5. CASE ProcessEnds
  BY <1>1, <1>5, OneProcessEnds
<1>6. CASE RecoverSessions \/ Start
  BY <1>1, <1>6, OneStarts
<1>7. CASE UNCHANGED vars
  <2>1. plan' = plan
    BY <1>7 DEF vars
  <2>2. OneInv'
    BY <1>1, <1>7 DEF vars, OneInv, DecisionInv, ExecutorInv, Resumable, RunsInv, Begun,
       Subject
  <2> QED BY <2>1, <2>2
<1> QED BY <1>2, <1>3, <1>4, <1>5, <1>6, <1>7 DEF Next

(***************************************************************************)
(* When the administrators' requests come one at a time, every reachable   *)
(* state satisfies OneInv: a request finds its plan as it read it, the     *)
(* executor's plan is the one it loaded, and a plan in execution counts    *)
(* one start of a step for each run it had.                                *)
(***************************************************************************)
THEOREM OneInvariance == OneAtATime => (Spec => []OneInv)
<1>1. OneAtATime /\ OneInv /\ [Next]_vars => OneInv'
  BY OneStep
<1> SUFFICES ASSUME OneAtATime PROVE Spec => []OneInv
  OBVIOUS
<1>2. OneInv /\ [Next]_vars => OneInv'
  BY <1>1
<1> QED BY <1>2, OneInit, PTL DEF Spec

(***************************************************************************)
(* When requests come one at a time, the worker starts a step of a plan    *)
(* once, and once more for each restart, whatever tasks are paused,        *)
(* cancelled or resumed.                                                   *)
(***************************************************************************)
THEOREM StepsStartOnce == OneAtATime => (Spec => []StepOncePerStart)
<1>1. OneInv => StepOncePerStart
  BY DEF OneInv, RunsInv, StepOncePerStart
<1> SUFFICES ASSUME OneAtATime PROVE Spec => []StepOncePerStart
  OBVIOUS
<1>2. Spec => []OneInv
  BY OneInvariance
<1> QED BY <1>1, <1>2, PTL

(***************************************************************************)
(* When requests come one at a time, an approved or executing plan always  *)
(* has a task that will or may run.                                        *)
(***************************************************************************)
THEOREM UnfinishedPlansAreResumable == OneAtATime => (Spec => []UnfinishedPlanIsResumable)
<1>1. OneInv => UnfinishedPlanIsResumable
  BY DEF OneInv, Resumable, Unfinished, UnfinishedPlanIsResumable, Live, TaskStatus,
     TERMINAL_STATES
<1> SUFFICES ASSUME OneAtATime PROVE Spec => []UnfinishedPlanIsResumable
  OBVIOUS
<1>2. Spec => []OneInv
  BY OneInvariance
<1> QED BY <1>1, <1>2, PTL

(***************************************************************************)
(* The plans implement PlanLifecycle when requests come one at a time: the *)
(* initial state is its initial state, and each step is a step of it or    *)
(* changes no plan.                                                        *)
(***************************************************************************)
THEOREM ImplementsLifecycle == OneAtATime => (Spec => FollowsLifecycle)
<1> SUFFICES ASSUME OneAtATime PROVE Spec => FollowsLifecycle
  OBVIOUS
<1>1. Spec => []OneInv
  BY OneInvariance
<1>2. Init => Lifecycle!Init
  BY DEF Init, Lifecycle!Init
<1>3. OneInv /\ [Next]_vars => [Lifecycle!Next]_plan
  BY OneStep
<1> QED BY <1>1, <1>2, <1>3, PTL DEF Spec, FollowsLifecycle, Lifecycle!Spec
=============================================================================
