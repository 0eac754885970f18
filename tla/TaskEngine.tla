----------------------------- MODULE TaskEngine -----------------------------
(***************************************************************************)
(* The durable task queue: backend/app/tasks/engine.py and the control     *)
(* endpoints of backend/app/api/tasks.py.                                  *)
(*                                                                         *)
(* One worker thread per lane claims queued rows of its own task types and *)
(* runs their handlers; request threads create, pause, resume and cancel   *)
(* tasks through sessions of their own.  Each of those operations SELECTs  *)
(* a row, decides on what it read and commits later, so an operation is    *)
(* two steps here: the read, and the commit of the columns it changed.     *)
(* The manager may die at any step and restarts through                    *)
(* recover_interrupted.                                                    *)
(***************************************************************************)
EXTENDS Naturals, FiniteSets, TaskStates

CONSTANTS
    Tasks,        \* task identifiers (UUIDs, never reused)
    Keys,         \* idempotency keys
    NoKey,        \* the NULL idempotency key
    NoTask,       \* "no task"
    Lanes,        \* worker threads: control, download, image
    LaneOf,       \* the lane whose type filter selects the task
    Requests,     \* concurrent HTTP request threads
    Controls,     \* the control endpoints clients call
    MaxRestarts,  \* bound: manager restarts in a behaviour
    MaxCalls      \* bound: HTTP control calls in a behaviour

ASSUME TaskEngineAssumption ==
    /\ NoKey \notin Keys
    /\ NoTask \notin Tasks
    /\ IsFiniteSet(Tasks)
    /\ LaneOf \in [Tasks -> Lanes]
    /\ Controls \subseteq {"pause", "resume", "cancel"}
    /\ MaxRestarts \in Nat
    /\ MaxCalls \in Nat

VARIABLES
    rows,      \* the tasks table
    born,      \* created_at, as a counter
    lane,      \* the worker threads
    request,   \* the request threads
    wake,      \* TaskEngine._wake
    stopping,  \* TaskEngine._stop
    up,        \* the manager process is serving
    restarts,  \* restarts so far (bound)
    calls      \* control calls so far (bound)

vars == <<rows, born, lane, request, wake, stopping, up, restarts, calls>>

(***************************************************************************)
(* A row of the tasks table.  result_json is abstracted to what            *)
(* check_control looks for in it: nothing, a control request, or a         *)
(* handler's result.  input_json names the work; callers derive the        *)
(* idempotency key from it, and it stays when the key is released.         *)
(***************************************************************************)
ResultJson == {"empty", "pause", "cancel", "result"}

Row == [status : TaskStatus \cup {"absent"},
        idempotency_key : Keys \cup {NoKey},
        input_json : Keys \cup {NoKey},
        result_json : ResultJson,
        cancel_requested : BOOLEAN]

AbsentRow == [status |-> "absent", idempotency_key |-> NoKey, input_json |-> NoKey,
              result_json |-> "empty", cancel_requested |-> FALSE]

NewRow(key) == [AbsentRow EXCEPT !.status = "queued", !.idempotency_key = key,
                                 !.input_json = key]

Flush(current, loaded, assigned) ==
    [status           |-> Column(current.status, loaded.status, assigned.status),
     idempotency_key  |-> Column(current.idempotency_key, loaded.idempotency_key,
                                 assigned.idempotency_key),
     input_json       |-> current.input_json,
     result_json      |-> Column(current.result_json, loaded.result_json,
                                 assigned.result_json),
     cancel_requested |-> Column(current.cancel_requested, loaded.cancel_requested,
                                 assigned.cancel_requested)]

Exists(t) == rows[t].status # "absent"

LanePc == {"idle", "waiting", "claiming", "executing", "finishing", "committing", "dead"}

LaneState == [pc : LanePc, task : Tasks \cup {NoTask}, loaded : Row, target : TaskStatus]

IdleLane == [pc |-> "idle", task |-> NoTask, loaded |-> AbsentRow, target |-> "queued"]

RequestPc == {"idle", "creating", "rereading", "controlling"}

RequestState == [pc : RequestPc, task : Tasks \cup {NoTask}, loaded : Row,
                 op : {"pause", "resume", "cancel"}, key : Keys \cup {NoKey}]

IdleRequest == [pc |-> "idle", task |-> NoTask, loaded |-> AbsentRow,
                op |-> "pause", key |-> NoKey]

Init ==
    /\ rows = [t \in Tasks |-> AbsentRow]
    /\ born = [t \in Tasks |-> 0]
    /\ lane = [l \in Lanes |-> IdleLane]
    /\ request = [r \in Requests |-> IdleRequest]
    /\ wake = FALSE
    /\ stopping = FALSE
    /\ up = TRUE
    /\ restarts = 0
    /\ calls = 0

-----------------------------------------------------------------------------
(* create_task.  The SELECT by idempotency key ...                         *)

WithKey(key) == {t \in Tasks : Exists(t) /\ rows[t].idempotency_key = key}

Answer(r) == request' = [request EXCEPT ![r] = IdleRequest]

CreateRead(r, key) ==
    /\ up /\ request[r].pc = "idle" /\ calls < MaxCalls
    /\ calls' = calls + 1
    /\ \/ /\ key \in Keys
          /\ \E t \in WithKey(key) :
                IF rows[t].status \notin TERMINAL_STATES
                THEN Answer(r)                          \* return existing
                ELSE request' = [request EXCEPT ![r] =
                        [pc |-> "creating", task |-> t, loaded |-> rows[t],
                         op |-> "pause", key |-> key]]
       \/ /\ key = NoKey \/ WithKey(key) = {}
          /\ request' = [request EXCEPT ![r] =
                [IdleRequest EXCEPT !.pc = "creating", !.key = key]]
    /\ UNCHANGED <<rows, born, lane, wake, stopping, up, restarts>>

(***************************************************************************)
(* ... and the flush that releases the terminal holder's key and inserts   *)
(* the new row, one transaction.  The UNIQUE constraint on idempotency_key *)
(* rolls it back when another request has inserted that key meanwhile.     *)
(***************************************************************************)
KeyNeverTaken(r) == FALSE     \* mutant: no UNIQUE constraint on idempotency_key

KeyTaken(r) ==
    /\ request[r].key # NoKey
    /\ \E t \in WithKey(request[r].key) : t # request[r].task

Released(r) == [t \in Tasks |->
    IF t = request[r].task THEN [rows[t] EXCEPT !.idempotency_key = NoKey]
                           ELSE rows[t]]

CreateCommit(r) ==
    /\ up /\ request[r].pc = "creating" /\ ~KeyTaken(r)
    /\ \E t \in Tasks :
          /\ ~Exists(t)
          /\ rows' = [Released(r) EXCEPT ![t] = NewRow(request[r].key)]
          /\ born' = [born EXCEPT ![t] = Cardinality({u \in Tasks : Exists(u)})]
    /\ wake' = TRUE
    /\ Answer(r)
    /\ UNCHANGED <<lane, stopping, up, restarts, calls>>

CreateConflict(r) ==
    /\ up /\ request[r].pc = "creating" /\ KeyTaken(r)
    /\ request' = [request EXCEPT ![r].pc = "rereading"]
    /\ UNCHANGED <<rows, born, lane, wake, stopping, up, restarts, calls>>

(* Returns the row that won, or re-raises when it is already terminal.     *)
CreateReread(r) ==
    /\ up /\ request[r].pc = "rereading"
    /\ Answer(r)
    /\ UNCHANGED <<rows, born, lane, wake, stopping, up, restarts, calls>>

-----------------------------------------------------------------------------
(***************************************************************************)
(* request_pause, resume, request_cancel: the row a control operation      *)
(* assigns to, given the row it loaded, and whether it refuses (409).      *)
(***************************************************************************)
AcceptsAnyResume(op, row) ==   \* mutant: resume without transition_task's check
    CASE op = "pause"  -> row.status \in {"queued", "running"}
      [] op = "resume" -> TRUE
      [] op = "cancel" -> row.status \in {"queued", "paused", "running"}

Accepts(op, row) ==
    CASE op = "pause"  -> row.status \in {"queued", "running"}
      [] op = "resume" -> MayTransition(row.status, "queued")
      [] op = "cancel" -> row.status \in {"queued", "paused", "running"}

request_pause_at_once(row) ==  \* mutant: a running task's pause written as its status
    [row EXCEPT !.status = "paused"]

request_pause(row) ==
    IF row.status = "queued" THEN [row EXCEPT !.status = "paused"]
                             ELSE [row EXCEPT !.result_json = "pause"]

resume(row) ==
    [row EXCEPT !.status = "queued", !.cancel_requested = FALSE, !.result_json = "empty"]

request_cancel_status(row) ==  \* mutant: a status the CHECK constraint lacks
    IF row.status \in {"queued", "paused"} THEN [row EXCEPT !.status = "cancelled"]
    ELSE [row EXCEPT !.status = "cancelling", !.result_json = "cancel"]

request_cancel(row) ==
    IF row.status \in {"queued", "paused"} THEN [row EXCEPT !.status = "cancelled"]
    ELSE [row EXCEPT !.cancel_requested = TRUE, !.result_json = "cancel"]

Assigned(op, row) ==
    CASE op = "pause"  -> request_pause(row)
      [] op = "resume" -> resume(row)
      [] op = "cancel" -> request_cancel(row)

ControlRead(r, op, t) ==
    /\ up /\ request[r].pc = "idle" /\ calls < MaxCalls
    /\ Exists(t)
    /\ Accepts(op, rows[t])
    /\ calls' = calls + 1
    /\ request' = [request EXCEPT ![r] =
          [pc |-> "controlling", task |-> t, loaded |-> rows[t], op |-> op, key |-> NoKey]]
    /\ UNCHANGED <<rows, born, lane, wake, stopping, up, restarts>>

ControlCommit(r) ==
    LET t == request[r].task
        loaded == request[r].loaded
    IN /\ up /\ request[r].pc = "controlling"
       /\ rows' = [rows EXCEPT ![t] =
             Flush(rows[t], loaded, Assigned(request[r].op, loaded))]
       /\ wake' = (wake \/ request[r].op = "resume")
       /\ Answer(r)
       /\ UNCHANGED <<born, lane, stopping, up, restarts, calls>>

-----------------------------------------------------------------------------
(* The worker thread of a lane: _run, _claim, _finish.                     *)

Claimable(l) == {t \in Tasks : LaneOf[t] = l /\ rows[t].status = "queued"}

ClaimRead(l) ==
    /\ up /\ ~stopping /\ lane[l].pc = "idle"
    /\ \/ \E t \in Claimable(l) :
             /\ \A u \in Claimable(l) : born[t] <= born[u]
             /\ lane' = [lane EXCEPT ![l] = [IdleLane EXCEPT
                             !.pc = "claiming", !.task = t, !.loaded = rows[t]]]
       \/ /\ Claimable(l) = {}
          /\ lane' = [lane EXCEPT ![l].pc = "waiting"]
    /\ UNCHANGED <<rows, born, request, wake, stopping, up, restarts, calls>>

ClaimCommit(l) ==
    LET t == lane[l].task
        loaded == lane[l].loaded
    IN /\ up /\ lane[l].pc = "claiming"
       /\ rows' = [rows EXCEPT ![t] =
             Flush(rows[t], loaded, [loaded EXCEPT !.status = "running"])]
       /\ lane' = [lane EXCEPT ![l].pc = "executing"]
       /\ UNCHANGED <<born, request, wake, stopping, up, restarts, calls>>

(* _wake.wait(timeout=1); _wake.clear(): one event shared by all lanes.    *)
WaitWoken(l) ==
    /\ up /\ lane[l].pc = "waiting" /\ (wake \/ stopping)
    /\ wake' = FALSE
    /\ lane' = [lane EXCEPT ![l].pc = "idle"]
    /\ UNCHANGED <<rows, born, request, stopping, up, restarts, calls>>

WaitWithoutTimeout(l) == WaitWoken(l)   \* mutant: _wake.wait() without a timeout

WaitTimesOut(l) ==
    /\ up /\ lane[l].pc = "waiting"
    /\ wake' = FALSE
    /\ lane' = [lane EXCEPT ![l].pc = "idle"]
    /\ UNCHANGED <<rows, born, request, stopping, up, restarts, calls>>

(***************************************************************************)
(* The handler returns or raises; check_control inside it raises           *)
(* TaskPaused or TaskCancelled from what the row says at that moment.      *)
(***************************************************************************)
CheckControl(row) ==
    CASE row.status = "absent"                                -> "cancelled"
      [] row.status # "absent" /\ row.result_json = "pause"   -> "paused"
      [] row.status # "absent" /\ row.result_json # "pause" /\
         (row.cancel_requested \/ row.result_json = "cancel") -> "cancelled"
      [] OTHER                                                -> "continue"

HandlerEnds(l) ==
    /\ up /\ lane[l].pc = "executing"
    /\ \E outcome \in {"succeeded", "failed", CheckControl(rows[lane[l].task])} \ {"continue"} :
          lane' = [lane EXCEPT ![l] = [@ EXCEPT !.pc = "finishing", !.target = outcome]]
    /\ UNCHANGED <<rows, born, request, wake, stopping, up, restarts, calls>>

(***************************************************************************)
(* _finish loads the row again.  transition_task raises inside the except  *)
(* or else clause of _run, where nothing catches it: the thread ends.      *)
(***************************************************************************)
FinishRead(l) ==
    LET row == rows[lane[l].task]
    IN /\ up /\ lane[l].pc = "finishing"
       /\ lane' = [lane EXCEPT ![l] =
             IF row.status = "absent" THEN IdleLane
             ELSE IF MayTransition(row.status, lane[l].target)
                  THEN [lane[l] EXCEPT !.pc = "committing", !.loaded = row]
                  ELSE [IdleLane EXCEPT !.pc = "dead"]]
       /\ UNCHANGED <<rows, born, request, wake, stopping, up, restarts, calls>>

FinishCommit(l) ==
    LET t == lane[l].task
        loaded == lane[l].loaded
        target == lane[l].target
    IN /\ up /\ lane[l].pc = "committing"
       /\ rows' = [rows EXCEPT ![t] = Flush(rows[t], loaded,
             [loaded EXCEPT !.status = target,
                            !.result_json = IF target = "succeeded" THEN "result"
                                                                    ELSE "empty"])]
       /\ lane' = [lane EXCEPT ![l] = IdleLane]
       /\ UNCHANGED <<born, request, wake, stopping, up, restarts, calls>>

-----------------------------------------------------------------------------
(* stop: lanes finish what they run and claim nothing more.                *)
Stop ==
    /\ up /\ ~stopping /\ restarts < MaxRestarts
    /\ stopping' = TRUE
    /\ wake' = TRUE
    /\ UNCHANGED <<rows, born, lane, request, up, restarts, calls>>

(* The process ends, after stop or by a crash, wherever its threads are.   *)
ProcessEnds ==
    /\ up /\ restarts < MaxRestarts
    /\ up' = FALSE
    /\ restarts' = restarts + 1
    /\ lane' = [l \in Lanes |-> IdleLane]
    /\ request' = [r \in Requests |-> IdleRequest]
    /\ wake' = FALSE
    /\ stopping' = FALSE
    /\ UNCHANGED <<rows, born, calls>>

recover_nothing(row) == row     \* mutant: start without recovery

recover_interrupted(row) ==
    IF row.status = "running"
    THEN [row EXCEPT !.status = "queued", !.cancel_requested = FALSE,
                     !.result_json = "empty"]
    ELSE row

(* start: recover_interrupted, then the lane threads.                      *)
Start ==
    /\ ~up
    /\ up' = TRUE
    /\ rows' = [t \in Tasks |-> recover_interrupted(rows[t])]
    /\ UNCHANGED <<born, lane, request, wake, stopping, restarts, calls>>

-----------------------------------------------------------------------------
RequestStep(r) ==
    \/ \E key \in Keys \cup {NoKey} : CreateRead(r, key)
    \/ CreateCommit(r)
    \/ CreateConflict(r)
    \/ CreateReread(r)
    \/ \E op \in Controls, t \in Tasks : ControlRead(r, op, t)
    \/ ControlCommit(r)

LaneStep(l) ==
    \/ ClaimRead(l)
    \/ ClaimCommit(l)
    \/ WaitWoken(l)
    \/ WaitTimesOut(l)
    \/ HandlerEnds(l)
    \/ FinishRead(l)
    \/ FinishCommit(l)

Next ==
    \/ \E r \in Requests : RequestStep(r)
    \/ \E l \in Lanes : LaneStep(l)
    \/ Stop
    \/ ProcessEnds
    \/ Start

Spec == Init /\ [][Next]_vars

(***************************************************************************)
(* Worker threads are scheduled, handlers end (each bounds its own waits), *)
(* a stopped manager exits and a dead one is started again by its service  *)
(* manager; clients owe nothing.                                           *)
(***************************************************************************)
Fairness ==
    /\ \A l \in Lanes : WF_vars(LaneStep(l))
    /\ \A r \in Requests : WF_vars(CreateCommit(r) \/ CreateConflict(r)
                                   \/ CreateReread(r) \/ ControlCommit(r))
    /\ WF_vars(Start)
    /\ WF_vars(stopping /\ ProcessEnds)

FairSpec == Spec /\ Fairness
-----------------------------------------------------------------------------
(* Every table cell and thread keeps a value of its type.                  *)
TypeOK ==
    /\ rows \in [Tasks -> Row]
    /\ born \in [Tasks -> Nat]
    /\ lane \in [Lanes -> LaneState]
    /\ request \in [Requests -> RequestState]
    /\ wake \in BOOLEAN
    /\ stopping \in BOOLEAN
    /\ up \in BOOLEAN
    /\ restarts \in 0..MaxRestarts
    /\ calls \in 0..MaxCalls

Holding == {"executing", "finishing", "committing"}

(***************************************************************************)
(* While the manager serves, a row says running only if its lane's thread  *)
(* is running it: neither a crash between claim and finish (recovered by   *)
(* recover_interrupted), nor any race of control requests with _claim and  *)
(* _finish, nor a dead lane strands a row that nothing will finish.        *)
(***************************************************************************)
RunningIsHeld ==
    \A t \in Tasks : up /\ rows[t].status = "running" =>
        lane[LaneOf[t]].task = t /\ lane[LaneOf[t]].pc \in Holding

(***************************************************************************)
(* What an open session remembers: a lane holds a task of its own type     *)
(* filter, claims only a row it loaded as queued, and commits only an      *)
(* outcome transition_task allowed; a control request holds a task whose   *)
(* loaded row the endpoint accepts.  A manager that is down has no thread. *)
(***************************************************************************)
SessionInv ==
    /\ \A l \in Lanes :
          /\ lane[l].pc \in {"claiming"} \cup Holding =>
                lane[l].task \in Tasks /\ LaneOf[lane[l].task] = l
          /\ lane[l].pc = "claiming" => lane[l].loaded.status = "queued"
          /\ lane[l].pc \in {"finishing", "committing"} =>
                lane[l].target \in {"succeeded", "failed", "paused", "cancelled"}
          /\ lane[l].pc = "committing" =>
                /\ lane[l].loaded.status \in TaskStatus
                /\ MayTransition(lane[l].loaded.status, lane[l].target)
          /\ ~up => lane[l].pc = "idle"
    /\ \A r \in Requests :
          request[r].pc = "controlling" =>
             /\ request[r].task \in Tasks
             /\ request[r].loaded.status \in TaskStatus
             /\ Accepts(request[r].op, request[r].loaded)

(* The inductive invariant.                                                *)
IInv == TypeOK /\ SessionInv /\ RunningIsHeld

(* The status changes docs/ARCHITECTURE.md lists under State And Recovery; *)
(* restart recovery is the one source of running -> queued.                *)
Documented(from, to) ==
    \/ from = to
    \/ from = "absent" /\ to = "queued"
    \/ from = "queued" /\ to \in {"running", "paused", "cancelled"}
    \/ from = "running" /\ to \in {"succeeded", "failed", "paused", "cancelled"}
    \/ from = "paused" /\ to \in {"queued", "cancelled"}
    \/ from \in {"failed", "cancelled"} /\ to = "queued"
    \/ from = "running" /\ to = "queued" /\ ~up

(* The control session of r on task t, and that of lane l, ends here.      *)
Commits(r, t) ==
    request[r].pc = "controlling" /\ request[r].task = t /\ request'[r].pc = "idle"

LaneCommits(l, t) ==
    /\ lane[l].pc \in {"claiming", "committing"}
    /\ lane[l].task = t
    /\ lane'[l].pc # lane[l].pc

(* The session that commits here saw a status t no longer has.             *)
Stale(t) ==
    \/ \E r \in Requests : Commits(r, t) /\ request[r].loaded.status # rows[t].status
    \/ \E l \in Lanes : LaneCommits(l, t) /\ lane[l].loaded.status # rows[t].status

(***************************************************************************)
(* resume asks transition_task for -> queued, which the table allows from  *)
(* running for the sake of restart recovery.                               *)
(***************************************************************************)
ResumesRunning(t) ==
    \E r \in Requests : /\ Commits(r, t)
                        /\ request[r].op = "resume"
                        /\ rows[t].status = "running"

(***************************************************************************)
(* An undocumented status change has one of two sources: the commit of a   *)
(* session whose loaded status the database no longer holds (the lost      *)
(* update between SELECT and UPDATE), or of a resume on a running task.    *)
(***************************************************************************)
UndocumentedOnlyByRace ==
    [][\A t \in Tasks : Documented(rows[t].status, rows[t].status')
                        \/ Stale(t) \/ ResumesRunning(t)]_vars

(***************************************************************************)
(* A worker thread ends by an exception of _finish only when a control     *)
(* request took the running status from under it.  While a lane runs a     *)
(* handler, its row leaves running only by the commit of a control session *)
(* that had loaded the row before the claim, or that is a resume: pause    *)
(* and cancel of a row seen running only leave a request in it.  A claim   *)
(* makes its row running whatever the row became since it was loaded; and  *)
(* a row that still says running accepts every outcome of a handler.       *)
(***************************************************************************)
LaneDiesOnlyByRace ==
    [][\A l \in Lanes : LET t == lane[l].task IN
          /\ lane[l].pc = "claiming" /\ lane'[l].pc = "executing" => rows'[t].status = "running"
          /\ lane[l].pc \in {"executing", "finishing"} /\ rows[t].status = "running" =>
                \/ rows'[t].status = "running"
                \/ \E r \in Requests :
                      /\ Commits(r, t)
                      /\ request[r].loaded.status # "running" \/ request[r].op = "resume"
          /\ lane[l].pc # "dead" /\ lane'[l].pc = "dead" => rows[t].status # "running"]_vars

(***************************************************************************)
(* Two submissions of the same work are never both unfinished, whatever    *)
(* the interleaving of two create_task calls: the second returns the first *)
(* one's task or starts only after it ended.                               *)
(***************************************************************************)
OneLiveTaskPerInput ==
    \A t, u \in Tasks :
        /\ t # u
        /\ {rows[t].status, rows[u].status} \cap (TERMINAL_STATES \cup {"absent"}) = {}
        => rows[t].input_json # rows[u].input_json \/ rows[t].input_json = NoKey

(***************************************************************************)
(* Every queued task is eventually finished, through lost wake-ups of the  *)
(* event the lanes share, orderly stops and crashes.                       *)
(***************************************************************************)
QueuedIsFinished ==
    \A t \in Tasks : rows[t].status = "queued" ~> rows[t].status \in TERMINAL_STATES
-----------------------------------------------------------------------------
(***************************************************************************)
(* The queue without its control endpoints: what create_task, the lanes    *)
(* and restarts make of the table among themselves.  A lane then finds the *)
(* status it loaded; a key is released only by a task that ended; the      *)
(* UNIQUE constraint holds, and unfinished work keeps its key.             *)
(***************************************************************************)
NoControls == Controls = {}

KeyInv ==
    /\ \A t, u \in Tasks : t # u /\ rows[t].idempotency_key = rows[u].idempotency_key =>
          rows[t].idempotency_key = NoKey
    /\ \A t \in Tasks : rows[t].status \notin TERMINAL_STATES \cup {"absent"} =>
          rows[t].idempotency_key = rows[t].input_json
    /\ \A t \in Tasks : rows[t].status = "absent" => rows[t].idempotency_key = NoKey

QueueInv ==
    /\ \A r \in Requests :
          /\ request[r].pc # "controlling"
          /\ request[r].pc = "creating" /\ request[r].task # NoTask =>
                rows[request[r].task].status \in TERMINAL_STATES
    /\ \A l \in Lanes :
          /\ lane[l].pc # "dead"
          /\ lane[l].pc = "claiming" => rows[lane[l].task].status = "queued"
          /\ lane[l].pc \in Holding => rows[lane[l].task].status = "running"
          /\ lane[l].pc = "committing" => lane[l].loaded.status = "running"
    /\ KeyInv
=============================================================================
