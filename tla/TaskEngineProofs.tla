-------------------------- MODULE TaskEngineProofs --------------------------
(***************************************************************************)
(* The invariants of TaskEngine, for every set of tasks, lanes, keys and   *)
(* request threads and every value of the bounds.                          *)
(***************************************************************************)
EXTENDS TaskEngine, FiniteSetTheorems, TLAPS

(* A row written by a flush is a row.                                      *)
LEMMA FlushType ==
    ASSUME NEW a \in Row, NEW b \in Row, NEW c \in Row
    PROVE  Flush(a, b, c) \in Row
  BY DEF Flush, Column, Row

(* What a control endpoint assigns to a row it accepts is a row.           *)
LEMMA AssignedType ==
    ASSUME NEW row \in Row, NEW op \in {"pause", "resume", "cancel"}
    PROVE  Assigned(op, row) \in Row
  BY DEF Assigned, request_pause, resume, request_cancel, Row, TaskStatus, ResultJson

(* A row that does not exist yet has the type of a row.                    *)
LEMMA AbsentRowType == AbsentRow \in Row
  BY DEF AbsentRow, Row, TaskStatus, ResultJson

(* The row create_task inserts is a row.                                   *)
LEMMA NewRowType ==
    ASSUME NEW key \in Keys \cup {NoKey}
    PROVE  NewRow(key) \in Row
  BY AbsentRowType DEF NewRow, Row, TaskStatus

(* Threads at rest have their types.                                       *)
LEMMA IdleTypes == IdleLane \in LaneState /\ IdleRequest \in RequestState
  BY AbsentRowType DEF IdleLane, IdleRequest, LaneState, RequestState, LanePc,
         RequestPc, TaskStatus

(* Updates of a thread's record and of a row stay in their types.          *)
LEMMA LanePcUpdate ==
    ASSUME NEW x \in LaneState, NEW pc \in LanePc
    PROVE  [x EXCEPT !.pc = pc] \in LaneState
  BY DEF LaneState

(* A lane that has its handler's outcome.                                  *)
LEMMA LaneTargetUpdate ==
    ASSUME NEW x \in LaneState, NEW pc \in LanePc, NEW s \in TaskStatus
    PROVE  [x EXCEPT !.pc = pc, !.target = s] \in LaneState
  BY DEF LaneState

(* A lane that has read its row.                                           *)
LEMMA LaneLoadedUpdate ==
    ASSUME NEW x \in LaneState, NEW pc \in LanePc, NEW row \in Row
    PROVE  [x EXCEPT !.pc = pc, !.loaded = row] \in LaneState
  BY DEF LaneState

(* A lane that has chosen the row it claims.                               *)
LEMMA LaneClaimUpdate ==
    ASSUME NEW x \in LaneState, NEW pc \in LanePc, NEW t \in Tasks, NEW row \in Row
    PROVE  [x EXCEPT !.pc = pc, !.task = t, !.loaded = row] \in LaneState
  BY DEF LaneState

(* A row with another status.                                              *)
LEMMA RowStatusUpdate ==
    ASSUME NEW x \in Row, NEW s \in TaskStatus
    PROVE  [x EXCEPT !.status = s] \in Row
  BY DEF Row

(* A row with the status and the result of a finished task.                *)
LEMMA RowFinishUpdate ==
    ASSUME NEW x \in Row, NEW s \in TaskStatus, NEW j \in ResultJson
    PROVE  [x EXCEPT !.status = s, !.result_json = j] \in Row
  BY DEF Row

(* A row as start-up recovery leaves it.                                   *)
LEMMA RecoveredRowType ==
    ASSUME NEW x \in Row
    PROVE  recover_interrupted(x) \in Row
  BY DEF recover_interrupted, Row, TaskStatus, ResultJson

(* The manager starts in a typed state.                                    *)
LEMMA InitType == Init => TypeOK
<1> USE TaskEngineAssumption
<1> SUFFICES ASSUME Init PROVE TypeOK
  OBVIOUS
<1>1. /\ rows \in [Tasks -> Row]
      /\ lane \in [Lanes -> LaneState]
      /\ request \in [Requests -> RequestState]
  BY IdleTypes, AbsentRowType DEF Init
<1>2. /\ born \in [Tasks -> Nat]
      /\ restarts \in 0..MaxRestarts
      /\ calls \in 0..MaxCalls
  BY DEF Init
<1>3. wake \in BOOLEAN /\ stopping \in BOOLEAN /\ up \in BOOLEAN
  BY DEF Init
<1> QED BY <1>1, <1>2, <1>3 DEF TypeOK
(***************************************************************************)
(* A step keeps the types; the session facts say which task a thread       *)
(* reads.                                                                  *)
(***************************************************************************)
LEMMA TypeStep == TypeOK /\ SessionInv /\ [Next]_vars => TypeOK'
<1> USE TaskEngineAssumption
<1> SUFFICES ASSUME TypeOK, SessionInv, [Next]_vars PROVE TypeOK'
  OBVIOUS
<1>a. /\ rows \in [Tasks -> Row]
      /\ lane \in [Lanes -> LaneState]
      /\ request \in [Requests -> RequestState]
  BY DEF TypeOK
<1>b. SUFFICES ASSUME Next
               PROVE  /\ rows' \in [Tasks -> Row]
                      /\ lane' \in [Lanes -> LaneState]
                      /\ request' \in [Requests -> RequestState]
                      /\ born' \in [Tasks -> Nat]
                      /\ wake' \in BOOLEAN
                      /\ stopping' \in BOOLEAN
                      /\ up' \in BOOLEAN
                      /\ restarts' \in 0..MaxRestarts
                      /\ calls' \in 0..MaxCalls
  BY DEF TypeOK, vars
<1>c. /\ born \in [Tasks -> Nat] /\ wake \in BOOLEAN /\ stopping \in BOOLEAN
      /\ up \in BOOLEAN /\ restarts \in 0..MaxRestarts /\ calls \in 0..MaxCalls
  BY DEF TypeOK
<1>1. ASSUME NEW r \in Requests, NEW key \in Keys \cup {NoKey}, CreateRead(r, key)
      PROVE  request' \in [Requests -> RequestState] /\ calls' \in 0..MaxCalls
  <2>1. CASE Answer(r)
    BY <1>a, <1>c, <1>1, <2>1, IdleTypes DEF CreateRead, Answer
  <2>2. CASE \E t \in WithKey(key) : request' = [request EXCEPT ![r] =
                      [pc |-> "creating", task |-> t, loaded |-> rows[t],
                       op |-> "pause", key |-> key]]
    <3>1. PICK t \in WithKey(key) : request' = [request EXCEPT ![r] =
                      [pc |-> "creating", task |-> t, loaded |-> rows[t],
                       op |-> "pause", key |-> key]]
      BY <2>2
    <3>2. t \in Tasks /\ rows[t] \in Row
      BY <3>1, <1>a DEF WithKey
    <3> QED BY <1>a, <1>c, <1>1, <3>1, <3>2 DEF CreateRead, RequestState, RequestPc
  <2>3. CASE request' = [request EXCEPT ![r] =
              [IdleRequest EXCEPT !.pc = "creating", !.key = key]]
    <3>1. [IdleRequest EXCEPT !.pc = "creating", !.key = key] \in RequestState
      BY IdleTypes DEF RequestState, RequestPc
    <3> QED BY <1>a, <1>c, <1>1, <2>3, <3>1 DEF CreateRead
  <2> QED BY <1>1, <2>1, <2>2, <2>3 DEF CreateRead
<1>2. ASSUME NEW r \in Requests, CreateCommit(r)
      PROVE  /\ rows' \in [Tasks -> Row]
             /\ born' \in [Tasks -> Nat]
             /\ request' \in [Requests -> RequestState]
  <2>1. PICK t \in Tasks :
           /\ ~Exists(t)
           /\ rows' = [Released(r) EXCEPT ![t] = NewRow(request[r].key)]
           /\ born' = [born EXCEPT ![t] = Cardinality({u \in Tasks : Exists(u)})]
    BY <1>2 DEF CreateCommit
  <2>2. Released(r) \in [Tasks -> Row]
    BY <1>a DEF Released, Row
  <2>3. NewRow(request[r].key) \in Row
    BY <1>a, NewRowType DEF RequestState
  <2>4. Cardinality({u \in Tasks : Exists(u)}) \in Nat
    BY FS_Subset, FS_CardinalityType
  <2> QED BY <1>a, <1>c, <1>2, <2>1, <2>2, <2>3, <2>4, IdleTypes DEF CreateCommit, Answer
<1>3. ASSUME NEW r \in Requests, CreateConflict(r) \/ CreateReread(r)
      PROVE  request' \in [Requests -> RequestState]
  BY <1>3, <1>a, IdleTypes DEF CreateConflict, CreateReread, Answer, RequestState, RequestPc
<1>4. ASSUME NEW r \in Requests, NEW op \in Controls, NEW t \in Tasks, ControlRead(r, op, t)
      PROVE  request' \in [Requests -> RequestState] /\ calls' \in 0..MaxCalls
  BY <1>4, <1>a, <1>c DEF ControlRead, RequestState, RequestPc
<1>5. ASSUME NEW r \in Requests, ControlCommit(r)
      PROVE  /\ rows' \in [Tasks -> Row]
             /\ request' \in [Requests -> RequestState]
             /\ wake' \in BOOLEAN
  <2> DEFINE t == request[r].task
             loaded == request[r].loaded
  <2>1. /\ rows' = [rows EXCEPT ![t] = Flush(rows[t], loaded, Assigned(request[r].op, loaded))]
        /\ request' = [request EXCEPT ![r] = IdleRequest]
    BY <1>5 DEF ControlCommit, Answer
  <2>2. ASSUME t \in Tasks
        PROVE  Flush(rows[t], loaded, Assigned(request[r].op, loaded)) \in Row
    <3>1. loaded \in Row /\ request[r].op \in {"pause", "resume", "cancel"}
      BY <1>a DEF RequestState
    <3>2. Assigned(request[r].op, loaded) \in Row
      BY <3>1, AssignedType
    <3> QED BY <1>a, <2>2, <3>1, <3>2, FlushType
  <2>3. rows' \in [Tasks -> Row]
    BY <1>a, <2>1, <2>2
  <2>4. request' \in [Requests -> RequestState]
    BY <1>a, <2>1, IdleTypes
  <2> QED BY <1>5, <2>3, <2>4 DEF ControlCommit
<1>6. ASSUME NEW l \in Lanes, ClaimRead(l)
      PROVE  lane' \in [Lanes -> LaneState]
  <2>1. CASE lane' = [lane EXCEPT ![l].pc = "waiting"]
    BY <2>1, <1>a, LanePcUpdate DEF LanePc
  <2>2. ASSUME NEW t \in Claimable(l),
               lane' = [lane EXCEPT ![l] = [IdleLane EXCEPT
                           !.pc = "claiming", !.task = t, !.loaded = rows[t]]]
        PROVE  lane' \in [Lanes -> LaneState]
    <3>1. t \in Tasks /\ rows[t] \in Row /\ "claiming" \in LanePc
      BY <1>a DEF Claimable, LanePc
    <3>2. [IdleLane EXCEPT !.pc = "claiming", !.task = t, !.loaded = rows[t]] \in LaneState
      BY <3>1, IdleTypes, LaneClaimUpdate
    <3> QED BY <2>2, <3>2, <1>a
  <2> QED BY <1>6, <2>1, <2>2 DEF ClaimRead
<1>7. ASSUME NEW l \in Lanes, ClaimCommit(l)
      PROVE  rows' \in [Tasks -> Row] /\ lane' \in [Lanes -> LaneState]
  <2>1. lane[l].loaded \in Row /\ [lane[l].loaded EXCEPT !.status = "running"] \in Row
    BY <1>a, RowStatusUpdate DEF LaneState, TaskStatus
  <2>2. rows' \in [Tasks -> Row]
    BY <1>7, <1>a, <2>1, FlushType DEF ClaimCommit
  <2>3. [lane[l] EXCEPT !.pc = "executing"] \in LaneState
    BY <1>a, LanePcUpdate DEF LanePc
  <2> QED BY <1>7, <1>a, <2>2, <2>3 DEF ClaimCommit
<1>8. ASSUME NEW l \in Lanes, WaitWoken(l) \/ WaitTimesOut(l)
      PROVE  wake' \in BOOLEAN /\ lane' \in [Lanes -> LaneState]
  <2>1. [lane[l] EXCEPT !.pc = "idle"] \in LaneState
    BY <1>a, LanePcUpdate DEF LanePc
  <2> QED BY <1>8, <1>a, <2>1 DEF WaitWoken, WaitTimesOut
<1>9. ASSUME NEW l \in Lanes, HandlerEnds(l)
      PROVE  lane' \in [Lanes -> LaneState]
  <2>1. PICK outcome \in {"succeeded", "failed", CheckControl(rows[lane[l].task])} \ {"continue"} :
           lane' = [lane EXCEPT ![l] = [lane[l] EXCEPT !.pc = "finishing", !.target = outcome]]
    BY <1>9 DEF HandlerEnds
  <2>2. outcome \in TaskStatus
    BY DEF CheckControl, TaskStatus
  <2>3. [lane[l] EXCEPT !.pc = "finishing", !.target = outcome] \in LaneState
    BY <1>a, <2>2, LaneTargetUpdate DEF LanePc
  <2> QED BY <1>a, <2>1, <2>3
<1>10. ASSUME NEW l \in Lanes, FinishRead(l)
       PROVE  lane' \in [Lanes -> LaneState]
  <2>1. CASE rows[lane[l].task].status = "absent"
    BY <1>10, <2>1, <1>a, IdleTypes DEF FinishRead
  <2>2. CASE /\ rows[lane[l].task].status # "absent"
             /\ ~MayTransition(rows[lane[l].task].status, lane[l].target)
    BY <1>10, <2>2, <1>a, IdleTypes DEF FinishRead, LaneState, LanePc
  <2>3. CASE /\ rows[lane[l].task].status # "absent"
             /\ MayTransition(rows[lane[l].task].status, lane[l].target)
    <3>1. lane' = [lane EXCEPT ![l] =
                     [lane[l] EXCEPT !.pc = "committing", !.loaded = rows[lane[l].task]]]
      BY <1>10, <2>3 DEF FinishRead
    <3>2. lane[l].task \in Tasks
      BY <1>10 DEF SessionInv, FinishRead, Holding
    <3> QED BY <3>1, <3>2, <1>a, LaneLoadedUpdate DEF LanePc
  <2> QED BY <2>1, <2>2, <2>3
<1>11. ASSUME NEW l \in Lanes, FinishCommit(l)
       PROVE  rows' \in [Tasks -> Row] /\ lane' \in [Lanes -> LaneState]
  <2> DEFINE new == [lane[l].loaded EXCEPT
                        !.status = lane[l].target,
                        !.result_json = IF lane[l].target = "succeeded" THEN "result" ELSE "empty"]
  <2>1. lane[l].loaded \in Row /\ new \in Row
    BY <1>a, RowFinishUpdate DEF LaneState, ResultJson
  <2>2. rows' \in [Tasks -> Row]
    BY <1>11, <1>a, <2>1, FlushType DEF FinishCommit
  <2> QED BY <1>11, <1>a, <2>2, IdleTypes DEF FinishCommit
<1>12. ASSUME Stop \/ ProcessEnds
       PROVE  /\ lane' \in [Lanes -> LaneState]
              /\ request' \in [Requests -> RequestState]
              /\ wake' \in BOOLEAN /\ stopping' \in BOOLEAN /\ up' \in BOOLEAN
              /\ restarts' \in 0..MaxRestarts
  <2>1. CASE Stop
    BY <2>1, <1>a, <1>c DEF Stop
  <2>2. CASE ProcessEnds
    <3>1. restarts' \in 0..MaxRestarts
      BY <2>2, <1>c DEF ProcessEnds
    <3>2. wake' \in BOOLEAN /\ stopping' \in BOOLEAN /\ up' \in BOOLEAN
      BY <2>2 DEF ProcessEnds
    <3> QED BY <2>2, <3>1, <3>2, IdleTypes DEF ProcessEnds
  <2> QED BY <1>12, <2>1, <2>2
<1>13. ASSUME Start
       PROVE  up' \in BOOLEAN /\ rows' \in [Tasks -> Row]
  <2>1. \A t \in Tasks : recover_interrupted(rows[t]) \in Row
    BY <1>a, RecoveredRowType
  <2>2. up' \in BOOLEAN
    BY <1>13 DEF Start
  <2> QED BY <1>13, <2>1, <2>2 DEF Start
<1>14. QED
  <2>1. CASE \E r \in Requests : RequestStep(r)
    <3> PICK r \in Requests : RequestStep(r) BY <2>1
    <3>1. CASE \E key \in Keys \cup {NoKey} : CreateRead(r, key)
      BY <3>1, <1>1, <1>a, <1>c DEF CreateRead
    <3>2. CASE CreateCommit(r)
      BY <3>2, <1>2, <1>a, <1>c DEF CreateCommit
    <3>3. CASE CreateConflict(r) \/ CreateReread(r)
      BY <3>3, <1>3, <1>a, <1>c DEF CreateConflict, CreateReread
    <3>4. CASE \E op \in Controls, t \in Tasks : ControlRead(r, op, t)
      BY <3>4, <1>4, <1>a, <1>c DEF ControlRead
    <3>5. CASE ControlCommit(r)
      BY <3>5, <1>5, <1>a, <1>c DEF ControlCommit
    <3> QED BY <3>1, <3>2, <3>3, <3>4, <3>5 DEF RequestStep
  <2>2. CASE \E l \in Lanes : LaneStep(l)
    <3> PICK l \in Lanes : LaneStep(l) BY <2>2
    <3>1. CASE ClaimRead(l)
      BY <3>1, <1>6, <1>a, <1>c DEF ClaimRead
    <3>2. CASE ClaimCommit(l)
      BY <3>2, <1>7, <1>a, <1>c DEF ClaimCommit
    <3>3. CASE WaitWoken(l) \/ WaitTimesOut(l)
      BY <3>3, <1>8, <1>a, <1>c DEF WaitWoken, WaitTimesOut
    <3>4. CASE HandlerEnds(l)
      BY <3>4, <1>9, <1>a, <1>c DEF HandlerEnds
    <3>5. CASE FinishRead(l)
      BY <3>5, <1>10, <1>a, <1>c DEF FinishRead
    <3>6. CASE FinishCommit(l)
      BY <3>6, <1>11, <1>a, <1>c DEF FinishCommit
    <3> QED BY <3>1, <3>2, <3>3, <3>4, <3>5, <3>6 DEF LaneStep
  <2>3. CASE Stop \/ ProcessEnds
    BY <2>3, <1>12, <1>a, <1>c DEF Stop, ProcessEnds
  <2>4. CASE Start
    BY <2>4, <1>13, <1>a, <1>c DEF Start
  <2> QED BY <1>b, <2>1, <2>2, <2>3, <2>4 DEF Next

-----------------------------------------------------------------------------
(* A step keeps what the open sessions remember.                           *)
LEMMA SessionStep == TypeOK /\ SessionInv /\ [Next]_vars => SessionInv'
<1> USE TaskEngineAssumption
<1> SUFFICES ASSUME TypeOK, SessionInv, [Next]_vars PROVE SessionInv'
  OBVIOUS
<1> DEFINE LaneInv(x, l, u) ==
             /\ x.pc \in {"claiming"} \cup Holding => x.task \in Tasks /\ LaneOf[x.task] = l
             /\ x.pc = "claiming" => x.loaded.status = "queued"
             /\ x.pc \in {"finishing", "committing"} =>
                   x.target \in {"succeeded", "failed", "paused", "cancelled"}
             /\ x.pc = "committing" =>
                   /\ x.loaded.status \in TaskStatus
                   /\ MayTransition(x.loaded.status, x.target)
             /\ ~u => x.pc = "idle"
           RequestInv(x) ==
             x.pc = "controlling" =>
               /\ x.task \in Tasks
               /\ x.loaded.status \in TaskStatus
               /\ Accepts(x.op, x.loaded)
<1>a. /\ \A l \in Lanes : LaneInv(lane[l], l, up)
      /\ \A r \in Requests : RequestInv(request[r])
  BY DEF SessionInv
<1>b. SUFFICES ASSUME Next
               PROVE  /\ \A l \in Lanes : LaneInv(lane'[l], l, up')
                      /\ \A r \in Requests : RequestInv(request'[r])
  BY <1>a DEF SessionInv, vars
<1>c. /\ rows \in [Tasks -> Row]
      /\ lane \in [Lanes -> LaneState]
      /\ request \in [Requests -> RequestState]
  BY DEF TypeOK
<1>d. /\ \A l \in Lanes, u \in BOOLEAN : LaneInv(IdleLane, l, u)
      /\ RequestInv(IdleRequest)
  BY DEF IdleLane, IdleRequest, Holding
<1>1. ASSUME NEW r \in Requests, RequestStep(r)
      PROVE  RequestInv(request'[r]) /\ (\A q \in Requests \ {r} : request'[q] = request[q])
             /\ lane' = lane /\ up' = up
  <2>1. CASE \E key \in Keys \cup {NoKey} : CreateRead(r, key)
    <3>1. lane' = lane /\ up' = up
      BY <2>1 DEF CreateRead
    <3>2. request'[r].pc # "controlling" /\ (\A q \in Requests \ {r} : request'[q] = request[q])
      <4>0. PICK key \in Keys \cup {NoKey} : CreateRead(r, key)
        BY <2>1
      <4>1. CASE Answer(r)
        BY <4>1, <1>c DEF Answer, IdleRequest
      <4>2. CASE \E t \in WithKey(key) : request' = [request EXCEPT ![r] =
                      [pc |-> "creating", task |-> t, loaded |-> rows[t],
                       op |-> "pause", key |-> key]]
        BY <4>2, <1>c
      <4>3. CASE request' = [request EXCEPT ![r] =
                      [IdleRequest EXCEPT !.pc = "creating", !.key = key]]
        BY <4>3, <1>c DEF IdleRequest
      <4> QED BY <4>0, <4>1, <4>2, <4>3 DEF CreateRead
    <3> QED BY <3>1, <3>2, <1>c
  <2>2. CASE CreateCommit(r) \/ CreateReread(r) \/ ControlCommit(r)
    BY <2>2, <1>c, <1>d DEF CreateCommit, CreateReread, ControlCommit, Answer
  <2>3. CASE CreateConflict(r)
    BY <2>3, <1>c DEF CreateConflict, RequestState
  <2>4. CASE \E op \in Controls, t \in Tasks : ControlRead(r, op, t)
    BY <2>4, <1>c DEF ControlRead, Exists, Row
  <2> QED BY <1>1, <2>1, <2>2, <2>3, <2>4 DEF RequestStep
<1>2. ASSUME NEW l \in Lanes, LaneStep(l)
      PROVE  LaneInv(lane'[l], l, up') /\ (\A m \in Lanes \ {l} : lane'[m] = lane[m])
             /\ request' = request /\ up' = up
  <2>0. up /\ up' = up /\ request' = request
    BY <1>2 DEF LaneStep, ClaimRead, ClaimCommit, WaitWoken, WaitTimesOut, HandlerEnds,
                FinishRead, FinishCommit
  <2>1. CASE ClaimRead(l)
    <3>1. CASE lane' = [lane EXCEPT ![l].pc = "waiting"]
      BY <2>0, <3>1, <1>c DEF LaneState, Holding
    <3>2. ASSUME NEW t \in Claimable(l),
                 lane' = [lane EXCEPT ![l] = [IdleLane EXCEPT
                             !.pc = "claiming", !.task = t, !.loaded = rows[t]]]
          PROVE  LaneInv(lane'[l], l, up') /\ (\A m \in Lanes \ {l} : lane'[m] = lane[m])
      BY <2>0, <3>2, <1>c DEF Claimable, IdleLane, Holding
    <3> QED BY <2>0, <2>1, <3>1, <3>2 DEF ClaimRead
  <2>2. CASE ClaimCommit(l)
    BY <2>0, <2>2, <1>a, <1>c DEF ClaimCommit, LaneState, Holding
  <2>3. CASE WaitWoken(l) \/ WaitTimesOut(l)
    BY <2>0, <2>3, <1>c DEF WaitWoken, WaitTimesOut, LaneState, Holding
  <2>4. CASE HandlerEnds(l)
    <3>1. PICK outcome \in {"succeeded", "failed", CheckControl(rows[lane[l].task])} \ {"continue"} :
             lane' = [lane EXCEPT ![l] = [lane[l] EXCEPT !.pc = "finishing", !.target = outcome]]
      BY <2>4 DEF HandlerEnds
    <3>2. outcome \in {"succeeded", "failed", "paused", "cancelled"}
      BY DEF CheckControl
    <3>3. lane[l].pc = "executing"
      BY <2>4 DEF HandlerEnds
    <3> QED BY <2>0, <3>1, <3>2, <3>3, <1>a, <1>c DEF LaneState, Holding
  <2>5. CASE FinishRead(l)
    <3> DEFINE row == rows[lane[l].task]
    <3>1. lane[l].pc = "finishing" /\ lane[l].task \in Tasks /\ row \in Row
      BY <2>5, <1>a, <1>c DEF FinishRead, Holding
    <3>2. CASE row.status = "absent"
      BY <2>0, <2>5, <3>2, <1>c, <1>d DEF FinishRead
    <3>3. CASE row.status # "absent" /\ MayTransition(row.status, lane[l].target)
      <4>1. lane' = [lane EXCEPT ![l] = [lane[l] EXCEPT !.pc = "committing", !.loaded = row]]
        BY <2>5, <3>3 DEF FinishRead
      <4>2. row.status \in TaskStatus
        BY <3>1, <3>3 DEF Row
      <4> QED BY <2>0, <3>1, <3>3, <4>1, <4>2, <1>a, <1>c DEF LaneState, Holding
    <3>4. CASE row.status # "absent" /\ ~MayTransition(row.status, lane[l].target)
      BY <2>0, <2>5, <3>4, <1>c DEF FinishRead, IdleLane, Holding
    <3> QED BY <3>2, <3>3, <3>4
  <2>6. CASE FinishCommit(l)
    BY <2>0, <2>6, <1>c, <1>d DEF FinishCommit
  <2> QED BY <1>2, <2>1, <2>2, <2>3, <2>4, <2>5, <2>6 DEF LaneStep
<1>3. CASE Stop
  BY <1>3, <1>a DEF Stop
<1>4. CASE ProcessEnds
  BY <1>4, <1>d DEF ProcessEnds, IdleLane, IdleRequest, Holding
<1>5. CASE Start
  BY <1>5, <1>a DEF Start
<1> QED BY <1>b, <1>a, <1>1, <1>2, <1>3, <1>4, <1>5 DEF Next

-----------------------------------------------------------------------------
(* No flush but a claim's writes running.                                  *)
LEMMA AssignedNotRunning ==
    ASSUME NEW row \in Row, NEW op \in {"pause", "resume", "cancel"}, NEW current \in Row,
           Flush(current, row, Assigned(op, row)).status = "running"
    PROVE  current.status = "running"
  BY DEF Flush, Column, Assigned, request_pause, resume, request_cancel, Row

(* A step keeps every running row in the hands of its lane.                *)
LEMMA HeldStep == IInv /\ [Next]_vars => RunningIsHeld'
<1> USE TaskEngineAssumption
<1> SUFFICES ASSUME TypeOK, SessionInv, RunningIsHeld, [Next]_vars,
                    NEW t \in Tasks, up', rows'[t].status = "running"
             PROVE  lane'[LaneOf[t]].task = t /\ lane'[LaneOf[t]].pc \in Holding
  BY DEF IInv, RunningIsHeld
<1>a. /\ rows \in [Tasks -> Row]
      /\ lane \in [Lanes -> LaneState]
      /\ request \in [Requests -> RequestState]
  BY DEF TypeOK
<1>b. up /\ rows[t].status = "running" =>
         lane[LaneOf[t]].task = t /\ lane[LaneOf[t]].pc \in Holding
  BY DEF RunningIsHeld
<1>c. LaneOf[t] \in Lanes
  OBVIOUS
<1>1. CASE UNCHANGED vars
  BY <1>1, <1>b DEF vars
<1>2. ASSUME NEW r \in Requests, RequestStep(r)
      PROVE  rows[t].status = "running" /\ up /\ lane' = lane
  <2>1. CASE \/ \E key \in Keys \cup {NoKey} : CreateRead(r, key)
             \/ CreateConflict(r) \/ CreateReread(r)
             \/ \E op \in Controls, u \in Tasks : ControlRead(r, op, u)
    BY <2>1 DEF CreateRead, CreateConflict, CreateReread, ControlRead
  <2>2. CASE CreateCommit(r)
    <3>1. PICK u \in Tasks : rows' = [Released(r) EXCEPT ![u] = NewRow(request[r].key)]
      BY <2>2 DEF CreateCommit
    <3>2. NewRow(request[r].key).status = "queued"
      BY DEF NewRow, AbsentRow
    <3>3. t # u /\ rows'[t] = Released(r)[t]
      BY <3>1, <3>2, <1>a DEF Released
    <3>4. Released(r)[t].status = rows[t].status
      BY <1>a DEF Released, Row
    <3> QED BY <2>2, <3>3, <3>4 DEF CreateCommit
  <2>3. CASE ControlCommit(r)
    <3>1. request[r].loaded \in Row /\ request[r].op \in {"pause", "resume", "cancel"}
      BY <1>a DEF RequestState
    <3>2. rows[t].status = "running"
      BY <2>3, <3>1, <1>a, AssignedNotRunning DEF ControlCommit
    <3> QED BY <2>3, <3>2 DEF ControlCommit
  <2> QED BY <1>2, <2>1, <2>2, <2>3 DEF RequestStep
<1>3. ASSUME NEW l \in Lanes, LaneStep(l)
      PROVE  lane'[LaneOf[t]].task = t /\ lane'[LaneOf[t]].pc \in Holding
  <2>0. up
    BY <1>3 DEF LaneStep, ClaimRead, ClaimCommit, WaitWoken, WaitTimesOut, HandlerEnds,
                FinishRead, FinishCommit
  <2>1. CASE ClaimRead(l) \/ WaitWoken(l) \/ WaitTimesOut(l)
    <3>1. rows' = rows /\ lane[l].pc \notin Holding
          /\ (\A m \in Lanes \ {l} : lane'[m] = lane[m])
      BY <2>1, <1>a DEF ClaimRead, WaitWoken, WaitTimesOut, Holding
    <3> QED BY <2>0, <3>1, <1>b, <1>c
  <2>2. CASE ClaimCommit(l)
    <3>1. lane[l].pc = "claiming" /\ lane[l].task \in Tasks /\ LaneOf[lane[l].task] = l
      BY <2>2 DEF ClaimCommit, SessionInv
    <3>2. lane' = [lane EXCEPT ![l].pc = "executing"]
          /\ (\A u \in Tasks \ {lane[l].task} : rows'[u] = rows[u])
      BY <2>2, <1>a DEF ClaimCommit
    <3>3. CASE t = lane[l].task
      BY <3>1, <3>2, <3>3, <1>a DEF LaneState, Holding
    <3>4. CASE t # lane[l].task
      BY <2>0, <3>1, <3>2, <3>4, <1>a, <1>b, <1>c DEF Holding
    <3> QED BY <3>3, <3>4
  <2>3. CASE HandlerEnds(l)
    <3>1. PICK outcome :
             lane' = [lane EXCEPT ![l] = [lane[l] EXCEPT !.pc = "finishing", !.target = outcome]]
      BY <2>3 DEF HandlerEnds
    <3> QED BY <2>0, <2>3, <3>1, <1>a, <1>b, <1>c DEF HandlerEnds, LaneState, Holding
  <2>4. CASE FinishRead(l)
    <3>1. rows' = rows /\ lane[l].pc = "finishing" /\ lane[l].task \in Tasks
          /\ lane[l].target \in {"succeeded", "failed", "paused", "cancelled"}
      BY <2>4 DEF FinishRead, SessionInv, Holding
    <3>2. CASE LaneOf[t] # l
      BY <2>0, <2>4, <3>1, <3>2, <1>a, <1>b, <1>c DEF FinishRead
    <3>3. CASE LaneOf[t] = l
      <4>1. lane[l].task = t
        BY <2>0, <3>1, <3>3, <1>b
      <4>2. rows[t].status # "absent" /\ MayTransition(rows[t].status, lane[l].target)
        BY <3>1, <4>1 DEF MayTransition, ALLOWED_TRANSITIONS
      <4>3. lane' = [lane EXCEPT ![l] = [lane[l] EXCEPT !.pc = "committing", !.loaded = rows[t]]]
        BY <2>4, <4>1, <4>2 DEF FinishRead
      <4> QED BY <3>3, <4>1, <4>3, <1>a DEF LaneState, Holding
    <3> QED BY <3>2, <3>3
  <2>5. CASE FinishCommit(l)
    <3>1. /\ lane[l].pc = "committing" /\ lane[l].task \in Tasks
          /\ lane[l].target \in {"succeeded", "failed", "paused", "cancelled"}
          /\ lane[l].loaded.status \in TaskStatus
          /\ MayTransition(lane[l].loaded.status, lane[l].target)
      BY <2>5 DEF FinishCommit, SessionInv, Holding
    <3>2. lane[l].target # lane[l].loaded.status
      BY <3>1 DEF MayTransition, ALLOWED_TRANSITIONS, TaskStatus
    <3>3. rows'[lane[l].task].status = lane[l].target
      <4>1. lane[l].loaded \in Row
        BY <1>a DEF LaneState
      <4> QED BY <2>5, <3>1, <3>2, <4>1, <1>a DEF FinishCommit, Flush, Column, Row
    <3>4. t # lane[l].task /\ rows'[t] = rows[t]
      BY <2>5, <3>1, <3>3, <1>a DEF FinishCommit
    <3>5. LaneOf[t] # l
      BY <2>0, <3>4, <1>b
    <3> QED BY <2>0, <2>5, <3>4, <3>5, <1>a, <1>b, <1>c DEF FinishCommit
  <2> QED BY <1>3, <2>1, <2>2, <2>3, <2>4, <2>5 DEF LaneStep
<1>4. CASE Stop
  BY <1>4, <1>b DEF Stop
<1>5. CASE ProcessEnds
  BY <1>5 DEF ProcessEnds
<1>6. CASE Start
  BY <1>6, <1>a DEF Start, recover_interrupted, Row
<1> QED BY <1>b, <1>1, <1>2, <1>3, <1>4, <1>5, <1>6 DEF Next

(* The inductive invariant holds in every reachable state.                 *)
LEMMA Inductive == Spec => []IInv
<1>1. Init => SessionInv /\ RunningIsHeld
  <2> SUFFICES ASSUME Init PROVE SessionInv /\ RunningIsHeld
    OBVIOUS
  <2>1. SessionInv
    BY DEF Init, SessionInv, IdleLane, IdleRequest, Holding
  <2>2. RunningIsHeld
    BY DEF Init, RunningIsHeld, AbsentRow
  <2> QED BY <2>1, <2>2
<1>2. Init => IInv
  BY <1>1, InitType DEF IInv
<1>3. IInv /\ [Next]_vars => IInv'
  BY TypeStep, SessionStep, HeldStep DEF IInv
<1> QED BY <1>2, <1>3, PTL DEF Spec

(***************************************************************************)
(* Type correctness: whatever the threads interleave to, every row keeps a *)
(* status of the tasks table's CHECK constraint and every thread refers to *)
(* a row that exists.                                                      *)
(***************************************************************************)
THEOREM TypeCorrect == Spec => []TypeOK
<1>1. IInv => TypeOK
  BY DEF IInv
<1> QED BY <1>1, Inductive, PTL

(***************************************************************************)
(* No stranded task: in every reachable state of a serving manager a row   *)
(* with status running is in the hands of the worker thread of its lane,   *)
(* for any number of lanes, tasks, concurrent control requests and         *)
(* restarts.                                                               *)
(***************************************************************************)
THEOREM RunningHeld == Spec => []RunningIsHeld
<1>1. IInv => RunningIsHeld
  BY DEF IInv
<1> QED BY <1>1, Inductive, PTL

-----------------------------------------------------------------------------
(***************************************************************************)
(* A control operation that saw the current status writes a documented     *)
(* one, except for resume on a running row.                                *)
(***************************************************************************)
LEMMA ControlDocumented ==
    ASSUME NEW row \in Row, NEW loaded \in Row, NEW op \in {"pause", "resume", "cancel"},
           loaded.status \in TaskStatus, Accepts(op, loaded), loaded.status = row.status
    PROVE  \/ Documented(row.status, Flush(row, loaded, Assigned(op, loaded)).status)
           \/ op = "resume" /\ row.status = "running"
<1>1. CASE op = "pause"
  BY <1>1 DEF Accepts, Assigned, request_pause, Flush, Column, Documented, Row
<1>2. CASE op = "resume"
  <2>1. loaded.status \in {"running", "paused", "failed", "cancelled"}
    BY <1>2 DEF Accepts, MayTransition, ALLOWED_TRANSITIONS, TaskStatus
  <2>2. Assigned(op, loaded).status = "queued"
    BY <1>2 DEF Assigned, resume, Row
  <2> QED BY <1>2, <2>1, <2>2 DEF Flush, Column, Documented
<1>3. CASE op = "cancel"
  BY <1>3 DEF Accepts, Assigned, request_cancel, Flush, Column, Documented, Row
<1> QED BY <1>1, <1>2, <1>3

(* An outcome transition_task allows a loaded row is a documented change.  *)
LEMMA OutcomeDocumented ==
    ASSUME NEW from \in TaskStatus, NEW to \in {"succeeded", "failed", "paused", "cancelled"},
           MayTransition(from, to)
    PROVE  Documented(from, to)
  BY DEF MayTransition, ALLOWED_TRANSITIONS, TaskStatus, Documented

(* Every step's status changes are documented, raced or resume's own.      *)
LEMMA DocumentedStep ==
    ASSUME IInv, [Next]_vars, NEW t \in Tasks
    PROVE  Documented(rows[t].status, rows'[t].status) \/ Stale(t) \/ ResumesRunning(t)
<1>1. /\ rows \in [Tasks -> Row] /\ lane \in [Lanes -> LaneState]
      /\ request \in [Requests -> RequestState] /\ SessionInv
  BY DEF IInv, TypeOK
<1>2. rows'[t].status = rows[t].status => Documented(rows[t].status, rows'[t].status)
  BY DEF Documented
<1>3. ASSUME NEW r \in Requests, CreateCommit(r)
      PROVE  Documented(rows[t].status, rows'[t].status)
  <2>1. PICK u \in Tasks : ~Exists(u) /\ rows' = [Released(r) EXCEPT ![u] = NewRow(request[r].key)]
    BY <1>3 DEF CreateCommit
  <2>2. CASE t = u
    BY <2>1, <2>2 DEF Released, NewRow, AbsentRow, Exists, Documented
  <2>3. CASE t # u
    <3>1. rows'[t] = rows[t] \/ rows'[t] = [rows[t] EXCEPT !.idempotency_key = NoKey]
      BY <2>1, <2>3 DEF Released
    <3> QED BY <1>1, <1>2, <3>1 DEF Row
  <2> QED BY <2>2, <2>3
<1>4. ASSUME NEW r \in Requests, ControlCommit(r)
      PROVE  Documented(rows[t].status, rows'[t].status) \/ Stale(t) \/ ResumesRunning(t)
  <2> DEFINE loaded == request[r].loaded
             op == request[r].op
  <2>1. CASE request[r].task # t
    BY <1>1, <1>2, <1>4, <2>1 DEF ControlCommit
  <2>2. CASE request[r].task = t
    <3>1. /\ request[r].pc = "controlling"
          /\ rows'[t] = Flush(rows[t], loaded, Assigned(op, loaded))
          /\ Commits(r, t)
      BY <1>1, <1>4, <2>2 DEF ControlCommit, Answer, IdleRequest, Commits
    <3>2. /\ loaded \in Row /\ op \in {"pause", "resume", "cancel"}
          /\ loaded.status \in TaskStatus /\ Accepts(op, loaded)
      BY <1>1, <3>1 DEF SessionInv, RequestState
    <3>3. CASE loaded.status # rows[t].status
      BY <2>2, <3>1, <3>3 DEF Stale
    <3>4. CASE loaded.status = rows[t].status
      <4>1. \/ Documented(rows[t].status, rows'[t].status)
            \/ op = "resume" /\ rows[t].status = "running"
        <5> rows[t] \in Row
          BY <1>1
        <5> HIDE DEF loaded, op
        <5> QED BY <3>1, <3>2, <3>4, ControlDocumented
      <4> QED BY <2>2, <3>1, <4>1 DEF ResumesRunning
    <3> QED BY <3>3, <3>4
  <2> QED BY <2>1, <2>2
<1>5. ASSUME NEW l \in Lanes, ClaimCommit(l)
      PROVE  Documented(rows[t].status, rows'[t].status) \/ Stale(t)
  <2>1. CASE lane[l].task # t
    BY <1>1, <1>2, <1>5, <2>1 DEF ClaimCommit
  <2>2. CASE lane[l].task = t /\ lane[l].loaded.status = rows[t].status
    <3>1. lane[l].loaded.status = "queued" /\ lane[l].loaded \in Row
      BY <1>1, <1>5 DEF ClaimCommit, SessionInv, LaneState
    <3>2. rows'[t].status = "running"
      BY <1>1, <1>5, <2>2, <3>1 DEF ClaimCommit, Flush, Column, Row
    <3> QED BY <2>2, <3>1, <3>2 DEF Documented
  <2>3. CASE lane[l].task = t /\ lane[l].loaded.status # rows[t].status
    <3>1. LaneCommits(l, t)
      BY <1>1, <1>5, <2>3 DEF ClaimCommit, LaneCommits, LaneState
    <3> QED BY <2>3, <3>1 DEF Stale
  <2> QED BY <2>1, <2>2, <2>3
<1>6. ASSUME NEW l \in Lanes, FinishCommit(l)
      PROVE  Documented(rows[t].status, rows'[t].status) \/ Stale(t)
  <2>1. CASE lane[l].task # t
    BY <1>1, <1>2, <1>6, <2>1 DEF FinishCommit
  <2>2. CASE lane[l].task = t /\ lane[l].loaded.status = rows[t].status
    <3>1. /\ lane[l].loaded.status \in TaskStatus /\ lane[l].loaded \in Row
          /\ lane[l].target \in {"succeeded", "failed", "paused", "cancelled"}
          /\ MayTransition(lane[l].loaded.status, lane[l].target)
      BY <1>1, <1>6 DEF FinishCommit, SessionInv, LaneState
    <3>2. rows'[t].status = lane[l].target
      BY <1>1, <1>6, <2>2, <3>1 DEF FinishCommit, Flush, Column, Row
    <3> QED BY <2>2, <3>1, <3>2, OutcomeDocumented
  <2>3. CASE lane[l].task = t /\ lane[l].loaded.status # rows[t].status
    <3>1. LaneCommits(l, t)
      BY <1>1, <1>6, <2>3 DEF FinishCommit, LaneCommits, LaneState, IdleLane
    <3> QED BY <2>3, <3>1 DEF Stale
  <2> QED BY <2>1, <2>2, <2>3
<1>7. CASE Start
  BY <1>1, <1>7 DEF Start, recover_interrupted, Documented, Row
<1>8. ASSUME NEW r \in Requests,
             (\E key \in Keys \cup {NoKey} : CreateRead(r, key)) \/ CreateConflict(r)
             \/ CreateReread(r) \/ (\E op \in Controls, u \in Tasks : ControlRead(r, op, u))
      PROVE  rows' = rows
  BY <1>8 DEF CreateRead, CreateConflict, CreateReread, ControlRead
<1>9. ASSUME NEW l \in Lanes, ClaimRead(l) \/ WaitWoken(l) \/ WaitTimesOut(l)
             \/ HandlerEnds(l) \/ FinishRead(l)
      PROVE  rows' = rows
  BY <1>9 DEF ClaimRead, WaitWoken, WaitTimesOut, HandlerEnds, FinishRead
<1>10. Stop \/ ProcessEnds \/ UNCHANGED vars => rows' = rows
  BY DEF Stop, ProcessEnds, vars
<1> QED BY <1>2, <1>3, <1>4, <1>5, <1>6, <1>7, <1>8, <1>9, <1>10
        DEF Next, RequestStep, LaneStep

(***************************************************************************)
(* The status table of engine.py is broken only by a lost update between a *)
(* session's SELECT and its UPDATE, or by resume on a running task, for    *)
(* any number of tasks, lanes, requests and restarts.                      *)
(***************************************************************************)
THEOREM OnlyRacesLeaveTheTable == Spec => UndocumentedOnlyByRace
<1>1. IInv /\ [Next]_vars =>
        [\A t \in Tasks : Documented(rows[t].status, rows[t].status')
                           \/ Stale(t) \/ ResumesRunning(t)]_vars
  BY DocumentedStep
<1> QED BY <1>1, Inductive, PTL DEF Spec, UndocumentedOnlyByRace

(* A control request that loaded a running row leaves its status alone,    *)
(* unless it is a resume.                                                  *)
LEMMA ControlKeepsRunning ==
    ASSUME NEW row \in Row, NEW loaded \in Row, NEW op \in {"pause", "cancel"},
           loaded.status = "running", row.status = "running"
    PROVE  Flush(row, loaded, Assigned(op, loaded)).status = "running"
  BY DEF Flush, Column, Assigned, request_pause, request_cancel, Row

(* While a lane runs a task its row is left running by every other thread, *)
(* a control session that overtook the claim and a resume excepted.        *)
LEMMA HandlerKeepsRunning ==
    ASSUME IInv, [Next]_vars, NEW l \in Lanes, NEW t \in Tasks, t = lane[l].task,
           lane[l].pc \in {"executing", "finishing"}, rows[t].status = "running"
    PROVE  \/ rows'[t].status = "running"
           \/ \E r \in Requests :
                /\ Commits(r, t)
                /\ request[r].loaded.status # "running" \/ request[r].op = "resume"
<1>1. /\ rows \in [Tasks -> Row] /\ lane \in [Lanes -> LaneState]
      /\ request \in [Requests -> RequestState] /\ SessionInv /\ rows[t] \in Row
  BY DEF IInv, TypeOK
<1>2. LaneOf[t] = l /\ up
  BY <1>1 DEF SessionInv, Holding
<1>3. ASSUME NEW r \in Requests, CreateCommit(r)
      PROVE  rows'[t].status = "running"
  <2>1. PICK u \in Tasks : ~Exists(u) /\ rows' = [Released(r) EXCEPT ![u] = NewRow(request[r].key)]
    BY <1>3 DEF CreateCommit
  <2>2. t # u
    BY <2>1 DEF Exists
  <2>3. rows'[t] = rows[t] \/ rows'[t] = [rows[t] EXCEPT !.idempotency_key = NoKey]
    BY <2>1, <2>2 DEF Released
  <2> QED BY <1>1, <2>3 DEF Row
<1>4. ASSUME NEW r \in Requests, ControlCommit(r),
             ~ (/\ Commits(r, t)
                /\ request[r].loaded.status # "running" \/ request[r].op = "resume")
      PROVE  rows'[t].status = "running"
  <2>1. CASE request[r].task # t
    BY <1>1, <1>4, <2>1 DEF ControlCommit
  <2>2. CASE request[r].task = t
    <3>1. Commits(r, t)
      BY <1>1, <1>4, <2>2 DEF ControlCommit, Answer, IdleRequest, Commits
    <3>2. PICK op \in {"pause", "cancel"} : op = request[r].op
      BY <1>1, <1>4, <3>1 DEF RequestState
    <3>3. PICK loaded \in Row : loaded = request[r].loaded
      BY <1>1 DEF RequestState
    <3>4. rows'[t] = Flush(rows[t], loaded, Assigned(op, loaded))
      BY <1>1, <1>4, <2>2, <3>2, <3>3 DEF ControlCommit
    <3>5. loaded.status = "running"
      BY <1>4, <3>1, <3>3
    <3> QED BY <1>1, <3>4, <3>5, ControlKeepsRunning
  <2> QED BY <2>1, <2>2
<1>5. ASSUME NEW m \in Lanes, ClaimCommit(m) \/ FinishCommit(m)
      PROVE  rows'[t] = rows[t]
  <2>1. lane[m].pc \in {"claiming", "committing"} /\ lane[m].pc # lane[l].pc
    BY <1>5 DEF ClaimCommit, FinishCommit
  <2>2. LaneOf[lane[m].task] = m
    BY <1>1, <2>1 DEF SessionInv, Holding
  <2>3. lane[m].task # t
    BY <1>2, <2>1, <2>2
  <2> QED BY <1>1, <1>5, <2>3 DEF ClaimCommit, FinishCommit
<1>6. ~ Start
  BY <1>2 DEF Start
<1>7. ASSUME NEW r \in Requests,
             (\E key \in Keys \cup {NoKey} : CreateRead(r, key)) \/ CreateConflict(r)
             \/ CreateReread(r) \/ (\E op \in Controls, u \in Tasks : ControlRead(r, op, u))
      PROVE  rows' = rows
  BY <1>7 DEF CreateRead, CreateConflict, CreateReread, ControlRead
<1>8. ASSUME NEW m \in Lanes, ClaimRead(m) \/ WaitWoken(m) \/ WaitTimesOut(m)
             \/ HandlerEnds(m) \/ FinishRead(m)
      PROVE  rows' = rows
  BY <1>8 DEF ClaimRead, WaitWoken, WaitTimesOut, HandlerEnds, FinishRead
<1>9. Stop \/ ProcessEnds \/ UNCHANGED vars => rows' = rows
  BY DEF Stop, ProcessEnds, vars
<1> QED BY <1>3, <1>4, <1>5, <1>6, <1>7, <1>8, <1>9 DEF Next, RequestStep, LaneStep

(* How a thread changes its state: a claim makes its row running, and only *)
(* a row that is not running ends a thread.                                *)
LEMMA LaneMoves ==
    ASSUME IInv, [Next]_vars, NEW l \in Lanes
    PROVE  /\ lane[l].pc = "claiming" /\ lane'[l].pc = "executing" =>
                rows'[lane[l].task].status = "running"
           /\ lane[l].pc # "dead" /\ lane'[l].pc = "dead" =>
                rows[lane[l].task].status # "running"
<1>1. /\ rows \in [Tasks -> Row] /\ lane \in [Lanes -> LaneState] /\ SessionInv
      /\ lane[l] \in LaneState
  BY DEF IInv, TypeOK
<1> DEFINE Goal == /\ lane[l].pc = "claiming" /\ lane'[l].pc = "executing" =>
                         rows'[lane[l].task].status = "running"
                   /\ lane[l].pc # "dead" /\ lane'[l].pc = "dead" =>
                         rows[lane[l].task].status # "running"
<1>2. lane'[l].pc = lane[l].pc => Goal
  OBVIOUS
<1>3. ASSUME NEW m \in Lanes, m # l, LaneStep(m)
      PROVE  lane'[l] = lane[l]
  BY <1>1, <1>3 DEF LaneStep, ClaimRead, ClaimCommit, WaitWoken, WaitTimesOut, HandlerEnds,
                    FinishRead, FinishCommit
<1>4. CASE ClaimCommit(l)
  <2>1. /\ lane[l].task \in Tasks /\ lane[l].loaded.status = "queued"
        /\ lane[l].loaded \in Row
    BY <1>1, <1>4 DEF ClaimCommit, SessionInv, LaneState
  <2>2. rows'[lane[l].task].status = "running" /\ lane'[l].pc = "executing"
    BY <1>1, <1>4, <2>1 DEF ClaimCommit, Flush, Column, Row, LaneState
  <2> QED BY <2>2
<1>5. CASE FinishRead(l)
  <2>1. lane[l].pc = "finishing" /\ lane[l].target \in {"succeeded", "failed", "paused", "cancelled"}
    BY <1>1, <1>5 DEF FinishRead, SessionInv
  <2>2. rows[lane[l].task].status = "running" =>
          lane'[l] = [lane[l] EXCEPT !.pc = "committing", !.loaded = rows[lane[l].task]]
    BY <1>1, <1>5, <2>1 DEF FinishRead, MayTransition, ALLOWED_TRANSITIONS
  <2>3. [lane[l] EXCEPT !.pc = "committing", !.loaded = rows[lane[l].task]].pc = "committing"
    BY <1>1 DEF LaneState
  <2> QED BY <2>1, <2>2, <2>3
<1>6. CASE ClaimRead(l)
  <2>1. lane[l].pc = "idle" /\ lane'[l].pc \in {"claiming", "waiting"}
    BY <1>1, <1>6 DEF ClaimRead, LaneState, IdleLane
  <2> QED BY <2>1
<1>7. CASE WaitWoken(l) \/ WaitTimesOut(l) \/ HandlerEnds(l) \/ FinishCommit(l)
  <2>1. WaitWoken(l) \/ WaitTimesOut(l) \/ FinishCommit(l) => lane'[l].pc = "idle"
    BY <1>1 DEF WaitWoken, WaitTimesOut, FinishCommit, LaneState, IdleLane
  <2>2. ASSUME HandlerEnds(l) PROVE lane'[l].pc = "finishing"
    <3>1. PICK outcome :
             lane' = [lane EXCEPT ![l] = [lane[l] EXCEPT !.pc = "finishing", !.target = outcome]]
      BY <2>2 DEF HandlerEnds
    <3> QED BY <1>1, <3>1 DEF LaneState
  <2> QED BY <1>7, <2>1, <2>2
<1>8. CASE ProcessEnds
  <2>1. lane'[l].pc = "idle"
    BY <1>8 DEF ProcessEnds, IdleLane
  <2> QED BY <2>1
<1>9. ASSUME (\E r \in Requests : RequestStep(r)) \/ Stop \/ Start \/ UNCHANGED vars
      PROVE  lane' = lane
  BY <1>9 DEF RequestStep, CreateRead, CreateCommit, CreateConflict, CreateReread,
              ControlRead, ControlCommit, Stop, Start, vars
<1> QED BY <1>2, <1>3, <1>4, <1>5, <1>6, <1>7, <1>8, <1>9 DEF Next, LaneStep

(***************************************************************************)
(* For any tasks, lanes, request threads, control calls and restarts, a    *)
(* lane's thread is ended by _finish only after a control session that     *)
(* loaded the row before the claim, or a resume of the running task, took  *)
(* the running status away.                                                *)
(***************************************************************************)
THEOREM LanesDieByRacesOnly == Spec => LaneDiesOnlyByRace
<1> DEFINE Step(l) == LET t == lane[l].task IN
          /\ lane[l].pc = "claiming" /\ lane'[l].pc = "executing" => rows'[t].status = "running"
          /\ lane[l].pc \in {"executing", "finishing"} /\ rows[t].status = "running" =>
                \/ rows'[t].status = "running"
                \/ \E r \in Requests :
                      /\ Commits(r, t)
                      /\ request[r].loaded.status # "running" \/ request[r].op = "resume"
          /\ lane[l].pc # "dead" /\ lane'[l].pc = "dead" => rows[t].status # "running"
<1>1. ASSUME IInv, [Next]_vars, NEW l \in Lanes
      PROVE  Step(l)
  <2>1. CASE lane[l].pc \in {"executing", "finishing"}
    <3>1. PICK t \in Tasks : t = lane[l].task
      BY <1>1, <2>1 DEF IInv, SessionInv, Holding
    <3>2. rows[t].status = "running" =>
            \/ rows'[t].status = "running"
            \/ \E r \in Requests :
                 /\ Commits(r, t)
                 /\ request[r].loaded.status # "running" \/ request[r].op = "resume"
      BY <1>1, <2>1, <3>1, HandlerKeepsRunning
    <3> QED BY <1>1, <3>1, <3>2, LaneMoves
  <2>2. CASE lane[l].pc \notin {"executing", "finishing"}
    BY <1>1, <2>2, LaneMoves
  <2> QED BY <2>1, <2>2
<1>2. IInv /\ [Next]_vars => [\A l \in Lanes : Step(l)]_vars
  BY <1>1
<1> QED BY <1>2, Inductive, PTL DEF Spec, LaneDiesOnlyByRace
-----------------------------------------------------------------------------
(***************************************************************************)
(* The queue without control endpoints (NoControls).                       *)
(***************************************************************************)
Live(s) == s \notin TERMINAL_STATES \cup {"absent"}

(* A step that keeps keys and inputs and revives no task keeps KeyInv.     *)
LEMMA KeysKept ==
    ASSUME KeyInv,
           \A t \in Tasks : /\ rows'[t].idempotency_key = rows[t].idempotency_key
                            /\ rows'[t].input_json = rows[t].input_json
                            /\ Live(rows'[t].status) => Live(rows[t].status)
                            /\ rows'[t].status = "absent" => rows[t].status = "absent"
    PROVE  KeyInv'
  BY DEF KeyInv, Live

(* A request that only reads.                                              *)
LEMMA QueueCreateRead ==
    ASSUME IInv, QueueInv, NEW r \in Requests, NEW key \in Keys \cup {NoKey}, CreateRead(r, key)
    PROVE  QueueInv'
<1>1. rows' = rows /\ lane' = lane /\ request \in [Requests -> RequestState]
  BY DEF CreateRead, IInv, TypeOK
<1>2. \A q \in Requests : q # r => request'[q] = request[q]
  BY <1>1 DEF CreateRead, Answer
<1>3. \/ request'[r].pc = "idle"
      \/ request'[r].pc = "creating" /\ request'[r].task = NoTask
      \/ request'[r].pc = "creating" /\ rows[request'[r].task].status \in TERMINAL_STATES
  <2>1. CASE request' = [request EXCEPT ![r] = IdleRequest]
    BY <1>1, <2>1 DEF IdleRequest
  <2>2. ASSUME NEW t \in WithKey(key), rows[t].status \in TERMINAL_STATES,
               request' = [request EXCEPT ![r] =
                        [pc |-> "creating", task |-> t, loaded |-> rows[t],
                         op |-> "pause", key |-> key]]
        PROVE  request'[r].pc = "creating" /\ rows[request'[r].task].status \in TERMINAL_STATES
    BY <1>1, <2>2
  <2>3. CASE request' = [request EXCEPT ![r] =
                [IdleRequest EXCEPT !.pc = "creating", !.key = key]]
    <3>1. request'[r] = [IdleRequest EXCEPT !.pc = "creating", !.key = key]
      BY <1>1, <2>3
    <3>2. request'[r].pc = "creating" /\ request'[r].task = NoTask
      BY <3>1 DEF IdleRequest
    <3> QED BY <3>2
  <2> QED BY <2>1, <2>2, <2>3 DEF CreateRead, Answer
<1>4. KeyInv'
  BY <1>1 DEF QueueInv, KeyInv
<1> QED BY <1>1, <1>2, <1>3, <1>4 DEF QueueInv

(* CreateCommit: the key it takes is free, and the one it releases was     *)
(* that of a task that had ended, and has not come back.                   *)
LEMMA QueueCreateCommit ==
    ASSUME IInv, QueueInv, NEW r \in Requests, CreateCommit(r)
    PROVE  QueueInv'
<1>1. /\ lane' = lane /\ ~KeyTaken(r) /\ request[r].pc = "creating"
      /\ request' = [request EXCEPT ![r] = IdleRequest]
      /\ request \in [Requests -> RequestState] /\ rows \in [Tasks -> Row]
  BY DEF CreateCommit, Answer, IInv, TypeOK
<1>2. PICK t \in Tasks : ~Exists(t) /\ rows' = [Released(r) EXCEPT ![t] = NewRow(request[r].key)]
  BY DEF CreateCommit
<1> DEFINE key == request[r].key
           old == request[r].task
<1>3. old \in Tasks => rows[old].status \in TERMINAL_STATES /\ old # t
  BY <1>1, <1>2, TaskEngineAssumption DEF QueueInv, Exists, TERMINAL_STATES
<1>4. /\ rows'[t].status = "queued" /\ rows'[t].idempotency_key = key
      /\ rows'[t].input_json = key
  <2>1. rows'[t] = NewRow(key)
    BY <1>2 DEF Released
  <2> QED BY <2>1 DEF NewRow, AbsentRow
<1>5. \A u \in Tasks : u # t =>
         /\ rows'[u].status = rows[u].status /\ rows'[u].input_json = rows[u].input_json
         /\ rows'[u].idempotency_key = IF u = old THEN NoKey ELSE rows[u].idempotency_key
  <2> TAKE u \in Tasks
  <2> SUFFICES ASSUME u # t
               PROVE  /\ rows'[u].status = rows[u].status
                      /\ rows'[u].input_json = rows[u].input_json
                      /\ rows'[u].idempotency_key =
                            IF u = old THEN NoKey ELSE rows[u].idempotency_key
    OBVIOUS
  <2>1. rows[u] \in Row
    BY <1>1
  <2>2. rows'[u] = IF u = old THEN [rows[u] EXCEPT !.idempotency_key = NoKey] ELSE rows[u]
    BY <1>2 DEF Released
  <2>3. CASE u = old
    <3>1. rows'[u] = [rows[u] EXCEPT !.idempotency_key = NoKey]
      BY <2>2, <2>3
    <3> QED BY <2>1, <2>3, <3>1 DEF Row
  <2>4. CASE u # old
    BY <2>2, <2>4
  <2> QED BY <2>3, <2>4
<1>6. \A u \in Tasks : u # t /\ u # old /\ rows[u].idempotency_key = key => key = NoKey
  <2> SUFFICES ASSUME NEW u \in Tasks, u # t, u # old, rows[u].idempotency_key = key,
                      key # NoKey
               PROVE  FALSE
    OBVIOUS
  <2>1. Exists(u)
    BY DEF QueueInv, KeyInv, Exists
  <2> QED BY <1>1, <2>1 DEF KeyTaken, WithKey
<1>7. rows[t].status = "absent"
  BY <1>2 DEF Exists
<1> HIDE DEF key, old
<1>8. KeyInv'
  <2>1. \A u, v \in Tasks : u # v /\ rows'[u].idempotency_key = rows'[v].idempotency_key =>
          rows'[u].idempotency_key = NoKey
    <3> SUFFICES ASSUME NEW u \in Tasks, NEW v \in Tasks, u # v,
                        rows'[u].idempotency_key = rows'[v].idempotency_key
                 PROVE  rows'[u].idempotency_key = NoKey
      OBVIOUS
    <3>1. CASE u = t
      BY <1>4, <1>5, <1>6, <3>1
    <3>2. CASE v = t
      BY <1>4, <1>5, <1>6, <3>2
    <3>3. CASE u # t /\ v # t
      BY <1>5, <3>3 DEF QueueInv, KeyInv
    <3> QED BY <3>1, <3>2, <3>3
  <2>2. \A u \in Tasks : rows'[u].status \notin TERMINAL_STATES \cup {"absent"} =>
          rows'[u].idempotency_key = rows'[u].input_json
    BY <1>3, <1>4, <1>5 DEF QueueInv, KeyInv, old
  <2>3. \A u \in Tasks : rows'[u].status = "absent" => rows'[u].idempotency_key = NoKey
    BY <1>4, <1>5 DEF QueueInv, KeyInv
  <2> QED BY <2>1, <2>2, <2>3 DEF KeyInv
<1>9. \A u \in Tasks : rows[u].status # "absent" => rows'[u].status = rows[u].status
  BY <1>5, <1>7
<1>10. \A l \in Lanes :
          /\ lane[l].pc # "dead"
          /\ lane[l].pc = "claiming" => rows'[lane[l].task].status = "queued"
          /\ lane[l].pc \in Holding => rows'[lane[l].task].status = "running"
          /\ lane[l].pc = "committing" => lane[l].loaded.status = "running"
  BY <1>9 DEF QueueInv, IInv, SessionInv
<1>11. \A q \in Requests :
          /\ request'[q].pc # "controlling"
          /\ request'[q].pc = "creating" /\ request'[q].task # NoTask =>
                rows'[request'[q].task].status \in TERMINAL_STATES
  <2> TAKE q \in Requests
  <2>1. CASE q = r
    BY <1>1, <2>1 DEF IdleRequest
  <2>2. CASE q # r
    <3>1. request'[q] = request[q] /\ request[q].task \in Tasks \cup {NoTask}
      BY <1>1, <2>2 DEF RequestState
    <3> QED BY <1>9, <3>1 DEF QueueInv, TERMINAL_STATES
  <2> QED BY <2>1, <2>2
<1> QED BY <1>1, <1>8, <1>10, <1>11 DEF QueueInv

(* The two ends of a lost race for a key.                                  *)
LEMMA QueueConflict ==
    ASSUME IInv, QueueInv, NEW r \in Requests, CreateConflict(r) \/ CreateReread(r)
    PROVE  QueueInv'
<1>1. rows' = rows /\ lane' = lane /\ request \in [Requests -> RequestState]
  BY DEF CreateConflict, CreateReread, IInv, TypeOK
<1>2. \A q \in Requests : request'[q] = request[q] \/ request'[q].pc \in {"idle", "rereading"}
  BY <1>1 DEF CreateConflict, CreateReread, Answer, IdleRequest, RequestState
<1>3. KeyInv'
  BY <1>1 DEF QueueInv, KeyInv
<1> QED BY <1>1, <1>2, <1>3 DEF QueueInv

(* A lane that leaves the table alone.                                     *)
LEMMA QueueLaneReads ==
    ASSUME IInv, QueueInv, NEW l \in Lanes, rows' = rows, request' = request,
           \A m \in Lanes : m # l => lane'[m] = lane[m],
           lane'[l].pc # "dead",
           lane'[l].pc = "claiming" => rows[lane'[l].task].status = "queued",
           lane'[l].pc \in Holding => rows[lane'[l].task].status = "running",
           lane'[l].pc = "committing" => lane'[l].loaded.status = "running"
    PROVE  QueueInv'
<1>1. KeyInv'
  BY DEF QueueInv, KeyInv
<1> QED BY <1>1 DEF QueueInv

(* ClaimRead, the waits, HandlerEnds and FinishRead.                       *)
LEMMA QueueReads ==
    ASSUME IInv, QueueInv, NEW l \in Lanes,
           ClaimRead(l) \/ WaitWoken(l) \/ WaitTimesOut(l) \/ HandlerEnds(l) \/ FinishRead(l)
    PROVE  QueueInv'
<1>1. /\ rows' = rows /\ request' = request /\ lane \in [Lanes -> LaneState]
      /\ lane[l] \in LaneState
      /\ \A m \in Lanes : m # l => lane'[m] = lane[m]
  BY DEF ClaimRead, WaitWoken, WaitTimesOut, HandlerEnds, FinishRead, IInv, TypeOK
<1>2. ASSUME ClaimRead(l)
      PROVE  QueueInv'
  <2>1. CASE lane' = [lane EXCEPT ![l].pc = "waiting"]
    <3>1. lane'[l].pc = "waiting"
      BY <1>1, <2>1 DEF LaneState
    <3> QED BY <1>1, <3>1, QueueLaneReads DEF Holding
  <2>2. ASSUME NEW t \in Claimable(l),
               lane' = [lane EXCEPT ![l] = [IdleLane EXCEPT
                             !.pc = "claiming", !.task = t, !.loaded = rows[t]]]
        PROVE  QueueInv'
    <3>1. lane'[l] = [IdleLane EXCEPT !.pc = "claiming", !.task = t, !.loaded = rows[t]]
      BY <1>1, <2>2
    <3>2. lane'[l].pc = "claiming" /\ lane'[l].task = t
      BY <3>1 DEF IdleLane
    <3>3. rows[t].status = "queued"
      BY DEF Claimable
    <3> QED BY <1>1, <3>2, <3>3, QueueLaneReads DEF Holding
  <2> QED BY <1>2, <2>1, <2>2 DEF ClaimRead
<1>3. ASSUME WaitWoken(l) \/ WaitTimesOut(l)
      PROVE  QueueInv'
  <2>1. lane'[l].pc = "idle"
    BY <1>1, <1>3 DEF WaitWoken, WaitTimesOut, LaneState
  <2> QED BY <1>1, <2>1, QueueLaneReads DEF Holding
<1>4. ASSUME HandlerEnds(l)
      PROVE  QueueInv'
  <2>1. PICK outcome :
           lane' = [lane EXCEPT ![l] = [lane[l] EXCEPT !.pc = "finishing", !.target = outcome]]
    BY <1>4 DEF HandlerEnds
  <2>2. lane'[l].pc = "finishing" /\ lane'[l].task = lane[l].task
    BY <1>1, <2>1 DEF LaneState
  <2>3. rows[lane[l].task].status = "running"
    BY <1>4 DEF HandlerEnds, QueueInv, Holding
  <2> QED BY <1>1, <2>2, <2>3, QueueLaneReads
<1>5. ASSUME FinishRead(l)
      PROVE  QueueInv'
  <2>1. /\ rows[lane[l].task].status = "running" /\ lane[l].task \in Tasks
        /\ lane[l].target \in {"succeeded", "failed", "paused", "cancelled"}
    BY <1>5 DEF FinishRead, QueueInv, IInv, SessionInv, Holding
  <2>2. MayTransition(rows[lane[l].task].status, lane[l].target)
    BY <2>1 DEF MayTransition, ALLOWED_TRANSITIONS
  <2>3. lane' = [lane EXCEPT ![l] =
                   [lane[l] EXCEPT !.pc = "committing", !.loaded = rows[lane[l].task]]]
    BY <1>5, <2>1, <2>2 DEF FinishRead
  <2>4. /\ lane'[l].pc = "committing" /\ lane'[l].task = lane[l].task
        /\ lane'[l].loaded = rows[lane[l].task]
    BY <1>1, <2>3 DEF LaneState
  <2> QED BY <1>1, <2>1, <2>4, QueueLaneReads
<1> QED BY <1>2, <1>3, <1>4, <1>5

(* A lane that writes its row: no other lane and no request holds it.      *)
LEMMA QueueLaneWrites ==
    ASSUME IInv, QueueInv, NEW l \in Lanes, NEW t \in Tasks, LaneOf[t] = l,
           request' = request, \A m \in Lanes : m # l => lane'[m] = lane[m],
           \A u \in Tasks : u # t => rows'[u] = rows[u],
           rows[t].status \in {"queued", "running"}, rows'[t].status \in TaskStatus,
           rows'[t].idempotency_key = rows[t].idempotency_key,
           rows'[t].input_json = rows[t].input_json,
           \/ lane'[l].pc = "idle"
           \/ lane'[l].pc = "executing" /\ lane'[l].task = t /\ rows'[t].status = "running"
    PROVE  QueueInv'
<1>1. KeyInv'
  <2>1. Live(rows[t].status) /\ rows'[t].status # "absent"
    BY DEF Live, TERMINAL_STATES, TaskStatus
  <2> QED BY <2>1, KeysKept DEF QueueInv
<1>2. \A r \in Requests :
          request[r].pc = "creating" /\ request[r].task # NoTask =>
             request[r].task \in Tasks /\ request[r].task # t
  <2>1. \A r \in Requests : request[r].task \in Tasks \cup {NoTask}
    BY DEF IInv, TypeOK, RequestState
  <2> QED BY <2>1 DEF QueueInv, TERMINAL_STATES
<1>3. \A m \in Lanes : m # l /\ lane[m].pc \in {"claiming"} \cup Holding =>
          lane[m].task \in Tasks /\ lane[m].task # t
  BY DEF IInv, SessionInv
<1>4. \A m \in Lanes : m # l =>
          /\ lane'[m].pc # "dead"
          /\ lane'[m].pc = "claiming" => rows'[lane'[m].task].status = "queued"
          /\ lane'[m].pc \in Holding => rows'[lane'[m].task].status = "running"
          /\ lane'[m].pc = "committing" => lane'[m].loaded.status = "running"
  BY <1>3 DEF QueueInv
<1>5. /\ lane'[l].pc \notin {"dead", "claiming", "committing"}
      /\ lane'[l].pc \in Holding => rows'[lane'[l].task].status = "running"
  BY DEF Holding
<1> QED BY <1>1, <1>2, <1>4, <1>5 DEF QueueInv

(* ClaimCommit and FinishCommit.                                           *)
LEMMA QueueWrites ==
    ASSUME IInv, QueueInv, NEW l \in Lanes, ClaimCommit(l) \/ FinishCommit(l)
    PROVE  QueueInv'
<1>1. PICK t \in Tasks : t = lane[l].task /\ LaneOf[t] = l
  BY DEF ClaimCommit, FinishCommit, IInv, SessionInv, Holding
<1>2. PICK loaded \in Row : loaded = lane[l].loaded
  BY DEF IInv, TypeOK, LaneState
<1>3. /\ rows \in [Tasks -> Row] /\ lane \in [Lanes -> LaneState] /\ rows[t] \in Row
      /\ request' = request
  BY DEF ClaimCommit, FinishCommit, IInv, TypeOK
<1>4. CASE ClaimCommit(l)
  <2>1. /\ rows' = [rows EXCEPT ![t] = Flush(rows[t], loaded, [loaded EXCEPT !.status = "running"])]
        /\ lane' = [lane EXCEPT ![l].pc = "executing"] /\ lane[l].pc = "claiming"
    BY <1>1, <1>2, <1>4 DEF ClaimCommit
  <2>2. rows[t].status = "queued" /\ loaded.status = "queued"
    BY <1>1, <1>2, <2>1 DEF QueueInv, IInv, SessionInv
  <2>3. /\ rows'[t].status = "running" /\ rows'[t].input_json = rows[t].input_json
        /\ rows'[t].idempotency_key = rows[t].idempotency_key
    BY <1>3, <2>1, <2>2 DEF Flush, Column, Row
  <2>4. lane'[l].pc = "executing" /\ lane'[l].task = t
    BY <1>1, <1>3, <2>1 DEF LaneState
  <2> QED BY <1>1, <1>3, <2>1, <2>2, <2>3, <2>4, QueueLaneWrites DEF TaskStatus
<1>5. CASE FinishCommit(l)
  <2>1. PICK target \in {"succeeded", "failed", "paused", "cancelled"} : target = lane[l].target
    BY <1>5 DEF FinishCommit, IInv, SessionInv
  <2>2. PICK json \in ResultJson : json = IF target = "succeeded" THEN "result" ELSE "empty"
    BY DEF ResultJson
  <2>3. /\ rows' = [rows EXCEPT ![t] = Flush(rows[t], loaded,
                        [loaded EXCEPT !.status = target, !.result_json = json])]
        /\ lane' = [lane EXCEPT ![l] = IdleLane] /\ lane[l].pc = "committing"
    BY <1>1, <1>2, <1>5, <2>1, <2>2 DEF FinishCommit
  <2>4. rows[t].status = "running" /\ loaded.status = "running"
    BY <1>1, <1>2, <2>3 DEF QueueInv, Holding
  <2>5. /\ rows'[t].status = target /\ rows'[t].input_json = rows[t].input_json
        /\ rows'[t].idempotency_key = rows[t].idempotency_key
    BY <1>3, <2>1, <2>3, <2>4 DEF Flush, Column, Row
  <2>6. lane'[l].pc = "idle"
    BY <1>3, <2>3 DEF IdleLane
  <2> QED BY <1>1, <1>3, <2>1, <2>3, <2>4, <2>5, <2>6, QueueLaneWrites DEF TaskStatus
<1> QED BY <1>4, <1>5

(* The ends and the starts of the manager.                                 *)
LEMMA QueueRestarts ==
    ASSUME IInv, QueueInv, Stop \/ ProcessEnds \/ Start
    PROVE  QueueInv'
<1>1. CASE Stop
  BY <1>1 DEF Stop, QueueInv, KeyInv
<1>2. CASE ProcessEnds
  <2>1. KeyInv'
    BY <1>2 DEF ProcessEnds, QueueInv, KeyInv
  <2> QED BY <1>2, <2>1 DEF ProcessEnds, QueueInv, IdleLane, IdleRequest, Holding
<1>3. CASE Start
  <2>1. /\ rows' = [t \in Tasks |-> recover_interrupted(rows[t])] /\ ~up
        /\ lane' = lane /\ request' = request /\ rows \in [Tasks -> Row]
    BY <1>3 DEF Start, IInv, TypeOK
  <2>2. \A t \in Tasks : /\ rows'[t].idempotency_key = rows[t].idempotency_key
                         /\ rows'[t].input_json = rows[t].input_json
                         /\ rows'[t].status =
                               IF rows[t].status = "running" THEN "queued" ELSE rows[t].status
    BY <2>1 DEF recover_interrupted, Row
  <2>3. KeyInv'
    <3>1. \A t \in Tasks : /\ Live(rows'[t].status) => Live(rows[t].status)
                           /\ rows'[t].status = "absent" => rows[t].status = "absent"
      BY <2>2 DEF Live, TERMINAL_STATES
    <3> QED BY <2>2, <3>1, KeysKept DEF QueueInv
  <2>4. \A l \in Lanes : lane'[l].pc = "idle"
    BY <2>1 DEF IInv, SessionInv
  <2>5. \A r \in Requests : request[r].task \in Tasks \cup {NoTask}
    BY DEF IInv, TypeOK, RequestState
  <2>6. \A t \in Tasks : rows[t].status \in TERMINAL_STATES => rows'[t].status \in TERMINAL_STATES
    BY <2>2 DEF TERMINAL_STATES
  <2> QED BY <2>1, <2>3, <2>4, <2>5, <2>6 DEF QueueInv, Holding
<1> QED BY <1>1, <1>2, <1>3

(***************************************************************************)
(* Without control endpoints no session finds a status it did not load,    *)
(* keys stay unique, and unfinished work keeps its key.                    *)
(***************************************************************************)
THEOREM QueueInvariance == NoControls => (Spec => []QueueInv)
<1> SUFFICES ASSUME NoControls PROVE Spec => []QueueInv
  OBVIOUS
<1>1. Init => QueueInv
  BY DEF Init, QueueInv, KeyInv, AbsentRow, IdleRequest, IdleLane, Holding, TERMINAL_STATES
<1>2. IInv /\ QueueInv /\ [Next]_vars => QueueInv'
  <2> SUFFICES ASSUME IInv, QueueInv, [Next]_vars PROVE QueueInv'
    OBVIOUS
  <2>1. CASE UNCHANGED vars
    BY <2>1 DEF vars, QueueInv, KeyInv
  <2>2. ASSUME NEW r \in Requests, RequestStep(r) PROVE QueueInv'
    <3>1. ~ ControlCommit(r)
      BY DEF ControlCommit, QueueInv
    <3>2. ~ \E op \in Controls, t \in Tasks : ControlRead(r, op, t)
      BY DEF NoControls
    <3> QED BY <2>2, <3>1, <3>2, QueueCreateRead, QueueCreateCommit, QueueConflict
            DEF RequestStep
  <2>3. ASSUME NEW l \in Lanes, LaneStep(l) PROVE QueueInv'
    BY <2>3, QueueReads, QueueWrites DEF LaneStep
  <2> QED BY <2>1, <2>2, <2>3, QueueRestarts DEF Next
<1> QED BY <1>1, <1>2, Inductive, PTL DEF Spec

(***************************************************************************)
(* Without control endpoints the same work is never unfinished twice,      *)
(* however many submissions of it interleave with its end and its restart. *)
(***************************************************************************)
THEOREM WorkIsNotDoubled == NoControls => (Spec => []OneLiveTaskPerInput)
<1> SUFFICES ASSUME NoControls PROVE Spec => []OneLiveTaskPerInput
  OBVIOUS
<1>1. QueueInv => OneLiveTaskPerInput
  <2> SUFFICES ASSUME QueueInv, NEW t \in Tasks, NEW u \in Tasks, t # u,
                      {rows[t].status, rows[u].status} \cap (TERMINAL_STATES \cup {"absent"}) = {}
               PROVE  rows[t].input_json # rows[u].input_json \/ rows[t].input_json = NoKey
    BY DEF OneLiveTaskPerInput
  <2>1. /\ rows[t].status \notin TERMINAL_STATES \cup {"absent"}
        /\ rows[u].status \notin TERMINAL_STATES \cup {"absent"}
    OBVIOUS
  <2> QED BY <2>1 DEF QueueInv, KeyInv
<1>2. Spec => []QueueInv
  BY QueueInvariance
<1> QED BY <1>1, <1>2, PTL
=============================================================================
