--------------------------- MODULE JobRunnerProofs ---------------------------
(***************************************************************************)
(* The safety properties of JobRunner, for every set of jobs and every     *)
(* number of restarts and failing writes; and, in the second half, those   *)
(* of OutputWindow, for every limit on what the agent and the executor     *)
(* keep.                                                                   *)
(***************************************************************************)
EXTENDS JobRunner, OutputWindow, WellFoundedInduction, TLAPS

(* The step leaves everything of job i alone, and what it reads of the     *)
(* agent.                                                                  *)
Untouched(i) ==
    /\ job'[i] = job[i] /\ disk'[i] = disk[i] /\ pc'[i] = pc[i] /\ reader'[i] = reader[i]
    /\ gate'[i] = gate[i] /\ procs'[i] = procs[i] /\ executed'[i] = executed[i]
    /\ up' = up /\ unread' = unread

(* Such a step keeps the job's invariant.                                  *)
LEMMA UntouchedInv ==
    ASSUME NEW i \in Jobs, JobInv(i), Untouched(i)
    PROVE  JobInv(i)'
  BY DEF JobInv, Untouched

(* No job is a state of its type.                                          *)
LEMMA AbsentType == Absent \in State
  BY DEF Absent, State, JobStatus

(* A write changes the file of its job to the state given, or not at all.  *)
LEMMA WrittenType ==
    ASSUME TypeOK, NEW j \in Jobs, NEW s \in State,
           PersistOk(j, s) \/ PersistFails(j, s)
    PROVE  /\ disk' \in [Jobs -> State]
           /\ faults' \in 0..MaxFaults
           /\ disk'[j] \in {disk[j], [s EXCEPT !.cancel_requested = FALSE]}
           /\ PersistOk(j, s) => disk'[j] = [s EXCEPT !.cancel_requested = FALSE]
           /\ \A i \in Jobs \ {j} : disk'[i] = disk[i]
<1>1. [s EXCEPT !.cancel_requested = FALSE] \in State
  BY DEF State
<1>2. disk \in [Jobs -> State] /\ faults \in 0..MaxFaults
  BY DEF TypeOK
<1>3. faults' \in 0..MaxFaults
  BY <1>2, JobRunnerAssumption DEF PersistOk, PersistFails
<1>4. disk' = disk \/ disk' = [disk EXCEPT ![j] = [s EXCEPT !.cancel_requested = FALSE]]
  BY DEF PersistOk, PersistFails, Written
<1>5. PersistOk(j, s) => disk' = [disk EXCEPT ![j] = [s EXCEPT !.cancel_requested = FALSE]]
  BY DEF PersistOk, Written
<1> QED BY <1>1, <1>2, <1>3, <1>4, <1>5

(* The assignments to a state the code makes keep its type.                *)
LEMMA StateUpdate ==
    ASSUME NEW s \in State, NEW x \in JobStatus, NEW b \in BOOLEAN
    PROVE  /\ [s EXCEPT !.status = x] \in State
           /\ [s EXCEPT !.status = x, !.identity = TRUE] \in State
           /\ [s EXCEPT !.cancel_requested = TRUE] \in State
           /\ [s EXCEPT !.large = b] \in State
  BY DEF State

(* start                                                                   *)
LEMMA StartStep ==
    ASSUME IInv, NEW j \in Jobs, start(j)
    PROVE  TypeOK' /\ JobInv(j)' /\ \A i \in Jobs \ {j} : Untouched(i)
<1> DEFINE queued == [Absent EXCEPT !.status = "queued"]
<1>1. TypeOK /\ JobInv(j)
  BY DEF IInv
<1>2. queued \in State
  BY AbsentType, StateUpdate DEF JobStatus
<1>3. PersistOk(j, queued) \/ PersistFails(j, queued)
  BY DEF start
<1>4. /\ disk' \in [Jobs -> State]
      /\ faults' \in 0..MaxFaults
      /\ disk'[j] \in {disk[j], [queued EXCEPT !.cancel_requested = FALSE]}
      /\ PersistOk(j, queued) => disk'[j] = [queued EXCEPT !.cancel_requested = FALSE]
      /\ \A i \in Jobs \ {j} : disk'[i] = disk[i]
  BY <1>1, <1>2, <1>3, WrittenType
<1>5. TypeOK'
  BY <1>1, <1>2, <1>4 DEF TypeOK, start, Goto, WorkerPc
<1>6. JobInv(j)'
  <2>1. /\ gate'[j] = "none" /\ procs'[j] = {} /\ executed'[j] = executed[j]
        /\ reader'[j] = reader[j] /\ up' = "up"
    BY <1>1 DEF start, JobInv
  <2>2. reader[j] # "reading" /\ ~executed[j]
    BY <1>1 DEF start, JobInv
  <2>3. \/ pc'[j] = "lost"
        \/ /\ pc'[j] = "start"
           /\ job'[j].status = "queued" /\ disk'[j].status = "queued"
    <3>1. /\ queued.status = "queued"
          /\ [queued EXCEPT !.cancel_requested = FALSE].status = "queued"
      BY DEF Absent
    <3>2. \/ pc'[j] = "lost"
          \/ pc'[j] = "start" /\ job'[j] = queued /\ PersistOk(j, queued)
      BY <1>1 DEF start, Goto, TypeOK
    <3> HIDE DEF queued
    <3> QED BY <1>4, <3>1, <3>2
  <2> QED BY <2>1, <2>2, <2>3 DEF JobInv, Busy, WorkerPc
<1>7. \A i \in Jobs \ {j} : Untouched(i)
  BY <1>1, <1>4 DEF TypeOK, start, Goto, Untouched
<1> QED BY <1>5, <1>6, <1>7

(* cancel                                                                  *)
LEMMA CancelStep ==
    ASSUME IInv, NEW j \in Jobs, cancel(j)
    PROVE  TypeOK' /\ JobInv(j)' /\ \A i \in Jobs \ {j} : Untouched(i)
<1>1. TypeOK /\ JobInv(j)
  BY DEF IInv
<1>2. /\ job' = [job EXCEPT ![j] = [job[j] EXCEPT !.cancel_requested = TRUE]]
      /\ [job[j] EXCEPT !.cancel_requested = TRUE] \in State
      /\ job \in [Jobs -> State]
  BY <1>1, StateUpdate DEF cancel, TypeOK, JobStatus
<1>3. job'[j].status = job[j].status /\ job'[j].identity = job[j].identity
  BY <1>2 DEF State
<1>4. TypeOK'
  BY <1>1, <1>2 DEF TypeOK, cancel
<1>5. JobInv(j)'
  BY <1>1, <1>3 DEF cancel, JobInv
<1>6. \A i \in Jobs \ {j} : Untouched(i)
  BY <1>2 DEF cancel, Untouched
<1> QED BY <1>4, <1>5, <1>6

-----------------------------------------------------------------------------
(***************************************************************************)
(* _finish of a job that is not finished: memory has the status, the file  *)
(* has it or is as it was.                                                 *)
(***************************************************************************)
LEMMA FinishFacts ==
    ASSUME TypeOK, NEW j \in Jobs, NEW x \in TERMINAL_STATUSES,
           job[j].status \notin TERMINAL_STATUSES, Finish(j, x)
    PROVE  /\ job' \in [Jobs -> State] /\ disk' \in [Jobs -> State]
           /\ faults' \in 0..MaxFaults
           /\ pc' = [pc EXCEPT ![j] = "done"]
           /\ job'[j].status = x /\ job'[j].identity = job[j].identity
           /\ \/ disk'[j] = disk[j]
              \/ disk'[j].status = x /\ disk'[j].identity = job[j].identity
           /\ \A i \in Jobs \ {j} : job'[i] = job[i] /\ disk'[i] = disk[i]
<1> DEFINE final == [job[j] EXCEPT !.status = x]
<1>1. job \in [Jobs -> State] /\ job[j] \in State
  BY DEF TypeOK
<1>2. final \in State
  BY <1>1, StateUpdate DEF JobStatus
<1>3. final.status = x /\ final.identity = job[j].identity
  BY <1>1 DEF State
<1>4. job' = [job EXCEPT ![j] = final] /\ (PersistOk(j, final) \/ PersistFails(j, final))
  BY DEF Finish
<1>5. pc' = [pc EXCEPT ![j] = "done"]
  BY DEF Finish, Goto
<1> HIDE DEF final
<1>6. /\ disk' \in [Jobs -> State]
      /\ faults' \in 0..MaxFaults
      /\ disk'[j] \in {disk[j], [final EXCEPT !.cancel_requested = FALSE]}
      /\ \A i \in Jobs \ {j} : disk'[i] = disk[i]
  BY <1>2, <1>4, WrittenType
<1>7. /\ [final EXCEPT !.cancel_requested = FALSE].status = x
      /\ [final EXCEPT !.cancel_requested = FALSE].identity = job[j].identity
  BY <1>2, <1>3 DEF State
<1> QED BY <1>1, <1>2, <1>3, <1>4, <1>5, <1>6, <1>7

(* A worker that finishes a job whose group is gone keeps the invariant.   *)
LEMMA FinishInv ==
    ASSUME IInv, NEW j \in Jobs, NEW x \in TERMINAL_STATUSES, up = "up", pc[j] \in Busy,
           procs[j] \cap Group = {}, Finish(j, x),
           UNCHANGED <<reader, gate, procs, executed, up, unread, restarts>>,
           outcome' = outcome
    PROVE  TypeOK' /\ JobInv(j)' /\ \A i \in Jobs \ {j} : Untouched(i)
<1>1. TypeOK /\ JobInv(j)
  BY DEF IInv
<1>2. /\ job[j].status \notin TERMINAL_STATUSES
      /\ disk[j].status \in {"queued", "running"}
  BY <1>1 DEF JobInv, TERMINAL_STATUSES
<1>3. /\ job' \in [Jobs -> State] /\ disk' \in [Jobs -> State]
      /\ faults' \in 0..MaxFaults
      /\ pc' = [pc EXCEPT ![j] = "done"]
      /\ job'[j].status = x /\ job'[j].identity = job[j].identity
      /\ \/ disk'[j] = disk[j]
         \/ disk'[j].status = x /\ disk'[j].identity = job[j].identity
      /\ \A i \in Jobs \ {j} : job'[i] = job[i] /\ disk'[i] = disk[i]
  BY <1>1, <1>2, FinishFacts
<1>4. pc \in [Jobs -> WorkerPc]
  BY <1>1 DEF TypeOK
<1>5. TypeOK'
  BY <1>1, <1>3, <1>4 DEF TypeOK, WorkerPc
<1>6. \A i \in Jobs \ {j} : Untouched(i)
  BY <1>3, <1>4 DEF Untouched
<1>7. JobInv(j)'
  <2>1. pc'[j] = "done"
    BY <1>3, <1>4
  <2>2. procs[j] \cap Recoverable = {}
    BY DEF Group, Recoverable, Member
  <2>3. gate[j] = "go" => disk[j].identity /\ job[j].identity
    BY <1>1 DEF JobInv, Busy
  <2>4. /\ gate[j] = "none" => procs[j] = {}
        /\ executed[j] => gate[j] = "go"
        /\ reader[j] = "reading" => gate[j] = "go"
    BY <1>1 DEF JobInv
  <2>5. "absent" \notin TERMINAL_STATUSES
    BY DEF TERMINAL_STATUSES
  <2> QED BY <1>2, <1>3, <2>1, <2>2, <2>3, <2>4, <2>5 DEF JobInv, Busy
<1> QED BY <1>5, <1>6, <1>7

(* A queued job starts, or was cancelled before.                           *)
LEMMA BeginRunStep ==
    ASSUME IInv, NEW j \in Jobs, BeginRun(j)
    PROVE  TypeOK' /\ JobInv(j)' /\ \A i \in Jobs \ {j} : Untouched(i)
<1>1. TypeOK /\ JobInv(j) /\ pc \in [Jobs -> WorkerPc]
  BY DEF IInv, TypeOK
<1>2. CASE Finish(j, "cancelled")
  <2>1. pc[j] \in Busy /\ procs[j] \cap Group = {} /\ "cancelled" \in TERMINAL_STATUSES
    BY <1>1 DEF BeginRun, JobInv, Busy, WorkerPc, TERMINAL_STATUSES
  <2> QED BY <1>2, <2>1, FinishInv DEF BeginRun
<1>3. CASE Goto(j, "prepare") /\ UNCHANGED <<job, disk, faults>>
  <2>1. pc' = [pc EXCEPT ![j] = "prepare"] /\ pc[j] = "start"
    BY <1>3 DEF BeginRun, Goto
  <2>2. TypeOK'
    BY <1>1, <1>3, <2>1 DEF TypeOK, BeginRun, WorkerPc
  <2>3. JobInv(j)'
    BY <1>1, <1>3, <2>1 DEF BeginRun, JobInv, Busy, WorkerPc
  <2>4. \A i \in Jobs \ {j} : Untouched(i)
    BY <1>1, <1>3, <2>1 DEF BeginRun, Untouched
  <2> QED BY <2>2, <2>3, <2>4
<1> QED BY <1>2, <1>3 DEF BeginRun

(* The prepared phase is written, or the write fails.                      *)
LEMMA PrepareStep ==
    ASSUME IInv, NEW j \in Jobs, Prepare(j)
    PROVE  TypeOK' /\ JobInv(j)' /\ \A i \in Jobs \ {j} : Untouched(i)
<1>1. TypeOK /\ JobInv(j) /\ pc \in [Jobs -> WorkerPc] /\ job[j] \in State
  BY DEF IInv, TypeOK
<1>2. /\ disk' \in [Jobs -> State]
      /\ faults' \in 0..MaxFaults
      /\ disk'[j] \in {disk[j], [job[j] EXCEPT !.cancel_requested = FALSE]}
      /\ \A i \in Jobs \ {j} : disk'[i] = disk[i]
  BY <1>1, WrittenType DEF Prepare
<1>3. [job[j] EXCEPT !.cancel_requested = FALSE].status = job[j].status
  BY <1>1 DEF State
<1>4. /\ pc[j] = "prepare"
      /\ \/ pc' = [pc EXCEPT ![j] = "spawn"]
         \/ pc' = [pc EXCEPT ![j] = "unprepared"]
  BY DEF Prepare, Goto
<1>5. TypeOK'
  BY <1>1, <1>2, <1>4 DEF TypeOK, Prepare, WorkerPc
<1>6. JobInv(j)'
  <2>1. gate[j] = "none" /\ {job[j].status, disk[j].status} \subseteq {"queued", "running"}
    BY <1>1, <1>4 DEF JobInv, Busy, WorkerPc
  <2>2. disk'[j].status \in {"queued", "running"}
    BY <1>2, <1>3, <2>1
  <2>3. pc'[j] \in {"spawn", "unprepared"}
    BY <1>1, <1>4
  <2>4. /\ gate[j] = "none" => procs[j] = {}
        /\ executed[j] => gate[j] = "go"
        /\ reader[j] = "reading" => gate[j] = "go"
    BY <1>1 DEF JobInv
  <2> QED BY <2>1, <2>2, <2>3, <2>4 DEF Prepare, JobInv
<1>7. \A i \in Jobs \ {j} : Untouched(i)
  BY <1>1, <1>2, <1>4 DEF Prepare, Untouched
<1> QED BY <1>5, <1>6, <1>7

(* The job that could not be prepared ends with no process.                *)
LEMMA PrepareFailedStep ==
    ASSUME IInv, NEW j \in Jobs, PrepareFailed(j)
    PROVE  TypeOK' /\ JobInv(j)' /\ \A i \in Jobs \ {j} : Untouched(i)
<1>1. pc[j] \in Busy /\ procs[j] \cap Group = {} /\ "failed" \in TERMINAL_STATUSES
  BY DEF IInv, PrepareFailed, JobInv, Busy, WorkerPc, TERMINAL_STATUSES
<1> QED BY <1>1, FinishInv DEF PrepareFailed

(* The launcher starts behind a shut gate, or nothing does.                *)
LEMMA SpawnStep ==
    ASSUME IInv, NEW j \in Jobs, Spawn(j)
    PROVE  TypeOK' /\ JobInv(j)' /\ \A i \in Jobs \ {j} : Untouched(i)
<1>1. TypeOK /\ JobInv(j) /\ pc \in [Jobs -> WorkerPc]
  BY DEF IInv, TypeOK
<1>2. CASE Finish(j, "failed") /\ UNCHANGED <<procs, gate>>
  <2>1. pc[j] \in Busy /\ procs[j] \cap Group = {} /\ "failed" \in TERMINAL_STATUSES
    BY <1>1 DEF Spawn, JobInv, Busy, WorkerPc, TERMINAL_STATUSES
  <2> QED BY <1>2, <2>1, FinishInv DEF Spawn
<1>3. CASE /\ procs' = [procs EXCEPT ![j] = {"leader"}]
           /\ gate' = [gate EXCEPT ![j] = "open"]
           /\ Goto(j, "capture")
           /\ UNCHANGED <<job, disk, faults>>
  <2>1. pc' = [pc EXCEPT ![j] = "capture"] /\ pc[j] = "spawn" /\ up = "up"
    BY <1>3 DEF Spawn, Goto
  <2>2. procs \in [Jobs -> SUBSET Member] /\ gate \in [Jobs -> {"none", "open", "go", "closed"}]
    BY <1>1 DEF TypeOK
  <2>3. TypeOK'
    BY <1>1, <1>3, <2>1 DEF TypeOK, Spawn, WorkerPc, Member
  <2>4. JobInv(j)'
    <3>1. pc'[j] = "capture" /\ gate'[j] = "open" /\ procs'[j] = {"leader"} /\ up' = "up"
      BY <1>1, <1>3, <2>1, <2>2 DEF Spawn
    <3>2. {job[j].status, disk[j].status} \subseteq {"queued", "running"}
      BY <1>1, <2>1 DEF JobInv, Busy, WorkerPc
    <3>3. ~executed[j] /\ reader[j] # "reading"
      BY <1>1, <2>1 DEF JobInv
    <3> QED BY <1>3, <3>1, <3>2, <3>3 DEF Spawn, JobInv
  <2>5. \A i \in Jobs \ {j} : Untouched(i)
    BY <1>1, <1>3, <2>1, <2>2 DEF Spawn, Untouched
  <2> QED BY <2>3, <2>4, <2>5
<1> QED BY <1>2, <1>3 DEF Spawn

(* The identity is captured, or the gate closed.                           *)
LEMMA CaptureStep ==
    ASSUME IInv, NEW j \in Jobs, Capture(j)
    PROVE  TypeOK' /\ JobInv(j)' /\ \A i \in Jobs \ {j} : Untouched(i)
<1>1. TypeOK /\ JobInv(j) /\ pc \in [Jobs -> WorkerPc]
      /\ gate \in [Jobs -> {"none", "open", "go", "closed"}]
  BY DEF IInv, TypeOK
<1>2. /\ pc[j] = "capture"
      /\ \/ pc' = [pc EXCEPT ![j] = "ready"] /\ gate' = gate /\ outcome' = outcome
         \/ /\ pc' = [pc EXCEPT ![j] = "terminate"]
            /\ gate' = [gate EXCEPT ![j] = "closed"]
            /\ outcome' = [outcome EXCEPT ![j] = "failed"]
  BY DEF Capture, Goto
<1>3. TypeOK'
  BY <1>1, <1>2 DEF TypeOK, Capture, WorkerPc, TERMINAL_STATUSES
<1>4. JobInv(j)'
  <2>1. pc'[j] \in {"ready", "terminate"} /\ gate'[j] \in {"open", "closed"}
        /\ (pc'[j] = "ready" => gate'[j] = "open")
    BY <1>1, <1>2 DEF JobInv
  <2>2. {job[j].status, disk[j].status} \subseteq {"queued", "running"}
    BY <1>1, <1>2 DEF JobInv, Busy, WorkerPc
  <2>3. ~executed[j] /\ reader[j] # "reading"
    BY <1>1, <1>2 DEF JobInv
  <2> QED BY <2>1, <2>2, <2>3 DEF Capture, JobInv
<1>5. \A i \in Jobs \ {j} : Untouched(i)
  BY <1>1, <1>2 DEF Capture, Untouched
<1> QED BY <1>3, <1>4, <1>5

(* Only a completed write of the identity leads to the gate.               *)
LEMMA ReadyStep ==
    ASSUME IInv, NEW j \in Jobs, Ready(j)
    PROVE  TypeOK' /\ JobInv(j)' /\ \A i \in Jobs \ {j} : Untouched(i)
<1> DEFINE running == [job[j] EXCEPT !.status = "running", !.identity = TRUE]
<1>1. TypeOK /\ JobInv(j) /\ pc \in [Jobs -> WorkerPc] /\ job \in [Jobs -> State]
      /\ gate \in [Jobs -> {"none", "open", "go", "closed"}]
  BY DEF IInv, TypeOK
<1>2. running \in State
  BY <1>1, StateUpdate DEF JobStatus
<1>3. /\ running.status = "running" /\ running.identity = TRUE
      /\ [running EXCEPT !.cancel_requested = FALSE].status = "running"
      /\ [running EXCEPT !.cancel_requested = FALSE].identity = TRUE
  BY <1>1 DEF State
<1>4. /\ pc[j] = "ready" /\ up = "up"
      /\ job' = [job EXCEPT ![j] = running]
      /\ \/ PersistOk(j, running) /\ pc' = [pc EXCEPT ![j] = "gate"]
            /\ gate' = gate /\ outcome' = outcome
         \/ PersistFails(j, running) /\ pc' = [pc EXCEPT ![j] = "terminate"]
            /\ gate' = [gate EXCEPT ![j] = "closed"]
            /\ outcome' = [outcome EXCEPT ![j] = "failed"]
      /\ UNCHANGED <<reader, procs, executed, up, unread, restarts>>
  BY DEF Ready, Goto
<1> HIDE DEF running
<1>5. /\ disk' \in [Jobs -> State]
      /\ faults' \in 0..MaxFaults
      /\ disk'[j] \in {disk[j], [running EXCEPT !.cancel_requested = FALSE]}
      /\ PersistOk(j, running) => disk'[j] = [running EXCEPT !.cancel_requested = FALSE]
      /\ \A i \in Jobs \ {j} : disk'[i] = disk[i]
  BY <1>1, <1>2, <1>4, WrittenType
<1>6. TypeOK'
  BY <1>1, <1>2, <1>4, <1>5 DEF TypeOK, WorkerPc, TERMINAL_STATUSES
<1>7. JobInv(j)'
  <2>1. \/ pc'[j] = "gate" /\ gate'[j] = "open" /\ disk'[j].identity = TRUE
           /\ disk'[j].status = "running"
        \/ pc'[j] = "terminate" /\ gate'[j] = "closed"
    BY <1>1, <1>3, <1>4, <1>5 DEF JobInv
  <2>2. job'[j].status = "running" /\ job'[j].identity = TRUE
    BY <1>1, <1>3, <1>4
  <2>3. disk'[j].status \in {"queued", "running"}
    BY <1>1, <1>3, <1>4, <1>5 DEF JobInv, Busy, WorkerPc
  <2>4. ~executed[j] /\ reader[j] # "reading"
    BY <1>1, <1>4 DEF JobInv
  <2> QED BY <1>4, <2>1, <2>2, <2>3, <2>4 DEF JobInv
<1>8. \A i \in Jobs \ {j} : Untouched(i)
  BY <1>1, <1>4, <1>5 DEF Untouched
<1> QED BY <1>6, <1>7, <1>8

(* The gate opens on a durable identity, or closes.                        *)
LEMMA GateStep ==
    ASSUME IInv, NEW j \in Jobs, Gate(j)
    PROVE  TypeOK' /\ JobInv(j)' /\ \A i \in Jobs \ {j} : Untouched(i)
<1>1. TypeOK /\ JobInv(j) /\ pc \in [Jobs -> WorkerPc]
      /\ gate \in [Jobs -> {"none", "open", "go", "closed"}]
      /\ reader \in [Jobs -> {"none", "reading", "ended", "error"}]
  BY DEF IInv, TypeOK
<1>2. /\ pc[j] = "gate" /\ up = "up"
      /\ \/ /\ pc' = [pc EXCEPT ![j] = "poll"] /\ outcome' = outcome
            /\ gate' = [gate EXCEPT ![j] = "go"]
            /\ reader' = [reader EXCEPT ![j] = "reading"]
         \/ /\ pc' = [pc EXCEPT ![j] = "terminate"] /\ reader' = reader
            /\ gate' = [gate EXCEPT ![j] = "closed"]
            /\ \E x \in {"cancelled", "failed"} : outcome' = [outcome EXCEPT ![j] = x]
      /\ UNCHANGED <<job, disk, procs, executed, up, unread, restarts, faults>>
  BY DEF Gate, Goto
<1>3. TypeOK'
  BY <1>1, <1>2 DEF TypeOK, WorkerPc, TERMINAL_STATUSES
<1>4. JobInv(j)'
  <2>1. \/ pc'[j] = "poll" /\ gate'[j] = "go"
        \/ pc'[j] = "terminate" /\ gate'[j] = "closed" /\ reader'[j] = reader[j]
    BY <1>1, <1>2
  <2>2. /\ disk[j].identity /\ job[j].identity /\ job[j].status = "running"
        /\ disk[j].status \in {"queued", "running"}
        /\ ~executed[j] /\ reader[j] # "reading"
    BY <1>1, <1>2 DEF JobInv, Busy, WorkerPc
  <2> QED BY <1>2, <2>1, <2>2 DEF JobInv, TERMINAL_STATUSES
<1>5. \A i \in Jobs \ {j} : Untouched(i)
  BY <1>1, <1>2 DEF Untouched
<1> QED BY <1>3, <1>4, <1>5

(* The wait ends with the group gone, or in a termination.                 *)
LEMMA PollStep ==
    ASSUME IInv, NEW j \in Jobs, Poll(j)
    PROVE  TypeOK' /\ JobInv(j)' /\ \A i \in Jobs \ {j} : Untouched(i)
<1>1. TypeOK /\ JobInv(j) /\ pc \in [Jobs -> WorkerPc]
  BY DEF IInv, TypeOK
<1>2. /\ pc[j] = "poll" /\ up = "up"
      /\ \/ pc' = [pc EXCEPT ![j] = "finish"] /\ procs[j] \cap Group = {}
         \/ pc' = [pc EXCEPT ![j] = "terminate"]
      /\ \E x \in TERMINAL_STATUSES : outcome' = [outcome EXCEPT ![j] = x]
      /\ UNCHANGED <<job, disk, reader, gate, procs, executed, up, unread, restarts, faults>>
  BY DEF Poll, Goto, TERMINAL_STATUSES
<1>3. TypeOK'
  BY <1>1, <1>2 DEF TypeOK, WorkerPc
<1>4. JobInv(j)'
  <2>1. \/ pc'[j] = "finish" /\ procs[j] \cap Group = {}
        \/ pc'[j] = "terminate"
    BY <1>1, <1>2
  <2> QED BY <1>1, <1>2, <2>1 DEF JobInv, Busy, WorkerPc
<1>5. \A i \in Jobs \ {j} : Untouched(i)
  BY <1>1, <1>2 DEF Untouched
<1> QED BY <1>3, <1>4, <1>5

(* After a termination the group is gone.                                  *)
LEMMA TerminateStep ==
    ASSUME IInv, NEW j \in Jobs, Terminate(j)
    PROVE  TypeOK' /\ JobInv(j)' /\ \A i \in Jobs \ {j} : Untouched(i)
<1>1. TypeOK /\ JobInv(j) /\ pc \in [Jobs -> WorkerPc] /\ procs \in [Jobs -> SUBSET Member]
  BY DEF IInv, TypeOK
<1>2. /\ pc[j] = "terminate" /\ up = "up"
      /\ pc' = [pc EXCEPT ![j] = "finish"]
      /\ procs' = [procs EXCEPT ![j] = procs[j] \ Group]
      /\ UNCHANGED <<job, disk, outcome, reader, gate, executed, up, unread, restarts, faults>>
  BY DEF Terminate, Goto
<1>3. TypeOK'
  BY <1>1, <1>2 DEF TypeOK, WorkerPc
<1>4. JobInv(j)'
  <2>1. pc'[j] = "finish" /\ procs'[j] = procs[j] \ Group
    BY <1>1, <1>2
  <2>2. procs'[j] \cap Group = {} /\ procs'[j] \cap Recoverable = {}
        /\ (procs[j] = {} => procs'[j] = {})
    BY <2>1 DEF Group, Recoverable, Member
  <2> QED BY <1>1, <1>2, <2>1, <2>2 DEF JobInv, Busy, WorkerPc
<1>5. \A i \in Jobs \ {j} : Untouched(i)
  BY <1>1, <1>2 DEF Untouched
<1> QED BY <1>3, <1>4, <1>5

(* The worker finishes a job whose group is gone.                          *)
LEMMA FinishRunStep ==
    ASSUME IInv, NEW j \in Jobs, FinishRun(j)
    PROVE  TypeOK' /\ JobInv(j)' /\ \A i \in Jobs \ {j} : Untouched(i)
<1> DEFINE x == IF outcome[j] = "succeeded" /\ reader[j] = "error" THEN "failed" ELSE outcome[j]
<1>1. pc[j] \in Busy /\ procs[j] \cap Group = {} /\ up = "up"
  BY DEF IInv, FinishRun, JobInv, Busy, WorkerPc
<1>2. x \in TERMINAL_STATUSES
  BY DEF IInv, TypeOK, TERMINAL_STATUSES
<1>3. Finish(j, x) /\ outcome' = outcome
      /\ UNCHANGED <<reader, gate, procs, executed, up, unread, restarts>>
  BY DEF FinishRun
<1> HIDE DEF x
<1> QED BY <1>1, <1>2, <1>3, FinishInv

-----------------------------------------------------------------------------
(* A chunk of output: the file takes the status and identity of memory.    *)
LEMMA AppendStep ==
    ASSUME IInv, NEW j \in Jobs, ReaderAppends(j)
    PROVE  TypeOK' /\ JobInv(j)' /\ \A i \in Jobs \ {j} : Untouched(i)
<1>1. TypeOK /\ JobInv(j) /\ job \in [Jobs -> State]
      /\ reader \in [Jobs -> {"none", "reading", "ended", "error"}]
  BY DEF IInv, TypeOK
<1>2. PICK large \in BOOLEAN :
        LET state == [job[j] EXCEPT !.large = large]
        IN /\ job' = [job EXCEPT ![j] = state]
           /\ \/ PersistOk(j, state) /\ UNCHANGED reader
              \/ PersistFails(j, state) /\ reader' = [reader EXCEPT ![j] = "error"]
  BY DEF ReaderAppends
<1> DEFINE state == [job[j] EXCEPT !.large = large]
<1>3. state \in State
  BY <1>1, StateUpdate DEF JobStatus
<1>4. state.status = job[j].status /\ state.identity = job[j].identity
  BY <1>1 DEF State
<1>5. /\ job' = [job EXCEPT ![j] = state]
      /\ PersistOk(j, state) \/ PersistFails(j, state)
      /\ reader' = reader \/ reader' = [reader EXCEPT ![j] = "error"]
  BY <1>2
<1>6. /\ up = "up" /\ reader[j] = "reading"
      /\ UNCHANGED <<pc, outcome, gate, procs, executed, up, unread, restarts>>
  BY DEF ReaderAppends
<1> HIDE DEF state
<1>7. /\ disk' \in [Jobs -> State]
      /\ faults' \in 0..MaxFaults
      /\ disk'[j] \in {disk[j], [state EXCEPT !.cancel_requested = FALSE]}
      /\ \A i \in Jobs \ {j} : disk'[i] = disk[i]
  BY <1>1, <1>3, <1>5, WrittenType
<1>8. /\ [state EXCEPT !.cancel_requested = FALSE].status = job[j].status
      /\ [state EXCEPT !.cancel_requested = FALSE].identity = job[j].identity
  BY <1>3, <1>4 DEF State
<1>9. TypeOK'
  BY <1>1, <1>3, <1>5, <1>6, <1>7 DEF TypeOK
<1>10. JobInv(j)'
  <2>1. job'[j].status = job[j].status /\ job'[j].identity = job[j].identity
    BY <1>1, <1>4, <1>5
  <2>2. /\ gate[j] = "go" /\ pc[j] \in {"poll", "terminate", "finish", "done"}
        /\ job[j].identity /\ disk[j].identity
    BY <1>1, <1>6 DEF JobInv
  <2>3. pc[j] \in Busy => job[j].status = "running" /\ disk[j].status \in {"queued", "running"}
    BY <1>1, <2>2 DEF JobInv
  <2>4. pc[j] = "done" => /\ job[j].status \in TERMINAL_STATUSES
                          /\ disk[j].status \in {"queued", "running", job[j].status}
                          /\ procs[j] \cap Recoverable = {}
    BY <1>1, <2>2 DEF JobInv, Group, Recoverable, Member
  <2>5. pc[j] \in Busy \/ pc[j] = "done"
    BY <2>2 DEF Busy, WorkerPc
  <2>6. \/ disk'[j].status = disk[j].status /\ disk'[j].identity = disk[j].identity
        \/ disk'[j].status = job[j].status /\ disk'[j].identity = job[j].identity
    BY <1>7, <1>8
  <2>7. reader'[j] = "reading" => reader[j] = "reading"
    BY <1>6
  <2>8. pc[j] \in {"finish", "done"} => procs[j] \cap Group = {}
    BY <1>1 DEF JobInv
  <2> QED BY <1>6, <2>1, <2>2, <2>3, <2>4, <2>5, <2>6, <2>8 DEF JobInv, TERMINAL_STATUSES
<1>11. \A i \in Jobs \ {j} : Untouched(i)
  BY <1>1, <1>5, <1>6, <1>7 DEF Untouched
<1> QED BY <1>9, <1>10, <1>11

(* The reader ends.                                                        *)
LEMMA ReaderEndsStep ==
    ASSUME IInv, NEW j \in Jobs, ReaderEnds(j)
    PROVE  TypeOK' /\ JobInv(j)' /\ \A i \in Jobs \ {j} : Untouched(i)
<1>1. TypeOK /\ JobInv(j) /\ reader \in [Jobs -> {"none", "reading", "ended", "error"}]
  BY DEF IInv, TypeOK
<1>2. TypeOK'
  BY <1>1 DEF TypeOK, ReaderEnds
<1>3. JobInv(j)'
  BY <1>1 DEF ReaderEnds, JobInv
<1>4. \A i \in Jobs \ {j} : Untouched(i)
  BY <1>1 DEF ReaderEnds, Untouched
<1> QED BY <1>2, <1>3, <1>4

(* The launcher becomes the command.                                       *)
LEMMA LaunchStep ==
    ASSUME IInv, NEW j \in Jobs, Launch(j)
    PROVE  TypeOK' /\ JobInv(j)' /\ \A i \in Jobs \ {j} : Untouched(i)
<1>1. TypeOK /\ JobInv(j) /\ executed \in [Jobs -> BOOLEAN]
  BY DEF IInv, TypeOK
<1>2. TypeOK'
  BY <1>1 DEF TypeOK, Launch
<1>3. JobInv(j)'
  BY <1>1 DEF Launch, JobInv
<1>4. \A i \in Jobs \ {j} : Untouched(i)
  BY <1>1 DEF Launch, Untouched
<1> QED BY <1>2, <1>3, <1>4

(* Processes of a job come to an end: none of its promises needs them.     *)
LEMMA ProcsShrink ==
    ASSUME IInv, NEW j \in Jobs, procs'[j] \subseteq procs[j],
           procs' = [procs EXCEPT ![j] = procs'[j]],
           UNCHANGED <<job, disk, pc, outcome, reader, gate, executed, up, unread,
                       restarts, faults>>
    PROVE  TypeOK' /\ JobInv(j)' /\ \A i \in Jobs \ {j} : Untouched(i)
<1>1. TypeOK /\ JobInv(j) /\ procs \in [Jobs -> SUBSET Member]
  BY DEF IInv, TypeOK
<1>2. procs' \in [Jobs -> SUBSET Member]
  BY <1>1
<1>3. TypeOK'
  BY <1>1, <1>2 DEF TypeOK
<1>4. JobInv(j)'
  <2>1. /\ procs[j] = {} => procs'[j] = {}
        /\ procs[j] \cap Group = {} => procs'[j] \cap Group = {}
        /\ procs[j] \cap Recoverable = {} => procs'[j] \cap Recoverable = {}
    OBVIOUS
  <2> QED BY <1>1, <2>1 DEF JobInv
<1>5. \A i \in Jobs \ {j} : Untouched(i)
  BY <1>1 DEF Untouched
<1> QED BY <1>3, <1>4, <1>5

(* The launcher leaves at a closed gate.                                   *)
LEMMA GiveUpStep ==
    ASSUME IInv, NEW j \in Jobs, GiveUp(j)
    PROVE  TypeOK' /\ JobInv(j)' /\ \A i \in Jobs \ {j} : Untouched(i)
<1>1. procs'[j] \subseteq procs[j] /\ procs' = [procs EXCEPT ![j] = procs'[j]]
  BY DEF GiveUp, IInv, TypeOK
<1> QED BY <1>1, ProcsShrink DEF GiveUp

(* A process ends.                                                         *)
LEMMA ExitStep ==
    ASSUME IInv, NEW j \in Jobs, NEW m \in Member, Exit(j, m)
    PROVE  TypeOK' /\ JobInv(j)' /\ \A i \in Jobs \ {j} : Untouched(i)
<1>1. procs'[j] \subseteq procs[j] /\ procs' = [procs EXCEPT ![j] = procs'[j]]
  BY DEF Exit, IInv, TypeOK
<1> QED BY <1>1, ProcsShrink DEF Exit

(***************************************************************************)
(* A command forks.  Its leader is alive, so its group is not gone and no  *)
(* promise about an empty group is at stake.                               *)
(***************************************************************************)
LEMMA ForkStep ==
    ASSUME IInv, NEW j \in Jobs, NEW m \in Member, Fork(j, m)
    PROVE  TypeOK' /\ JobInv(j)' /\ \A i \in Jobs \ {j} : Untouched(i)
<1>1. TypeOK /\ JobInv(j) /\ procs \in [Jobs -> SUBSET Member]
  BY DEF IInv, TypeOK
<1>2. /\ executed[j] /\ "leader" \in procs[j]
      /\ procs' = [procs EXCEPT ![j] = procs[j] \cup {m}]
      /\ UNCHANGED <<job, disk, pc, outcome, reader, gate, executed, up, unread,
                     restarts, faults>>
  BY DEF Fork
<1>3. TypeOK'
  BY <1>1, <1>2 DEF TypeOK
<1>4. JobInv(j)'
  <2>1. procs[j] \cap Recoverable # {} /\ procs[j] \cap Group # {} /\ procs[j] # {}
    BY <1>2 DEF Recoverable, Group, Member
  <2> QED BY <1>1, <1>2, <2>1 DEF JobInv
<1>5. \A i \in Jobs \ {j} : Untouched(i)
  BY <1>1, <1>2 DEF Untouched
<1> QED BY <1>3, <1>4, <1>5

-----------------------------------------------------------------------------
(***************************************************************************)
(* A step of the files' loader on job j: the agent is loading, so no       *)
(* worker or reader is at work, and the other jobs keep what they have.    *)
(***************************************************************************)
LEMMA LoadSkipsStep ==
    ASSUME IInv, NEW j \in Jobs, LoadSkips(j)
    PROVE  TypeOK' /\ \A i \in Jobs : JobInv(i)'
<1>1. TypeOK'
  BY DEF IInv, TypeOK, LoadSkips
<1>2. ASSUME NEW i \in Jobs PROVE JobInv(i)'
  <2>1. JobInv(i) /\ (i # j => (i \in unread' <=> i \in unread))
    BY DEF IInv, LoadSkips
  <2> QED BY <2>1 DEF LoadSkips, JobInv
<1> QED BY <1>1, <1>2

(* A finished job is taken as its file has it.                             *)
LEMMA LoadFinishedStep ==
    ASSUME IInv, NEW j \in Jobs, LoadFinished(j)
    PROVE  TypeOK' /\ \A i \in Jobs : JobInv(i)'
<1>1. TypeOK'
  BY DEF IInv, TypeOK, LoadFinished
<1>2. ASSUME NEW i \in Jobs PROVE JobInv(i)'
  <2>1. JobInv(i) /\ (i # j => (i \in unread' <=> i \in unread))
    BY DEF IInv, LoadFinished
  <2>2. pc[i] \in {"none", "lost"} /\ reader[i] = "none"
    BY <2>1 DEF JobInv, LoadFinished
  <2> QED BY <2>1, <2>2 DEF LoadFinished, JobInv, Busy
<1> QED BY <1>1, <1>2

(***************************************************************************)
(* The loader finds a job that was not finished: it kills what the         *)
(* identity in the file leads to, and then says so in the file.            *)
(***************************************************************************)
LEMMA LoadInterruptedStep ==
    ASSUME IInv, NEW j \in Jobs, LoadInterrupted(j)
    PROVE  TypeOK' /\ \A i \in Jobs : JobInv(i)'
<1>1. /\ TypeOK /\ job \in [Jobs -> State] /\ disk \in [Jobs -> State]
      /\ procs \in [Jobs -> SUBSET Member] /\ unread \subseteq Jobs
      /\ \A i \in Jobs : JobInv(i)
  BY DEF IInv, TypeOK
<1> DEFINE failed == Interrupted(j)
<1>2. failed \in State /\ failed.status = "failed" /\ failed.identity = disk[j].identity
  <2>1. disk[j] \in State /\ failed = [disk[j] EXCEPT !.status = "failed"]
    BY <1>1 DEF Interrupted
  <2> HIDE DEF failed
  <2> QED BY <2>1 DEF State, JobStatus, TERMINAL_STATUSES
<1>3. /\ up = "loading" /\ j \in unread
      /\ procs' = [procs EXCEPT ![j] = Killed(j)]
      /\ \/ /\ PersistOk(j, failed)
            /\ job' = [job EXCEPT ![j] = failed]
            /\ unread' = unread \ {j}
            /\ up' = up
         \/ /\ PersistFails(j, failed)
            /\ job' = [i \in Jobs |-> Absent]
            /\ unread' = {}
            /\ up' = "down"
      /\ UNCHANGED <<pc, outcome, reader, gate, executed, restarts>>
  BY DEF LoadInterrupted
<1> HIDE DEF failed
<1>4. /\ disk' \in [Jobs -> State]
      /\ faults' \in 0..MaxFaults
      /\ disk'[j] \in {disk[j], [failed EXCEPT !.cancel_requested = FALSE]}
      /\ \A i \in Jobs \ {j} : disk'[i] = disk[i]
  BY <1>1, <1>2, <1>3, WrittenType
<1>5. /\ [failed EXCEPT !.cancel_requested = FALSE].status = "failed"
      /\ [failed EXCEPT !.cancel_requested = FALSE].identity = disk[j].identity
  BY <1>2 DEF State
<1>6. Killed(j) \subseteq procs[j] /\ (disk[j].identity => Killed(j) \cap Recoverable = {})
  BY DEF Killed
<1>7. TypeOK'
  <2>1. job' \in [Jobs -> State]
    BY <1>1, <1>2, <1>3, AbsentType
  <2>2. procs' \in [Jobs -> SUBSET Member]
    BY <1>1, <1>3, <1>6
  <2>3. unread' \subseteq Jobs /\ up' \in {"up", "loading", "down"}
    BY <1>1, <1>3
  <2> QED BY <1>1, <1>3, <1>4, <2>1, <2>2, <2>3 DEF TypeOK
<1>8. ASSUME NEW i \in Jobs PROVE JobInv(i)'
  <2>1. JobInv(i) /\ up' # "up"
    BY <1>1, <1>3
  <2>2. pc[i] \in {"none", "lost"} /\ reader[i] = "none"
    BY <1>3, <2>1 DEF JobInv
  <2>3. CASE i = j
    <3>1. procs'[j] = Killed(j)
      BY <1>1, <1>3
    <3>2. pc[j] = "lost"
      <4>1. disk[j].status # "absent"
        BY <1>3 DEF IInv, UnreadInv
      <4> QED BY <2>1, <2>2, <2>3, <4>1 DEF JobInv, Absent
    <3>3. /\ gate[j] = "go" => disk[j].identity /\ disk[j].status # "absent"
          /\ gate[j] = "none" => procs[j] = {}
          /\ executed[j] => gate[j] = "go"
      BY <2>1, <2>3 DEF JobInv
    <3>4. /\ disk'[j].identity = disk[j].identity
          /\ disk'[j].status \in {disk[j].status, "failed"}
      BY <1>4, <1>5
    <3> QED BY <1>3, <1>6, <2>1, <2>2, <2>3, <3>1, <3>2, <3>3, <3>4 DEF JobInv, Busy
  <2>4. CASE i # j
    <3>1. procs'[i] = procs[i] /\ disk'[i] = disk[i] /\ (i \in unread' => i \in unread)
          /\ (up' = "loading" => up = "loading" /\ (i \in unread' <=> i \in unread))
      BY <1>1, <1>3, <1>4, <2>4
    <3> QED BY <1>3, <2>1, <2>2, <3>1 DEF JobInv, Busy
  <2> QED BY <2>3, <2>4
<1> QED BY <1>7, <1>8

(***************************************************************************)
(* The agent dies.  A gate still shut closes with it, so no launcher can   *)
(* become the command later; what is on disk stays.                        *)
(***************************************************************************)
LEMMA CrashStep ==
    ASSUME IInv, Crash
    PROVE  TypeOK' /\ \A i \in Jobs : JobInv(i)'
<1>1. TypeOK'
  BY AbsentType, JobRunnerAssumption
     DEF IInv, TypeOK, Crash, Lost, GateAfterCrash, WorkerPc
<1>2. ASSUME NEW i \in Jobs PROVE JobInv(i)'
  <2>1. JobInv(i)
    BY DEF IInv
  <2>2. /\ pc'[i] = (IF pc[i] = "none" THEN "none" ELSE "lost")
        /\ gate'[i] = (IF gate[i] = "open" THEN "closed" ELSE gate[i])
        /\ reader'[i] = "none" /\ up' = "down"
        /\ UNCHANGED <<disk, outcome, procs, executed, faults>>
    BY DEF Crash, Lost, GateAfterCrash
  <2> QED BY <2>1, <2>2 DEF JobInv, Busy
<1> QED BY <1>1, <1>2

(* A restarted agent has every file to read.                               *)
LEMMA RestartStep ==
    ASSUME IInv, Restart
    PROVE  TypeOK' /\ \A i \in Jobs : JobInv(i)'
<1>1. TypeOK'
  BY DEF IInv, TypeOK, Restart
<1>2. ASSUME NEW i \in Jobs PROVE JobInv(i)'
  <2>1. JobInv(i) /\ (i \notin unread' => disk[i].status = "absent")
    BY DEF IInv, Restart
  <2> QED BY <2>1 DEF Restart, JobInv
<1> QED BY <1>1, <1>2

(* The agent serves once every file is read.                               *)
LEMMA ServeStep ==
    ASSUME IInv, Serve
    PROVE  TypeOK' /\ \A i \in Jobs : JobInv(i)'
<1>1. TypeOK'
  BY DEF IInv, TypeOK, Serve
<1>2. ASSUME NEW i \in Jobs PROVE JobInv(i)'
  <2>1. JobInv(i)
    BY DEF IInv
  <2> QED BY <2>1 DEF Serve, JobInv
<1> QED BY <1>1, <1>2

-----------------------------------------------------------------------------
(* No step leaves a file unread that is not there, or serves too early.    *)
LEMMA UnreadStep ==
    ASSUME IInv, [Next]_vars
    PROVE  UnreadInv'
<1>1. UnreadInv /\ disk \in [Jobs -> State]
  BY DEF IInv, TypeOK
<1>2. ASSUME NEW j \in Jobs, start(j) \/ cancel(j) \/ WorkerStep(j) \/ ReaderAppends(j) \/ ReaderEnds(j)
      PROVE  UnreadInv'
  <2>1. up = "up" /\ up' = up /\ unread' = unread
    BY <1>2 DEF start, cancel, WorkerStep, BeginRun, Prepare, PrepareFailed, Spawn, Capture,
                Ready, Gate, Poll, Terminate, FinishRun, ReaderAppends, ReaderEnds
  <2> QED BY <1>1, <2>1 DEF UnreadInv
<1>3. ASSUME NEW j \in Jobs,
             Launch(j) \/ GiveUp(j) \/ LoadSkips(j) \/ LoadFinished(j) \/
             (\E m \in Member : Fork(j, m) \/ Exit(j, m))
      PROVE  UnreadInv'
  <2>1. disk' = disk /\ up' = up /\ unread' \subseteq unread
    BY <1>3 DEF Launch, GiveUp, LoadSkips, LoadFinished, Fork, Exit
  <2> QED BY <1>1, <2>1 DEF UnreadInv
<1>4. ASSUME NEW j \in Jobs, LoadInterrupted(j) PROVE UnreadInv'
  <2>1. up' # "up" /\ unread' \subseteq unread \ {j}
    BY <1>4 DEF LoadInterrupted
  <2>2. \A i \in Jobs \ {j} : disk'[i] = disk[i]
    BY <1>1, <1>4 DEF LoadInterrupted, PersistOk, PersistFails, Written
  <2> QED BY <1>1, <2>1, <2>2 DEF UnreadInv, IInv, TypeOK
<1>5. CASE Crash \/ Serve \/ Restart
  BY <1>1, <1>5 DEF Crash, Serve, Restart, UnreadInv
<1>6. CASE UNCHANGED vars
  BY <1>1, <1>6 DEF vars, UnreadInv
<1> QED BY <1>2, <1>3, <1>4, <1>5, <1>6 DEF Next, LoadStep

(* Every job keeps its invariant when the step is one job's own.           *)
LEMMA OneJobStep ==
    ASSUME IInv, NEW j \in Jobs, JobInv(j)', \A i \in Jobs \ {j} : Untouched(i)
    PROVE  \A i \in Jobs : JobInv(i)'
  BY UntouchedInv DEF IInv

(* The agent starts with no job at all.                                    *)
LEMMA InitInv == Init => IInv
<1> SUFFICES ASSUME Init PROVE IInv
  OBVIOUS
<1>1. TypeOK
  BY AbsentType, JobRunnerAssumption DEF Init, TypeOK, WorkerPc, TERMINAL_STATUSES
<1>2. \A j \in Jobs : JobInv(j)
  BY DEF Init, JobInv, Busy
<1>3. UnreadInv
  BY DEF Init, UnreadInv
<1> QED BY <1>1, <1>2, <1>3 DEF IInv

(* Every step of the agent, the launchers and the commands keeps IInv.     *)
LEMMA Inductive == IInv /\ [Next]_vars => IInv'
<1> SUFFICES ASSUME IInv, [Next]_vars PROVE TypeOK' /\ \A i \in Jobs : JobInv(i)'
  BY UnreadStep DEF IInv
<1>1. ASSUME NEW j \in Jobs, start(j) \/ cancel(j) \/ ReaderAppends(j) \/ ReaderEnds(j)
      PROVE  TypeOK' /\ \A i \in Jobs : JobInv(i)'
  BY <1>1, StartStep, CancelStep, AppendStep, ReaderEndsStep, OneJobStep
<1>2. ASSUME NEW j \in Jobs, WorkerStep(j)
      PROVE  TypeOK' /\ \A i \in Jobs : JobInv(i)'
  <2>1. TypeOK' /\ JobInv(j)' /\ \A i \in Jobs \ {j} : Untouched(i)
    BY <1>2, BeginRunStep, PrepareStep, PrepareFailedStep, SpawnStep, CaptureStep, ReadyStep,
       GateStep, PollStep, TerminateStep, FinishRunStep DEF WorkerStep
  <2> QED BY <2>1, OneJobStep
<1>3. ASSUME NEW j \in Jobs, Launch(j) \/ GiveUp(j)
      PROVE  TypeOK' /\ \A i \in Jobs : JobInv(i)'
  BY <1>3, LaunchStep, GiveUpStep, OneJobStep
<1>4. ASSUME NEW j \in Jobs, NEW m \in Member, Fork(j, m) \/ Exit(j, m)
      PROVE  TypeOK' /\ \A i \in Jobs : JobInv(i)'
  BY <1>4, ForkStep, ExitStep, OneJobStep
<1>5. ASSUME NEW j \in Jobs, LoadStep(j)
      PROVE  TypeOK' /\ \A i \in Jobs : JobInv(i)'
  BY <1>5, LoadSkipsStep, LoadFinishedStep, LoadInterruptedStep DEF LoadStep
<1>6. CASE Crash \/ Restart \/ Serve
  BY <1>6, CrashStep, RestartStep, ServeStep
<1>7. CASE UNCHANGED vars
  <2>1. TypeOK'
    BY <1>7 DEF IInv, TypeOK, vars
  <2>2. \A i \in Jobs : JobInv(i)'
    BY <1>7 DEF IInv, JobInv, vars
  <2> QED BY <2>1, <2>2
<1> QED BY <1>1, <1>2, <1>3, <1>4, <1>5, <1>6, <1>7 DEF Next

(* The invariant holds in every reachable state.                           *)
LEMMA Invariance == Spec => []IInv
  BY InitInv, Inductive, PTL DEF Spec

-----------------------------------------------------------------------------
(* Memory, files, threads and processes of every job keep their types,     *)
(* whatever crashes and failing writes fall between the steps.             *)
THEOREM TypeCorrect == Spec => []TypeOK
<1>1. IInv => TypeOK
  BY DEF IInv
<1> QED BY <1>1, Invariance, PTL

(***************************************************************************)
(* runner.py keeps the launcher behind its gate until the identity is on   *)
(* disk, and no later write loses it: for any number of jobs, crashes and  *)
(* failing writes a running command can be found again.                    *)
(***************************************************************************)
THEOREM IdentityIsDurable == Spec => []IdentityBeforeCommand
<1>1. IInv => IdentityBeforeCommand
  BY DEF IInv, JobInv, IdentityBeforeCommand
<1> QED BY <1>1, Invariance, PTL

(***************************************************************************)
(* While the agent serves, every live command is watched by its worker or  *)
(* is one of the cases recovery admits it cannot reach.                    *)
(***************************************************************************)
THEOREM CommandsAreWatched == Spec => []NoUnwatchedCommand
<1>1. IInv => NoUnwatchedCommand
  <2> SUFFICES ASSUME IInv, up = "up", NEW j \in Jobs, executed[j] PROVE Watched(j)
    BY DEF NoUnwatchedCommand
  <2>1. JobInv(j) /\ gate[j] = "go" /\ pc[j] \in WorkerPc
    BY DEF IInv, JobInv, TypeOK
  <2>2. pc[j] \in {"poll", "terminate", "finish", "done", "lost"}
    BY <2>1 DEF JobInv, WorkerPc
  <2>3. CASE pc[j] \in {"poll", "terminate"}
    BY <2>1, <2>3 DEF JobInv, Watched, Busy, WorkerPc
  <2>4. CASE pc[j] \in {"finish", "done"}
    BY <2>1, <2>4 DEF JobInv, Watched
  <2>5. CASE pc[j] = "lost"
    BY <2>1, <2>5 DEF JobInv, Watched
  <2> QED BY <2>2, <2>3, <2>4, <2>5
<1> QED BY <1>1, Invariance, PTL

(* A worker or start finds no terminal status on disk to overwrite, and    *)
(* the reader writes the status that memory and the file agree on.         *)
LEMMA WriterKeepsTerminal ==
    ASSUME IInv, [Next]_vars, NEW j \in Jobs, disk[j].status \in TERMINAL_STATUSES
    PROVE  disk'[j].status = disk[j].status
<1>1. TypeOK /\ disk \in [Jobs -> State] /\ job \in [Jobs -> State] /\ JobInv(j)
  BY DEF IInv, TypeOK
<1>2. pc[j] # "none" /\ pc[j] \notin Busy
  BY <1>1 DEF JobInv, Absent, TERMINAL_STATUSES
<1>3. ASSUME NEW i \in Jobs, i # j, start(i) \/ WorkerStep(i) \/ ReaderAppends(i) \/ LoadInterrupted(i)
      PROVE  disk'[j] = disk[j]
  BY <1>1, <1>3 DEF start, WorkerStep, BeginRun, Prepare, PrepareFailed, Spawn, Capture, Ready,
     Gate, Poll, Terminate, FinishRun, Finish, ReaderAppends, LoadInterrupted, PersistOk,
     PersistFails, Written
<1>4. ~start(j) /\ ~WorkerStep(j) /\ ~LoadInterrupted(j)
  BY <1>2 DEF start, WorkerStep, BeginRun, Prepare, PrepareFailed, Spawn, Capture, Ready,
     Gate, Poll, Terminate, FinishRun, Busy, WorkerPc, LoadInterrupted
<1>5. ASSUME ReaderAppends(j) PROVE disk'[j].status = disk[j].status
  <2>1. disk[j].status = job[j].status
    BY <1>1, <1>2, <1>5 DEF ReaderAppends, JobInv, TERMINAL_STATUSES, Busy, WorkerPc
  <2>2. PICK large \in BOOLEAN :
          LET state == [job[j] EXCEPT !.large = large]
          IN PersistOk(j, state) \/ PersistFails(j, state)
    BY <1>5 DEF ReaderAppends
  <2> DEFINE state == [job[j] EXCEPT !.large = large]
  <2>3. state \in State /\ state.status = job[j].status
    BY <1>1 DEF State
  <2>4. PersistOk(j, state) \/ PersistFails(j, state)
    BY <2>2
  <2> HIDE DEF state
  <2>5. disk'[j] \in {disk[j], [state EXCEPT !.cancel_requested = FALSE]}
    BY <1>1, <2>3, <2>4, WrittenType
  <2>6. [state EXCEPT !.cancel_requested = FALSE].status = job[j].status
    BY <2>3 DEF State
  <2> QED BY <2>1, <2>5, <2>6
<1>6. ASSUME NEW i \in Jobs, cancel(i) \/ ReaderEnds(i) \/ Launch(i) \/ GiveUp(i) \/
             LoadSkips(i) \/ LoadFinished(i) \/ (\E m \in Member : Fork(i, m) \/ Exit(i, m))
      PROVE  disk' = disk
  BY <1>6 DEF cancel, ReaderEnds, Launch, GiveUp, LoadSkips, LoadFinished, Fork, Exit
<1>7. Crash \/ Restart \/ Serve \/ UNCHANGED vars => disk' = disk
  BY DEF Crash, Restart, Serve, vars
<1> QED BY <1>3, <1>4, <1>5, <1>6, <1>7 DEF Next, LoadStep

(***************************************************************************)
(* A terminal status in a metadata file is never replaced, by a late       *)
(* reader, a second finish or a recovery.                                  *)
(***************************************************************************)
THEOREM TerminalIsFinal == Spec => TerminalOnDiskIsFinal
<1>1. IInv /\ [Next]_vars =>
        [\A j \in Jobs : disk[j].status \in TERMINAL_STATUSES =>
            disk[j].status' = disk[j].status]_vars
  BY WriterKeepsTerminal
<1> QED BY <1>1, Invariance, PTL DEF Spec, TerminalOnDiskIsFinal
-----------------------------------------------------------------------------
(***************************************************************************)
(* A set of natural numbers that is not empty has a least element.         *)
(***************************************************************************)
LEMMA LeastNumber ==
    ASSUME NEW S, S \subseteq Nat, S # {}
    PROVE  \E n \in S : \A m \in S : n <= m
<1>1. IsWellFoundedOn(OpToRel(<, Nat), Nat)
  BY NatLessThanWellFounded
<1>2. PICK R : R = OpToRel(<, Nat)
  OBVIOUS
<1>3. PICK n \in S : \A m \in S : ~ (<<m, n>> \in R)
  BY <1>1, <1>2, WFMin
<1>4. R = {r \in Nat \X Nat : r[1] < r[2]}
  BY <1>2, Zenon DEF OpToRel
<1>5. SUFFICES ASSUME NEW m \in S PROVE n <= m
  OBVIOUS
<1>6. n \in Nat /\ m \in Nat
  OBVIOUS
<1>7. <<m, n>> \in Nat \X Nat
  BY <1>6
<1>8. ~ (m < n)
  BY <1>3, <1>4, <1>7
<1> QED BY <1>6, <1>8

(* Skipping continuation bytes from a place ends at a character or at the  *)
(* end.                                                                    *)
LEMMA SkipFacts ==
    ASSUME NEW s \in Seq(Int), NEW begin, NEW from \in 0..Len(s)
    PROVE  /\ Skip(s, from, begin) \in from..Len(s)
           /\ Skip(s, from, begin) < Len(s) => s[Skip(s, from, begin) + 1] \in begin
           /\ \A i \in from..(Skip(s, from, begin) - 1) : s[i + 1] \notin begin
<1> DEFINE S == {k \in from..Len(s) : k < Len(s) => s[k + 1] \in begin}
<1>1. Len(s) \in Nat
  OBVIOUS
<1>2. Len(s) \in S
  BY <1>1
<1>3. S \subseteq Nat /\ S # {}
  BY <1>1, <1>2
<1>4. PICK k \in S : \A m \in S : k <= m
  <2> HIDE DEF S
  <2> QED BY <1>3, LeastNumber
<1>5. k \in from..Len(s) /\ (k < Len(s) => s[k + 1] \in begin)
  BY <1>4
<1>6. \A i \in from..(k - 1) : s[i + 1] \notin begin
  <2> SUFFICES ASSUME NEW i \in from..(k - 1), s[i + 1] \in begin PROVE FALSE
    OBVIOUS
  <2>1. i \in from..Len(s)
    BY <1>1, <1>5
  <2>2. i \in S
    BY <2>1
  <2>3. k <= i
    BY <1>4, <2>2
  <2> QED BY <1>1, <1>5, <2>3
<1> DEFINE Good(m) == /\ m < Len(s) => ~Continuation(s[m + 1], begin)
                      /\ \A i \in from..(m - 1) : Continuation(s[i + 1], begin)
<1>7. \E m \in from..Len(s) : Good(m)
  BY <1>5, <1>6 DEF Continuation
<1>8. Skip(s, from, begin) = CHOOSE m \in from..Len(s) : Good(m)
  BY DEF Skip
<1>9. PICK n : n = Skip(s, from, begin)
  OBVIOUS
<1>10. n \in from..Len(s) /\ Good(n)
  <2> HIDE DEF Good
  <2> QED BY <1>7, <1>8, <1>9
<1>11. /\ n \in from..Len(s)
       /\ n < Len(s) => s[n + 1] \in begin
       /\ \A i \in from..(n - 1) : s[i + 1] \notin begin
  BY <1>10 DEF Continuation
<1> QED BY <1>9, <1>11

(* The cut leaves at most output_limit bytes, from a character's start.    *)
LEMMA CutFacts ==
    ASSUME NEW s \in Seq(Int), NEW begin
    PROVE  LET k == CutAt(s, begin) IN
           /\ k \in 0..Len(s) /\ Len(s) - k <= output_limit
           /\ k < Len(s) => s[k + 1] \in begin
           /\ \A i \in 0..(k - 1) : Len(s) - i <= output_limit => s[i + 1] \notin begin
<1>1. Len(s) \in Nat /\ output_limit \in Nat
  BY OutputWindowAssumption
<1>2. PICK over : over = IF Len(s) > output_limit THEN Len(s) - output_limit ELSE 0
  OBVIOUS
<1>3. over \in 0..Len(s) /\ Len(s) - over <= output_limit
  BY <1>1, <1>2
<1>4. CutAt(s, begin) = Skip(s, over, begin)
  BY <1>2 DEF CutAt
<1>5. PICK k : k = CutAt(s, begin)
  OBVIOUS
<1>6. /\ k \in over..Len(s)
      /\ k < Len(s) => s[k + 1] \in begin
      /\ \A i \in over..(k - 1) : s[i + 1] \notin begin
  BY <1>3, <1>4, <1>5, SkipFacts
<1>7. k \in 0..Len(s) /\ Len(s) - k <= output_limit
  BY <1>1, <1>3, <1>6
<1>8. k < Len(s) => s[k + 1] \in begin
  BY <1>6
<1>9. \A i \in 0..(k - 1) : Len(s) - i <= output_limit => s[i + 1] \notin begin
  <2> SUFFICES ASSUME NEW i \in 0..(k - 1), Len(s) - i <= output_limit
               PROVE  s[i + 1] \notin begin
    OBVIOUS
  <2>1. i \in over..(k - 1)
    BY <1>1, <1>2, <1>7
  <2> QED BY <1>6, <2>1
<1> QED BY <1>5, <1>7, <1>8, <1>9

(* The last character of a chunk lies within the last four bytes.          *)
LEMMA LastCharacter ==
    ASSUME NEW from \in Nat, NEW to \in Nat, NEW begins \in SUBSET (from..(to - 1)),
           Chunk(from, to, begins)
    PROVE  \E p \in begins : p < to /\ to - p <= output_limit
<1> DEFINE S == {n \in Nat : to - n \in begins}
<1>1. from \in begins /\ from < to
  BY DEF Chunk
<1>2. to - from \in S
  BY <1>1
<1>3. S \subseteq Nat /\ S # {}
  BY <1>2
<1>4. PICK n \in S : \A m \in S : n <= m
  <2> HIDE DEF S
  <2> QED BY <1>3, LeastNumber
<1>5. PICK p : p = to - n
  OBVIOUS
<1>6. n \in Nat /\ p \in begins /\ p \in Nat /\ p < to
  BY <1>4, <1>5
<1>7. PICK w \in Widths : p + w \in begins \cup {to}
  BY <1>6 DEF Chunk
<1>8. w \in 1..4
  BY OutputWindowAssumption
<1>9. p + w \notin begins
  <2> SUFFICES ASSUME p + w \in begins PROVE FALSE
    OBVIOUS
  <2>1. to - (n - w) \in begins
    BY <1>5, <1>6, <1>8
  <2>2. p + w < to
    BY <1>6, <1>8
  <2>3. n - w \in S
    BY <1>5, <1>6, <1>8, <2>1, <2>2
  <2>4. n <= n - w
    BY <1>4, <2>3
  <2> QED BY <1>6, <1>8, <2>4
<1>10. p + w = to
  BY <1>7, <1>9
<1>11. to - p <= output_limit
  BY <1>6, <1>8, <1>10, OutputWindowAssumption
<1> QED BY <1>6, <1>11

(* The bytes of a chunk are positions that follow each other.              *)
LEMMA BytesFacts ==
    ASSUME NEW from \in Nat, NEW to \in Nat, from < to,
           NEW bytes, bytes = [i \in 1..(to - from) |-> from + i - 1]
    PROVE  /\ bytes \in Seq(Int) /\ Len(bytes) = to - from
           /\ \A i \in 1..Len(bytes) : bytes[i] = from + i - 1
<1>1. PICK n \in Nat : n = to - from
  OBVIOUS
<1>2. bytes = [i \in 1..n |-> from + i - 1]
  BY <1>1
<1>3. \A i \in 1..n : from + i - 1 \in Int
  OBVIOUS
<1>4. bytes \in [1..n -> Int]
  BY <1>2, <1>3
<1>5. bytes \in Seq(Int) /\ Len(bytes) = n
  BY <1>4
<1> QED BY <1>1, <1>2, <1>5

(* The elements of two sequences put together.                             *)
LEMMA JoinedFacts ==
    ASSUME NEW s \in Seq(Int), NEW t \in Seq(Int), NEW all, all = s \o t
    PROVE  /\ all \in Seq(Int) /\ Len(all) = Len(s) + Len(t)
           /\ \A i \in 1..Len(s) : all[i] = s[i]
           /\ \A i \in 1..Len(t) : all[Len(s) + i] = t[i]
           /\ \A i \in 1..Len(all) : i \in 1..Len(s) \/ (i - Len(s)) \in 1..Len(t)
  OBVIOUS

(* The elements of a stretch of a sequence.                                *)
LEMMA StretchFacts ==
    ASSUME NEW s \in Seq(Int), NEW m \in Nat, NEW n \in Nat, 1 <= m, m <= n + 1, n <= Len(s)
    PROVE  /\ SubSeq(s, m, n) \in Seq(Int) /\ Len(SubSeq(s, m, n)) = n + 1 - m
           /\ \A i \in 1..(n + 1 - m) : SubSeq(s, m, n)[i] = s[m + i - 1]
  OBVIOUS

(* Positions that follow each other still do when more are put behind.     *)
LEMMA ExtendedFacts ==
    ASSUME NEW out \in Seq(Int), NEW bytes \in Seq(Int), NEW tb \in Nat, NEW all,
           all = out \o bytes
    PROVE  /\ all \in Seq(Int) /\ Len(all) = Len(out) + Len(bytes)
           /\ (/\ \A i \in 1..Len(out) : out[i] = tb + i - 1
               /\ \A i \in 1..Len(bytes) : bytes[i] = tb + Len(out) + i - 1)
              => \A i \in 1..Len(all) : all[i] = tb + i - 1
<1>1. /\ all \in Seq(Int) /\ Len(all) = Len(out) + Len(bytes)
      /\ \A i \in 1..Len(out) : all[i] = out[i]
      /\ \A i \in 1..Len(bytes) : all[Len(out) + i] = bytes[i]
      /\ \A i \in 1..Len(all) : i \in 1..Len(out) \/ (i - Len(out)) \in 1..Len(bytes)
  BY JoinedFacts
<1>2. ASSUME \A i \in 1..Len(out) : out[i] = tb + i - 1,
             \A i \in 1..Len(bytes) : bytes[i] = tb + Len(out) + i - 1,
             NEW i \in 1..Len(all)
      PROVE  all[i] = tb + i - 1
  <2>1. CASE i \in 1..Len(out)
    BY <1>1, <1>2, <2>1
  <2>2. CASE i - Len(out) \in 1..Len(bytes)
    <3>1. PICK L \in Nat : L = Len(out)
      OBVIOUS
    <3>4. PICK m \in 1..Len(bytes) : m = i - L
      BY <2>2, <3>1
    <3>2. i = L + m /\ m \in Nat
      BY <3>4, <1>1
    <3>3. all[L + m] = tb + L + m - 1
      <4>1. all[L + m] = bytes[m]
        BY <1>1, <3>1
      <4> QED BY <1>2, <3>1, <4>1
    <3> QED BY <3>2, <3>3
  <2> QED BY <1>1, <2>1, <2>2
<1> QED BY <1>1, <1>2

(* What the cut keeps.                                                     *)
LEMMA KeptFacts ==
    ASSUME NEW all \in Seq(Int), NEW begin
    PROVE  LET n == CutAt(all, begin)
               kept == SubSeq(all, n + 1, Len(all)) IN
           /\ n \in 0..Len(all)
           /\ kept \in Seq(Int) /\ Len(kept) = Len(all) - n /\ Len(kept) <= output_limit
           /\ \A i \in 1..Len(kept) : kept[i] = all[n + i]
           /\ n < Len(all) => kept # <<>> /\ kept[1] \in begin
           /\ \A i \in 0..(Len(all) - 1) :
                 Len(all) - i <= output_limit /\ all[i + 1] \in begin => n <= i
<1>a. PICK n : n = CutAt(all, begin)
  OBVIOUS
<1>b. PICK m : m = n + 1
  OBVIOUS
<1>c. PICK kept : kept = SubSeq(all, m, Len(all))
  OBVIOUS
<1>1. /\ n \in 0..Len(all) /\ Len(all) - n <= output_limit
      /\ n < Len(all) => all[n + 1] \in begin
      /\ \A i \in 0..(n - 1) : Len(all) - i <= output_limit => all[i + 1] \notin begin
  BY <1>a, CutFacts, Zenon
<1>2. PICK A \in Nat : A = Len(all)
  OBVIOUS
<1>3. n \in Nat /\ n <= A /\ A - n <= output_limit
  BY <1>1, <1>2
<1>4. /\ kept \in Seq(Int) /\ Len(kept) = A - n
      /\ \A i \in 1..(A - n) : kept[i] = all[n + i]
  <2>1. m \in Nat /\ 1 <= m /\ m <= A + 1 /\ A <= A /\ A + 1 - m = A - n
    BY <1>b, <1>3
  <2>2. A <= Len(all) /\ kept = SubSeq(all, m, A)
    BY <1>2, <1>c
  <2>3. /\ kept \in Seq(Int) /\ Len(kept) = A + 1 - m
        /\ \A i \in 1..(A + 1 - m) : kept[i] = all[m + i - 1]
    BY <2>1, <2>2, StretchFacts
  <2>4. \A i \in 1..(A - n) : m + i - 1 = n + i
    BY <1>b, <1>3
  <2> QED BY <2>1, <2>3, <2>4
<1>5. n < A => kept # <<>> /\ kept[1] \in begin
  <2> SUFFICES ASSUME n < A PROVE kept # <<>> /\ kept[1] \in begin
    OBVIOUS
  <2>1. 1 \in 1..(A - n) /\ A - n # 0
    BY <1>3
  <2>2. kept # <<>>
    <3>1. Len(kept) # 0
      BY <1>4, <2>1
    <3> QED BY <3>1
  <2>3. kept[1] = all[n + 1]
    BY <1>4, <2>1
  <2> QED BY <1>1, <1>2, <2>2, <2>3
<1>6. ASSUME NEW i \in 0..(A - 1), A - i <= output_limit, all[i + 1] \in begin
      PROVE  n <= i
  <2>1. i \notin 0..(n - 1)
    BY <1>1, <1>2, <1>6
  <2> QED BY <1>3, <2>1
<1>7. /\ n \in 0..Len(all)
      /\ kept \in Seq(Int) /\ Len(kept) = Len(all) - n /\ Len(kept) <= output_limit
      /\ \A i \in 1..Len(kept) : kept[i] = all[n + i]
      /\ n < Len(all) => kept # <<>> /\ kept[1] \in begin
      /\ \A i \in 0..(Len(all) - 1) :
            Len(all) - i <= output_limit /\ all[i + 1] \in begin => n <= i
  BY <1>1, <1>2, <1>3, <1>4, <1>5, <1>6
<1> QED BY <1>a, <1>b, <1>c, <1>7, Zenon

(* The bytes before the cut: positions that follow each other, up to to.   *)
LEMMA GrownForm ==
    ASSUME NEW w \in Retained, Suffix(w), NEW to \in Nat, w.output_offset < to, NEW begin
    PROVE  LET bytes == [i \in 1..(to - w.output_offset) |-> w.output_offset + i - 1]
               all == w.output \o bytes
               kept == SubSeq(all, CutAt(all, begin) + 1, Len(all)) IN
           /\ all \in Seq(Int) /\ Len(all) = to - w.truncated_before
           /\ \A i \in 1..Len(all) : all[i] = w.truncated_before + i - 1
           /\ Grown(w, bytes, begin) = [output |-> kept, output_offset |-> to,
                                        truncated_before |-> to - Len(kept)]
<1>1. w.output \in Seq(Int) /\ w.output_offset \in Nat /\ w.truncated_before \in Nat
  BY DEF Retained
<1>2. PICK tb \in Nat, f \in Nat, out \in Seq(Int) :
         tb = w.truncated_before /\ out = w.output /\ f = w.output_offset
  BY <1>1
<1>3. PICK L \in Nat : L = Len(out)
  OBVIOUS
<1>4. f = tb + L /\ f < to
  BY <1>2, <1>3 DEF Suffix
<1>a. PICK bytes : bytes = [i \in 1..(to - f) |-> f + i - 1]
  OBVIOUS
<1>b. PICK all : all = out \o bytes
  OBVIOUS
<1>c. PICK kept : kept = SubSeq(all, CutAt(all, begin) + 1, Len(all))
  OBVIOUS
<1>5. /\ bytes \in Seq(Int) /\ Len(bytes) = to - f
      /\ \A i \in 1..Len(bytes) : bytes[i] = f + i - 1
  <2>1. f < to
    BY <1>4
  <2> QED BY <1>a, <2>1, BytesFacts
<1>6. f + Len(bytes) = to
  BY <1>5
<1>8. Grown(w, bytes, begin) = [output |-> kept, output_offset |-> to,
                                truncated_before |-> to - Len(kept)]
  BY <1>2, <1>6, <1>b, <1>c, Zenon DEF Grown
<1>9. /\ all \in Seq(Int) /\ Len(all) = Len(out) + Len(bytes)
      /\ \A i \in 1..Len(all) : all[i] = tb + i - 1
  <2>1. \A i \in 1..Len(bytes) : bytes[i] = tb + Len(out) + i - 1
    BY <1>3, <1>4, <1>5, Zenon
  <2>2. \A i \in 1..Len(out) : out[i] = tb + i - 1
    BY <1>2 DEF Suffix
  <2>3. bytes \in Seq(Int)
    BY <1>5
  <2> QED BY <1>b, <2>1, <2>2, <2>3, ExtendedFacts
<1>10. Len(all) = to - tb
  <2>1. L + (to - f) = to - tb
    BY <1>4
  <2> QED BY <1>3, <1>5, <1>9, <2>1, Zenon
<1>11. all \in Seq(Int) /\ Len(all) = to - tb /\ \A i \in 1..Len(all) : all[i] = tb + i - 1
  BY <1>9, <1>10
<1> QED BY <1>2, <1>8, <1>11, <1>a, <1>b, <1>c, Zenon

(* g is a window that ends at to, with the characters st.                  *)
EndsAt(g, to, st) ==
    /\ g \in Retained /\ g.output_offset = to
    /\ Len(g.output) <= output_limit
    /\ g.output_offset = g.truncated_before + Len(g.output)
    /\ \A i \in 1..Len(g.output) : g.output[i] = g.truncated_before + i - 1
    /\ g.output # <<>> /\ g.output[1] \in st

(***************************************************************************)
(* The window after a chunk: it ends where the chunk ends, holds the bytes *)
(* before that and begins with a character.                                *)
(***************************************************************************)
LEMMA GrownFacts ==
    ASSUME NEW w \in Retained, Suffix(w), starts \in SUBSET Nat,
           NEW to \in Nat, NEW begins \in SUBSET (w.output_offset..(to - 1)),
           Chunk(w.output_offset, to, begins),
           NEW bytes, bytes = [i \in 1..(to - w.output_offset) |-> w.output_offset + i - 1],
           NEW g, g = Grown(w, bytes, starts \cup begins)
    PROVE  EndsAt(g, to, starts \cup begins)
<1>1. PICK tb \in Nat, f \in Nat : tb = w.truncated_before /\ f = w.output_offset
  BY DEF Retained
<1>2. f \in begins /\ f < to /\ tb <= f
  <2>1. f \in begins /\ f < to
    BY <1>1 DEF Chunk
  <2>2. Len(w.output) \in Nat
    BY DEF Retained
  <2>3. f = tb + Len(w.output)
    BY <1>1 DEF Suffix
  <2> QED BY <2>1, <2>2, <2>3
<1>a. PICK begin : begin = starts \cup begins
  OBVIOUS
<1>b. PICK all : all = w.output \o bytes
  OBVIOUS
<1>c. PICK n : n = CutAt(all, begin)
  OBVIOUS
<1>d. PICK kept : kept = SubSeq(all, n + 1, Len(all))
  OBVIOUS
<1>3. /\ all \in Seq(Int) /\ Len(all) = to - tb
      /\ \A i \in 1..Len(all) : all[i] = tb + i - 1
      /\ g = [output |-> kept, output_offset |-> to, truncated_before |-> to - Len(kept)]
  <2>1. w.output_offset < to
    BY <1>1, <1>2
  <2> QED BY <1>1, <1>a, <1>b, <1>c, <1>d, <2>1, GrownForm, Zenon
<1>4. /\ n \in 0..Len(all)
      /\ kept \in Seq(Int) /\ Len(kept) = Len(all) - n /\ Len(kept) <= output_limit
      /\ \A i \in 1..Len(kept) : kept[i] = all[n + i]
      /\ n < Len(all) => kept # <<>> /\ kept[1] \in begin
      /\ \A i \in 0..(Len(all) - 1) :
            Len(all) - i <= output_limit /\ all[i + 1] \in begin => n <= i
  <2>1. all \in Seq(Int)
    BY <1>3
  <2>2. LET m == CutAt(all, begin)
            cut == SubSeq(all, m + 1, Len(all)) IN
        /\ m \in 0..Len(all)
        /\ cut \in Seq(Int) /\ Len(cut) = Len(all) - m /\ Len(cut) <= output_limit
        /\ \A i \in 1..Len(cut) : cut[i] = all[m + i]
        /\ m < Len(all) => cut # <<>> /\ cut[1] \in begin
        /\ \A i \in 0..(Len(all) - 1) :
              Len(all) - i <= output_limit /\ all[i + 1] \in begin => m <= i
    BY <2>1, KeptFacts, Zenon
  <2> QED BY <1>c, <1>d, <2>2, Zenon
<1>5. PICK A \in Nat : A = Len(all) /\ A = to - tb
  BY <1>2, <1>3
<1>6. n \in Nat /\ n <= A /\ Len(kept) = A - n
  BY <1>4, <1>5
<1>7. PICK p \in begins : p < to /\ to - p <= output_limit
  BY <1>1, LastCharacter
<1>8. p \in Nat /\ f <= p
  BY <1>1
<1>9. n < A
  <2>1. PICK i \in Nat : i = p - tb
    BY <1>2, <1>8
  <2>2. i \in 0..(A - 1) /\ A - i <= output_limit /\ i + 1 \in 1..A
    BY <1>5, <1>7, <1>8, <2>1
  <2>3. all[i + 1] = tb + (i + 1) - 1
    BY <1>3, <1>5, <2>2
  <2>4. all[i + 1] = p
    BY <1>8, <2>1, <2>3
  <2>5. n <= i
    BY <1>4, <1>5, <1>7, <1>a, <2>2, <2>4
  <2> QED BY <1>6, <2>2, <2>5
<1>10. to - Len(kept) = tb + n
  BY <1>5, <1>6
<1>11. g.output = kept /\ g.output_offset = to /\ g.truncated_before = tb + n
  BY <1>3, <1>10
<1>12. g \in Retained
  <2>a. tb + n \in Nat
    BY <1>6
  <2>1. tb + n \in Nat /\ g = [output |-> kept, output_offset |-> to, truncated_before |-> tb + n]
    BY <1>3, <1>10, <2>a, Zenon
  <2>2. kept \in Seq(Int)
    BY <1>4
  <2> QED BY <2>1, <2>2 DEF Retained
<1>13. to = tb + n + Len(kept)
  BY <1>5, <1>6
<1>14. \A i \in 1..Len(kept) : kept[i] = tb + n + i - 1
  <2> SUFFICES ASSUME NEW i \in 1..Len(kept) PROVE kept[i] = tb + n + i - 1
    OBVIOUS
  <2>1. i \in Nat /\ n + i \in 1..A
    BY <1>6
  <2>2. all[n + i] = tb + (n + i) - 1
    BY <1>3, <1>5, <2>1
  <2>3. kept[i] = all[n + i]
    BY <1>4
  <2> QED BY <1>6, <2>1, <2>2, <2>3
<1> QED BY <1>4, <1>5, <1>9, <1>11, <1>12, <1>13, <1>14, <1>a DEF EndsAt

(* The larger of two numbers.                                              *)
LEMMA MaxOfTwo ==
    ASSUME NEW a \in Int, NEW b \in Int
    PROVE  Max({a, b}) = IF a > b THEN a ELSE b
  BY DEF Max

Answers == [output : Seq(Int), output_offset : Nat, truncated_before : Nat, terminal : BOOLEAN]

(***************************************************************************)
(* What get answers: the retained output from the offset on, or from the   *)
(* first retained byte when the offset is before it.                       *)
(***************************************************************************)
LEMMA SnapshotFacts ==
    ASSUME WindowTypes, AgentInv, Edge(offset), offset <= window.output_offset,
           NEW a, a = Snapshot(offset)
    PROVE  /\ a \in Answers /\ a.output_offset = window.output_offset
           /\ Valid(a)
           /\ \A i \in 1..Len(a.output) : a.output[i] = a.truncated_before + i - 1
           /\ a.truncated_before >= offset
           /\ a.truncated_before > offset => a.output # <<>> /\ offset \in starts
<1>1. /\ window.output \in Seq(Int) /\ window.output_offset \in Nat
      /\ window.truncated_before \in Nat /\ offset \in Nat
  BY DEF WindowTypes, Retained
<1>2. PICK out \in Seq(Int), tb \in Nat, oo \in Nat :
         out = window.output /\ tb = window.truncated_before /\ oo = window.output_offset
  BY <1>1
<1>3. PICK L \in Nat : L = Len(out)
  OBVIOUS
<1>4. /\ oo = tb + L /\ offset <= oo
      /\ \A i \in 1..L : out[i] = tb + i - 1
      /\ L > 0 => tb \in starts
      /\ oo > 0 => L > 0
  <2>1. oo = tb + L /\ offset <= oo
    BY <1>2, <1>3 DEF AgentInv, RetainedInv, Suffix
  <2>2. \A i \in 1..L : out[i] = tb + i - 1
    BY <1>2, <1>3 DEF AgentInv, RetainedInv, Suffix
  <2>3. L > 0 => out[1] \in starts
    BY <1>2, <1>3 DEF AgentInv, RetainedInv, Suffix
  <2>4. L > 0 => out[1] = tb
    BY <2>2
  <2>5. oo > 0 => L > 0
    BY <1>2, <1>3 DEF AgentInv, RetainedInv
  <2> QED BY <2>1, <2>2, <2>3, <2>4, <2>5
<1>5. PICK requested \in Nat : requested = IF offset > tb THEN offset ELSE tb
  BY <1>1
<1>6. requested = Max({offset, tb})
  BY <1>1, <1>5, MaxOfTwo
<1>7. PICK index \in Nat : index = requested - tb /\ index <= L
  BY <1>1, <1>4, <1>5
<1>8. index < L => out[index + 1] = requested /\ requested \in starts
  <2> SUFFICES ASSUME index < L PROVE out[index + 1] = requested /\ requested \in starts
    OBVIOUS
  <2>1. index + 1 \in 1..L
    OBVIOUS
  <2>2. out[index + 1] = tb + (index + 1) - 1
    BY <1>4, <2>1
  <2>3. out[index + 1] = requested
    BY <1>7, <2>2
  <2>4. CASE requested = tb
    BY <1>4, <2>3, <2>4
  <2>5. CASE requested = offset
    <3>1. offset < oo
      BY <1>1, <1>4, <1>7, <2>5
    <3>2. offset \in starts
      BY <1>1, <1>2, <3>1 DEF Edge
    <3> QED BY <2>3, <2>5, <3>2
  <2> QED BY <1>5, <2>4, <2>5
<1>9. Skip(out, index, starts) = index
  <2>1. PICK k : k = Skip(out, index, starts)
    OBVIOUS
  <2>2. index \in 0..Len(out)
    BY <1>3, <1>7
  <2>3. /\ k \in index..Len(out)
        /\ \A i \in index..(k - 1) : out[i + 1] \notin starts
    BY <2>1, <2>2, SkipFacts
  <2>4. k \in Nat /\ k <= L /\ index <= k
    BY <1>3, <1>7, <2>3
  <2>5. ASSUME index < k PROVE FALSE
    <3>1. index \in index..(k - 1)
      BY <2>4, <2>5
    <3>2. index < L
      BY <2>4, <2>5
    <3> QED BY <1>8, <2>3, <3>1, <3>2
  <2> QED BY <2>1, <2>4, <2>5
<1>10. PICK cut : cut = SubSeq(out, index + 1, L)
  OBVIOUS
<1>11. /\ cut \in Seq(Int) /\ Len(cut) = L - index
       /\ \A i \in 1..(L - index) : cut[i] = out[index + i]
  <2>1. PICK m \in Nat : m = index + 1
    OBVIOUS
  <2>2. 1 <= m /\ m <= L + 1 /\ L <= Len(out)
    BY <1>3, <1>7, <2>1
  <2>3. /\ SubSeq(out, m, L) \in Seq(Int) /\ Len(SubSeq(out, m, L)) = L + 1 - m
        /\ \A i \in 1..(L + 1 - m) : SubSeq(out, m, L)[i] = out[m + i - 1]
    BY <2>2, StretchFacts
  <2>4. /\ cut \in Seq(Int) /\ Len(cut) = L + 1 - m
        /\ \A i \in 1..(L + 1 - m) : cut[i] = out[m + i - 1]
    BY <1>10, <2>1, <2>3, Zenon
  <2>5. L + 1 - m = L - index /\ \A i \in 1..(L - index) : m + i - 1 = index + i
    BY <1>7, <2>1
  <2> QED BY <2>4, <2>5
<1>12. a = [output |-> cut, output_offset |-> oo, truncated_before |-> requested + (index - index),
            terminal |-> status = "terminal"]
  BY <1>2, <1>3, <1>6, <1>7, <1>9, <1>10, Zenon DEF Snapshot
<1>13. requested + (index - index) = requested
  OBVIOUS
<1>14. a = [output |-> cut, output_offset |-> oo, truncated_before |-> requested,
            terminal |-> status = "terminal"]
  BY <1>12, <1>13
<1>15. a.output = cut /\ a.output_offset = oo /\ a.truncated_before = requested
  BY <1>14
<1>16. a \in Answers
  <2>1. (status = "terminal") \in BOOLEAN
    OBVIOUS
  <2>2. cut \in Seq(Int)
    BY <1>11
  <2> QED BY <1>14, <2>1, <2>2 DEF Answers
<1>17. \A i \in 1..Len(cut) : cut[i] = requested + i - 1
  <2> SUFFICES ASSUME NEW i \in 1..(L - index) PROVE cut[i] = requested + i - 1
    BY <1>11
  <2>1. i \in Nat /\ index + i \in 1..L
    BY <1>7
  <2>2. out[index + i] = tb + (index + i) - 1
    BY <1>4, <2>1
  <2>3. tb + (index + i) - 1 = requested + i - 1
    BY <1>7, <2>1
  <2> QED BY <1>11, <2>2, <2>3
<1>18. Valid(a)
  <2>1. oo = requested + Len(cut)
    BY <1>4, <1>7, <1>11
  <2>2. cut # <<>> => cut[1] \in starts
    <3> SUFFICES ASSUME cut # <<>> PROVE cut[1] \in starts
      OBVIOUS
    <3>1. Len(cut) # 0
      BY <1>11
    <3>2. index < L /\ 1 \in 1..(L - index)
      BY <1>7, <1>11, <3>1
    <3>3. cut[1] = out[index + 1]
      BY <1>11, <3>2
    <3> QED BY <1>8, <3>2, <3>3
  <2> QED BY <1>15, <2>1, <2>2 DEF Valid
<1>19. requested >= offset
  BY <1>1, <1>5
<1>20. ASSUME requested > offset PROVE cut # <<>> /\ offset \in starts
  <2>1. requested = tb /\ tb > offset /\ index = 0
    BY <1>1, <1>5, <1>7, <1>20
  <2>2. L > 0 /\ tb \in starts
    BY <1>1, <1>4, <2>1
  <2>3. cut # <<>>
    <3>1. Len(cut) > 0
      BY <1>11, <2>1, <2>2
    <3> QED BY <3>1
  <2>4. offset \in starts
    BY <1>1, <2>1, <2>2 DEF Edge
  <2> QED BY <2>3, <2>4
<1> QED BY <1>2, <1>15, <1>16, <1>17, <1>18, <1>19, <1>20

(***************************************************************************)
(* text is the characters that begin between two places, in order.         *)
(***************************************************************************)
Enumerates(text, from, to) ==
    /\ text \in Seq(Int)
    /\ \A i \in 1..Len(text) : text[i] \in starts /\ from <= text[i] /\ text[i] < to
    /\ \A i \in 1..(Len(text) - 1) : Successive(text[i], text[i + 1])
    /\ \A p \in starts : from <= p /\ p < to =>
          Len(text) > 0 /\ text[1] <= p /\ p <= text[Len(text)]

(* One more byte is one more character or none.                            *)
LEMMA EnumeratesNext ==
    ASSUME starts \in SUBSET Nat, NEW from \in Nat, NEW to \in Nat, from <= to,
           NEW text, Enumerates(text, from, to)
    PROVE  /\ to \notin starts => Enumerates(text, from, to + 1)
           /\ to \in starts => Enumerates(Append(text, to), from, to + 1)
<1>1. /\ text \in Seq(Int)
      /\ \A i \in 1..Len(text) : text[i] \in starts /\ from <= text[i] /\ text[i] < to
      /\ \A i \in 1..(Len(text) - 1) : Successive(text[i], text[i + 1])
      /\ \A p \in starts : from <= p /\ p < to =>
            Len(text) > 0 /\ text[1] <= p /\ p <= text[Len(text)]
  BY DEF Enumerates
<1>2. PICK n \in Nat : n = Len(text)
  BY <1>1
<1>3. \A i \in 1..n : text[i] \in Nat
  BY <1>1, <1>2
<1>4. ASSUME to \notin starts PROVE Enumerates(text, from, to + 1)
  <2>1. \A i \in 1..Len(text) : text[i] < to + 1
    BY <1>1, <1>2, <1>3
  <2>2. \A p \in starts : p < to + 1 => p < to
    BY <1>4
  <2> QED BY <1>1, <2>1, <2>2 DEF Enumerates
<1>5. ASSUME to \in starts PROVE Enumerates(Append(text, to), from, to + 1)
  <2>1. PICK new : new = Append(text, to)
    OBVIOUS
  <2>2. /\ new \in Seq(Int) /\ Len(new) = n + 1
        /\ \A i \in 1..n : new[i] = text[i]
        /\ new[n + 1] = to
    BY <1>1, <1>2, <2>1
  <2>3. \A i \in 1..(n + 1) : new[i] \in starts /\ from <= new[i] /\ new[i] < to + 1
    <3> SUFFICES ASSUME NEW i \in 1..(n + 1)
                 PROVE  new[i] \in starts /\ from <= new[i] /\ new[i] < to + 1
      OBVIOUS
    <3>1. CASE i \in 1..n
      BY <1>1, <1>2, <1>3, <2>2, <3>1
    <3>2. CASE i = n + 1
      BY <1>5, <2>2, <3>2
    <3> QED BY <3>1, <3>2
  <2>4. \A i \in 1..n : Successive(new[i], new[i + 1])
    <3> SUFFICES ASSUME NEW i \in 1..n PROVE Successive(new[i], new[i + 1])
      OBVIOUS
    <3>1. CASE i < n
      <4>1. i \in 1..(Len(text) - 1) /\ i + 1 \in 1..n
        BY <1>2, <3>1
      <4> QED BY <1>1, <2>2, <4>1
    <3>2. CASE i = n
      <4>1. new[i] = text[n] /\ new[i + 1] = to /\ text[n] < to /\ text[n] \in Nat
        BY <1>1, <1>2, <1>3, <2>2, <3>2
      <4>2. \A p \in starts : ~ (text[n] < p /\ p < to)
        <5> SUFFICES ASSUME NEW p \in starts, text[n] < p, p < to PROVE FALSE
          OBVIOUS
        <5>1. n \in 1..n /\ p \in Nat
          BY <3>2
        <5>2. from <= text[n]
          BY <1>1, <1>2, <5>1
        <5>3. from <= p
          BY <4>1, <5>1, <5>2
        <5>4. p <= text[n]
          BY <1>1, <1>2, <5>3
        <5> QED BY <4>1, <5>1, <5>4
      <4> QED BY <4>1, <4>2 DEF Successive, Characters
    <3> QED BY <3>1, <3>2
  <2>5. ASSUME NEW p \in starts, from <= p, p < to + 1
        PROVE  n + 1 > 0 /\ new[1] <= p /\ p <= new[n + 1]
    <3>1. p \in Nat /\ p <= to
      BY <2>5
    <3>2. new[1] <= p
      <4>1. CASE n = 0
        <5>1. new[1] = to
          BY <2>2, <4>1
        <5>2. ~ (p < to)
          BY <1>1, <1>2, <2>5, <4>1
        <5> QED BY <3>1, <5>1, <5>2
      <4>2. CASE n > 0
        <5>1. 1 \in 1..n
          BY <4>2
        <5>2. new[1] = text[1] /\ text[1] < to /\ text[1] \in Nat
          BY <1>1, <1>2, <1>3, <2>2, <5>1
        <5> QED BY <1>1, <2>5, <3>1, <5>2
      <4> QED BY <4>1, <4>2
    <3> QED BY <2>2, <3>1, <3>2
  <2>6. \A i \in 1..(Len(new) - 1) : Successive(new[i], new[i + 1])
    BY <2>2, <2>4
  <2>7. Enumerates(new, from, to + 1)
    BY <2>2, <2>3, <2>5, <2>6 DEF Enumerates
  <2> QED BY <2>1, <2>7
<1> QED BY <1>4, <1>5

(* Reading s byte by byte, as far as n.                                    *)
Reads(f, s, n) ==
    /\ f = [i \in 0..n |-> f[i]]
    /\ f[0] = <<>>
    /\ \A i \in 1..n : f[i] = IF s[i] \in starts THEN Append(f[i - 1], s[i]) ELSE f[i - 1]

(***************************************************************************)
(* The recursion in Text is well founded.                                  *)
(***************************************************************************)
LEMMA ReadsExist ==
    ASSUME NEW s, NEW n \in Nat
    PROVE  \E f : Reads(f, s, n)
<1> DEFINE S == {m \in Nat : ~ \E f : Reads(f, s, m)}
<1> SUFFICES ASSUME S # {} PROVE FALSE
  OBVIOUS
<1>1. S \subseteq Nat
  OBVIOUS
<1>2. PICK m \in S : \A k \in S : m <= k
  <2> HIDE DEF S
  <2> QED BY <1>1, LeastNumber
<1>3. m \in Nat /\ ~ \E f : Reads(f, s, m)
  BY <1>2
<1>4. m # 0
  <2> SUFFICES ASSUME m = 0 PROVE FALSE
    OBVIOUS
  <2>1. PICK f : f = [i \in 0..0 |-> <<>>]
    OBVIOUS
  <2>2. Reads(f, s, 0)
    BY <2>1 DEF Reads
  <2> QED BY <1>3, <2>2
<1>5. PICK k \in Nat : m = k + 1
  BY <1>3, <1>4
<1>6. k \notin S
  BY <1>2, <1>5
<1>7. PICK f : Reads(f, s, k)
  BY <1>6
<1>8. PICK last : last = IF s[m] \in starts THEN Append(f[k], s[m]) ELSE f[k]
  OBVIOUS
<1>9. PICK g : g = [i \in 0..m |-> IF i = m THEN last ELSE f[i]]
  OBVIOUS
<1>10. /\ g = [i \in 0..m |-> g[i]]
       /\ \A i \in 0..k : g[i] = f[i]
       /\ g[m] = last
  BY <1>5, <1>9
<1>11. g[0] = <<>>
  <2>1. 0 \in 0..k
    OBVIOUS
  <2>2. f[0] = <<>>
    BY <1>7 DEF Reads
  <2> QED BY <1>10, <2>1, <2>2
<1>12. \A i \in 1..m : g[i] = IF s[i] \in starts THEN Append(g[i - 1], s[i]) ELSE g[i - 1]
  <2> SUFFICES ASSUME NEW i \in 1..m
               PROVE  g[i] = IF s[i] \in starts THEN Append(g[i - 1], s[i]) ELSE g[i - 1]
    OBVIOUS
  <2>4. i - 1 \in 0..k
    BY <1>5
  <2>1. g[i - 1] = f[i - 1]
    BY <1>10, <2>4
  <2>2. CASE i = m
    <3>1. i - 1 = k
      BY <1>5, <2>2
    <3> QED BY <1>8, <1>10, <2>1, <2>2, <3>1
  <2>3. CASE i \in 1..k
    <3>3. i \in 0..k
      BY <2>3
    <3>1. g[i] = f[i]
      BY <1>10, <3>3
    <3>2. f[i] = IF s[i] \in starts THEN Append(f[i - 1], s[i]) ELSE f[i - 1]
      BY <1>7, <2>3 DEF Reads
    <3> QED BY <2>1, <3>1, <3>2
  <2> QED BY <1>5, <2>2, <2>3
<1>13. Reads(g, s, m)
  BY <1>10, <1>11, <1>12 DEF Reads
<1> QED BY <1>3, <1>13

(* Text is what such a reading has at the end.                             *)
LEMMA TextReads ==
    ASSUME NEW a, NEW s \in Seq(Int), s = a.output
    PROVE  \E f : Reads(f, s, Len(s)) /\ Text(a) = f[Len(s)]
<1> DEFINE Body(f) == [i \in 0..Len(s) |->
                         IF i = 0 THEN <<>>
                         ELSE IF s[i] \in starts THEN Append(f[i - 1], s[i])
                         ELSE f[i - 1]]
<1>1. Len(s) \in Nat
  OBVIOUS
<1>2. \E f : f = Body(f)
  <2>1. PICK f : Reads(f, s, Len(s))
    BY <1>1, ReadsExist
  <2>2. f = [i \in 0..Len(s) |-> f[i]]
    BY <2>1 DEF Reads
  <2>3. ASSUME NEW i \in 0..Len(s)
        PROVE  f[i] = IF i = 0 THEN <<>>
                      ELSE IF s[i] \in starts THEN Append(f[i - 1], s[i])
                      ELSE f[i - 1]
    <3>1. CASE i = 0
      BY <2>1, <3>1 DEF Reads
    <3>2. CASE i # 0
      <4>1. i \in 1..Len(s)
        BY <1>1, <3>2
      <4> QED BY <2>1, <3>2, <4>1 DEF Reads
    <3> QED BY <3>1, <3>2
  <2>4. f = Body(f)
    BY <2>2, <2>3
  <2> QED BY <2>4
<1>3. PICK f : f = CHOOSE g : g = Body(g)
  OBVIOUS
<1>4. f = Body(f)
  <2> HIDE DEF Body
  <2> QED BY <1>2, <1>3
<1>5. Text(a) = f[Len(s)]
  BY <1>3, Zenon DEF Text
<1>6. Reads(f, s, Len(s))
  <2>1. f = [i \in 0..Len(s) |-> f[i]]
    BY <1>4
  <2>2. f[0] = <<>>
    BY <1>1, <1>4
  <2>3. \A i \in 1..Len(s) :
           f[i] = IF s[i] \in starts THEN Append(f[i - 1], s[i]) ELSE f[i - 1]
    <3> SUFFICES ASSUME NEW i \in 1..Len(s)
                 PROVE  f[i] = IF s[i] \in starts THEN Append(f[i - 1], s[i]) ELSE f[i - 1]
      OBVIOUS
    <3>1. i \in 0..Len(s) /\ i # 0
      BY <1>1
    <3>2. f[i] = Body(f)[i]
      BY <1>4, Zenon
    <3>3. Body(f)[i] = IF i = 0 THEN <<>>
                       ELSE IF s[i] \in starts THEN Append(f[i - 1], s[i])
                       ELSE f[i - 1]
      BY <3>1, Zenon
    <3> QED BY <3>1, <3>2, <3>3, Zenon
  <2> QED BY <2>1, <2>2, <2>3 DEF Reads
<1> QED BY <1>5, <1>6

(***************************************************************************)
(* The text of a snapshot is the characters that begin in it, in order.    *)
(***************************************************************************)
LEMMA TextFacts ==
    ASSUME starts \in SUBSET Nat, NEW a \in Answers, Valid(a),
           \A i \in 1..Len(a.output) : a.output[i] = a.truncated_before + i - 1
    PROVE  /\ Enumerates(Text(a), a.truncated_before, a.output_offset)
           /\ a.output # <<>> => Len(Text(a)) > 0
<1>1. a.output \in Seq(Int) /\ a.output_offset \in Nat /\ a.truncated_before \in Nat
  BY DEF Answers
<1>2. PICK s \in Seq(Int), tb \in Nat, n \in Nat :
         s = a.output /\ tb = a.truncated_before /\ n = Len(s)
  BY <1>1
<1>3. PICK f : Reads(f, s, n) /\ Text(a) = f[n]
  BY <1>2, TextReads
<1>4. /\ f[0] = <<>>
      /\ \A i \in 1..n : f[i] = IF s[i] \in starts THEN Append(f[i - 1], s[i]) ELSE f[i - 1]
  BY <1>3 DEF Reads
<1>5. \A i \in 1..n : s[i] = tb + i - 1
  BY <1>2, Zenon
<1> DEFINE S == {i \in Nat : i <= n /\ ~Enumerates(f[i], tb, tb + i)}
<1>6. S = {}
  <2> SUFFICES ASSUME S # {} PROVE FALSE
    OBVIOUS
  <2>1. S \subseteq Nat
    OBVIOUS
  <2>2. PICK m \in S : \A k \in S : m <= k
    <3> HIDE DEF S
    <3> QED BY <2>1, LeastNumber
  <2>3. m \in Nat /\ m <= n /\ ~Enumerates(f[m], tb, tb + m)
    BY <2>2
  <2>4. Enumerates(f[0], tb, tb + 0)
    BY <1>4 DEF Enumerates
  <2>5. m # 0
    BY <2>3, <2>4
  <2>6. PICK k \in Nat : m = k + 1
    BY <2>3, <2>5
  <2>7. k \notin S /\ k <= n
    BY <2>2, <2>3, <2>6
  <2>8. Enumerates(f[k], tb, tb + k)
    BY <2>7
  <2>9. tb + k \in Nat /\ tb <= tb + k /\ (tb + k) + 1 = tb + m
    BY <2>6
  <2>10. /\ tb + k \notin starts => Enumerates(f[k], tb, tb + m)
         /\ tb + k \in starts => Enumerates(Append(f[k], tb + k), tb, tb + m)
    <3>1. PICK to \in Nat : to = tb + k
      BY <2>9
    <3>2. /\ to \notin starts => Enumerates(f[k], tb, to + 1)
          /\ to \in starts => Enumerates(Append(f[k], to), tb, to + 1)
      BY <2>8, <2>9, <3>1, EnumeratesNext
    <3> QED BY <2>9, <3>1, <3>2
  <2>11. m \in 1..n /\ m - 1 = k
    <3>1. k + 1 <= n
      BY <2>3, <2>6
    <3>2. k + 1 \in 1..n /\ (k + 1) - 1 = k
      BY <3>1
    <3> QED BY <2>6, <3>2
  <2>12. s[m] = tb + k
    BY <1>5, <2>6, <2>11
  <2>13. f[m] = IF tb + k \in starts THEN Append(f[k], tb + k) ELSE f[k]
    BY <1>4, <2>11, <2>12
  <2> QED BY <2>3, <2>10, <2>13
<1>7. Enumerates(f[n], tb, tb + n)
  BY <1>6
<1>8. a.output_offset = tb + n
  BY <1>2 DEF Valid
<1>9. ASSUME a.output # <<>> PROVE Len(f[n]) > 0
  <2>1. n > 0
    <3>1. s # <<>>
      BY <1>2, <1>9
    <3>2. Len(s) # 0
      BY <3>1
    <3> QED BY <1>2, <3>2
  <2>4. 1 \in 1..n /\ tb + 1 - 1 = tb
    BY <2>1
  <2>5. s[1] = tb
    BY <1>5, <2>4
  <2>2. s[1] = tb /\ s[1] \in starts
    BY <1>2, <1>9, <2>5 DEF Valid
  <2>3. tb \in starts /\ tb <= tb /\ tb < tb + n
    BY <2>1, <2>2
  <2> QED BY <1>7, <2>3 DEF Enumerates
<1> QED BY <1>2, <1>3, <1>7, <1>8, <1>9

(* The places behind a place of a sequence.                                *)
LEMMA PlacesBehind ==
    ASSUME NEW n \in Nat, NEW m \in Nat, n <= m, NEW i \in 1..(n - 1)
    PROVE  /\ i \in 1..(m - 1) /\ i \in 1..n /\ i + 1 \in 1..n
           /\ i + 2 <= n => i + 2 \in 1..n /\ i + 2 <= m
  OBVIOUS

(* What is linked is linked as far as any place.                           *)
LEMMA LinkedPrefix ==
    ASSUME NEW s \in Seq(Int), Linked(s), NEW n \in Nat, n <= Len(s),
           NEW t \in Seq(Int), Len(t) = n, \A i \in 1..n : t[i] = s[i]
    PROVE  Linked(t)
<1>1. SUFFICES ASSUME NEW i \in 1..(n - 1)
               PROVE  /\ t[i] # Marker /\ t[i + 1] # Marker => Successive(t[i], t[i + 1])
                      /\ t[i + 1] = Marker => t[i] # Marker
                      /\ t[i + 1] = Marker /\ i + 2 <= n =>
                            t[i] < t[i + 2] /\ Characters(t[i], t[i + 2]) # {}
  BY DEF Linked
<1>2. /\ i \in 1..(Len(s) - 1) /\ i \in 1..n /\ i + 1 \in 1..n
      /\ i + 2 <= n => i + 2 \in 1..n /\ i + 2 <= Len(s)
  <2>1. PICK m \in Nat : m = Len(s) /\ n <= m
    OBVIOUS
  <2>2. /\ i \in 1..(m - 1) /\ i \in 1..n /\ i + 1 \in 1..n
        /\ i + 2 <= n => i + 2 \in 1..n /\ i + 2 <= m
    BY <1>1, <2>1, PlacesBehind, Zenon
  <2> QED BY <2>1, <2>2, Zenon
<1>3. t[i] = s[i] /\ t[i + 1] = s[i + 1]
  BY <1>2, Zenon
<1>4. i + 2 <= n => i + 2 <= Len(s) /\ t[i + 2] = s[i + 2]
  BY <1>2, Zenon
<1>5. /\ s[i] # Marker /\ s[i + 1] # Marker => Successive(s[i], s[i + 1])
      /\ s[i + 1] = Marker => s[i] # Marker
      /\ s[i + 1] = Marker /\ i + 2 <= Len(s) =>
            s[i] < s[i + 2] /\ Characters(s[i], s[i + 2]) # {}
  BY <1>2, Zenon DEF Linked
<1> QED BY <1>3, <1>4, <1>5, Zenon

(* s has what was read, as far as to.                                      *)
Covers(s, to) ==
    /\ s \in Seq(Int) /\ Len(s) > 0
    /\ Linked(s)
    /\ UpTo(s, to)
    /\ \A i \in 1..Len(s) : s[i] < to

(* The parts of Covers, with the last element by its index.                *)
LEMMA CoversFacts ==
    ASSUME NEW s, NEW to \in Nat, Covers(s, to)
    PROVE  \E n \in Nat :
              /\ n = Len(s) /\ n > 0 /\ s[n] \in Int
              /\ s[n] # Marker /\ s[n] < to /\ \A p \in starts : ~ (s[n] < p /\ p < to)
              /\ \A i \in 1..n : s[i] < to /\ s[i] \in Int
              /\ \A i \in 1..(n - 1) :
                    /\ s[i] # Marker /\ s[i + 1] # Marker => Successive(s[i], s[i + 1])
                    /\ s[i + 1] = Marker => s[i] # Marker
                    /\ s[i + 1] = Marker /\ i + 2 <= n =>
                          s[i] < s[i + 2] /\ Characters(s[i], s[i + 2]) # {}
<1>1. PICK n \in Nat : n = Len(s)
  BY DEF Covers
<1>2. n > 0 /\ s[n] \in Int /\ \A i \in 1..n : s[i] < to /\ s[i] \in Int
  BY <1>1 DEF Covers
<1>3. s[n] # Marker /\ s[n] < to /\ \A p \in starts : ~ (s[n] < p /\ p < to)
  BY <1>1 DEF Covers, UpTo, Last, Characters
<1>4. \A i \in 1..(n - 1) :
         /\ s[i] # Marker /\ s[i + 1] # Marker => Successive(s[i], s[i + 1])
         /\ s[i + 1] = Marker => s[i] # Marker
         /\ s[i + 1] = Marker /\ i + 2 <= n =>
               s[i] < s[i + 2] /\ Characters(s[i], s[i + 2]) # {}
  BY <1>1 DEF Covers, Linked
<1> QED BY <1>1, <1>2, <1>3, <1>4

(***************************************************************************)
(* What was read, followed by the text that comes next, is what was read   *)
(* up to there.                                                            *)
(***************************************************************************)
LEMMA LinkedText ==
    ASSUME starts \in SUBSET Nat, NEW from \in Nat, NEW to \in Nat, from <= to,
           NEW s, Covers(s, from), NEW text, Enumerates(text, from, to)
    PROVE  Covers(s \o text, to)
<1>1. s \in Seq(Int) /\ text \in Seq(Int)
  BY DEF Covers, Enumerates
<1>2. PICK all : all = s \o text
  OBVIOUS
<1>3. PICK n \in Nat :
         /\ n = Len(s) /\ n > 0 /\ s[n] \in Int
         /\ s[n] # Marker /\ s[n] < from /\ \A p \in starts : ~ (s[n] < p /\ p < from)
         /\ \A i \in 1..n : s[i] < from /\ s[i] \in Int
         /\ \A i \in 1..(n - 1) :
               /\ s[i] # Marker /\ s[i + 1] # Marker => Successive(s[i], s[i + 1])
               /\ s[i + 1] = Marker => s[i] # Marker
               /\ s[i + 1] = Marker /\ i + 2 <= n =>
                     s[i] < s[i + 2] /\ Characters(s[i], s[i + 2]) # {}
  BY CoversFacts
<1>4. PICK k \in Nat : k = Len(text)
  BY <1>1
<1>5. /\ \A j \in 1..k : text[j] \in starts /\ from <= text[j] /\ text[j] < to
      /\ \A j \in 1..(k - 1) : Successive(text[j], text[j + 1])
      /\ \A p \in starts : from <= p /\ p < to => k > 0 /\ text[1] <= p /\ p <= text[k]
  BY <1>4 DEF Enumerates
<1>6. \A j \in 1..k : text[j] \in Nat /\ text[j] # Marker
  <2> SUFFICES ASSUME NEW j \in 1..k PROVE text[j] \in Nat /\ text[j] # Marker
    OBVIOUS
  <2>1. text[j] \in starts
    BY <1>5
  <2>2. text[j] \in Nat
    BY <2>1
  <2> QED BY <2>2 DEF Marker
<1>7. /\ all \in Seq(Int) /\ Len(all) = n + k
      /\ \A i \in 1..n : all[i] = s[i]
      /\ \A i \in 1..k : all[n + i] = text[i]
  <2>1. /\ all \in Seq(Int) /\ Len(all) = Len(s) + Len(text)
        /\ \A i \in 1..Len(s) : all[i] = s[i]
        /\ \A i \in 1..Len(text) : all[Len(s) + i] = text[i]
    BY <1>1, <1>2, JoinedFacts
  <2>2. n = Len(s)
    BY <1>3
  <2> QED BY <1>4, <2>1, <2>2, Zenon
<1>8. ASSUME NEW i \in 1..(n + k) PROVE all[i] < to
  <2>1. CASE i \in 1..n
    BY <1>3, <1>7, <2>1
  <2>2. CASE i \notin 1..n
    <3>1. PICK j \in 1..k : i = n + j
      BY <2>2
    <3> QED BY <1>5, <1>7, <3>1
  <2> QED BY <2>1, <2>2
<1>9. ASSUME NEW i \in 1..(n + k - 1)
      PROVE  /\ all[i] # Marker /\ all[i + 1] # Marker => Successive(all[i], all[i + 1])
             /\ all[i + 1] = Marker => all[i] # Marker
             /\ all[i + 1] = Marker /\ i + 2 <= n + k =>
                   all[i] < all[i + 2] /\ Characters(all[i], all[i + 2]) # {}
  <2>1. CASE i < n
    <3>1. i \in 1..(n - 1) /\ i \in 1..n /\ i + 1 \in 1..n
      BY <2>1
    <3>2. all[i] = s[i] /\ all[i + 1] = s[i + 1]
      BY <1>7, <3>1
    <3>3. s[i + 1] = Marker => i + 2 <= n
      <4>1. i + 1 = n \/ i + 2 <= n
        BY <3>1
      <4> QED BY <1>3, <4>1
    <3>4. i + 2 <= n => all[i + 2] = s[i + 2]
      <4>1. i + 2 <= n => i + 2 \in 1..n
        BY <3>1
      <4> QED BY <1>7, <4>1
    <3>5. /\ s[i] # Marker /\ s[i + 1] # Marker => Successive(s[i], s[i + 1])
          /\ s[i + 1] = Marker => s[i] # Marker
          /\ s[i + 1] = Marker /\ i + 2 <= n =>
                s[i] < s[i + 2] /\ Characters(s[i], s[i + 2]) # {}
      BY <1>3, <3>1
    <3> QED BY <3>2, <3>3, <3>4, <3>5
  <2>2. CASE i = n
    <3>1. n \in 1..n /\ 1 \in 1..k
      BY <1>3, <2>2
    <3>2. all[i] = s[n] /\ all[i + 1] = text[1]
      BY <1>7, <2>2, <3>1
    <3>3. text[1] # Marker /\ text[1] \in Nat /\ from <= text[1] /\ text[1] < to
      BY <1>5, <1>6, <3>1
    <3>4. \A p \in starts : ~ (s[n] < p /\ p < text[1])
      <4> SUFFICES ASSUME NEW p \in starts, s[n] < p, p < text[1] PROVE FALSE
        OBVIOUS
      <4>1. p \in Nat
        OBVIOUS
      <4>2. from <= p
        BY <1>3, <4>1
      <4>3. text[1] <= p
        BY <1>5, <3>3, <4>1, <4>2
      <4> QED BY <3>3, <4>1, <4>3
    <3>5. s[n] < text[1]
      BY <1>3, <3>3
    <3>6. Successive(s[n], text[1])
      BY <3>4, <3>5 DEF Successive, Characters
    <3> QED BY <3>2, <3>3, <3>6
  <2>3. CASE i > n
    <3>1. PICK j \in 1..(k - 1) : i = n + j
      <4>1. i - n \in 1..(k - 1) /\ i = n + (i - n)
        BY <2>3
      <4> QED BY <4>1
    <3>2. j \in 1..k /\ j + 1 \in 1..k /\ i + 1 = n + (j + 1)
      BY <3>1
    <3>3. all[i] = text[j] /\ all[i + 1] = text[j + 1]
      BY <1>7, <3>1, <3>2
    <3>4. text[j + 1] # Marker /\ Successive(text[j], text[j + 1])
      BY <1>5, <1>6, <3>2
    <3> QED BY <3>3, <3>4
  <2> QED BY <2>1, <2>2, <2>3
<1>10. all[n + k] # Marker /\ all[n + k] < to /\ \A p \in starts : ~ (all[n + k] < p /\ p < to)
  <2>1. CASE k = 0
    <3>1. n \in 1..n /\ n + k = n
      BY <1>3, <2>1
    <3>2. all[n + k] = s[n]
      BY <1>7, <3>1
    <3>3. \A p \in starts : ~ (s[n] < p /\ p < to)
      <4> SUFFICES ASSUME NEW p \in starts, s[n] < p, p < to PROVE FALSE
        OBVIOUS
      <4>1. p \in Nat
        OBVIOUS
      <4>2. from <= p
        BY <1>3, <4>1
      <4> QED BY <1>5, <2>1, <4>2
    <3> QED BY <1>3, <3>2, <3>3
  <2>2. CASE k > 0
    <3>1. k \in 1..k
      BY <2>2
    <3>2. all[n + k] = text[k] /\ text[k] # Marker /\ text[k] \in Nat
      BY <1>6, <1>7, <3>1
    <3>3. text[k] < to /\ from <= text[k]
      BY <1>5, <3>1
    <3>4. \A p \in starts : ~ (text[k] < p /\ p < to)
      <4> SUFFICES ASSUME NEW p \in starts, text[k] < p, p < to PROVE FALSE
        OBVIOUS
      <4>1. p \in Nat
        OBVIOUS
      <4>2. from <= p
        BY <3>2, <3>3, <4>1
      <4>3. p <= text[k]
        BY <1>5, <4>2
      <4> QED BY <3>2, <4>1, <4>3
    <3> QED BY <3>2, <3>3, <3>4
  <2> QED BY <2>1, <2>2
<1>11. Linked(all)
  <2> SUFFICES ASSUME NEW i \in 1..(Len(all) - 1)
               PROVE  /\ all[i] # Marker /\ all[i + 1] # Marker => Successive(all[i], all[i + 1])
                      /\ all[i + 1] = Marker => all[i] # Marker
                      /\ all[i + 1] = Marker /\ i + 2 <= Len(all) =>
                            all[i] < all[i + 2] /\ Characters(all[i], all[i + 2]) # {}
    BY DEF Linked
  <2>1. Len(all) = n + k
    BY <1>7
  <2>2. i \in 1..(n + k - 1)
    BY <2>1
  <2> QED BY <1>9, <2>1, <2>2
<1>12. UpTo(all, to)
  BY <1>7, <1>10 DEF UpTo, Last, Characters
<1>13. Covers(all, to)
  <2>1. all \in Seq(Int) /\ Len(all) > 0
    BY <1>3, <1>7
  <2>2. \A i \in 1..Len(all) : all[i] < to
    BY <1>7, <1>8, Zenon
  <2> QED BY <1>11, <1>12, <2>1, <2>2 DEF Covers
<1> QED BY <1>2, <1>13

(***************************************************************************)
(* What was read, followed by a marker and the text behind a gap in which  *)
(* a character began, is what was read up to there.                        *)
(***************************************************************************)
LEMMA LinkedGap ==
    ASSUME starts \in SUBSET Nat, NEW from \in starts, NEW gap \in Nat, NEW to \in Nat,
           from < gap, gap <= to,
           NEW s, Covers(s, from), NEW text, Enumerates(text, gap, to), Len(text) > 0
    PROVE  Covers((s \o <<Marker>>) \o text, to)
<1>1. s \in Seq(Int) /\ text \in Seq(Int) /\ <<Marker>> \in Seq(Int) /\ from \in Nat
  BY DEF Covers, Enumerates, Marker
<1>2. PICK mid : mid = s \o <<Marker>>
  OBVIOUS
<1>a. PICK all : all = mid \o text
  OBVIOUS
<1>3. PICK n \in Nat :
         /\ n = Len(s) /\ n > 0 /\ s[n] \in Int
         /\ s[n] # Marker /\ s[n] < from /\ \A p \in starts : ~ (s[n] < p /\ p < from)
         /\ \A i \in 1..n : s[i] < from /\ s[i] \in Int
         /\ \A i \in 1..(n - 1) :
               /\ s[i] # Marker /\ s[i + 1] # Marker => Successive(s[i], s[i + 1])
               /\ s[i + 1] = Marker => s[i] # Marker
               /\ s[i + 1] = Marker /\ i + 2 <= n =>
                     s[i] < s[i + 2] /\ Characters(s[i], s[i + 2]) # {}
  BY <1>1, CoversFacts
<1>4. PICK k \in Nat : k = Len(text) /\ k > 0
  BY <1>1
<1>5. /\ \A j \in 1..k : text[j] \in starts /\ gap <= text[j] /\ text[j] < to
      /\ \A j \in 1..(k - 1) : Successive(text[j], text[j + 1])
      /\ \A p \in starts : gap <= p /\ p < to => k > 0 /\ text[1] <= p /\ p <= text[k]
  BY <1>4 DEF Enumerates
<1>6. \A j \in 1..k : text[j] \in Nat /\ text[j] # Marker
  <2> SUFFICES ASSUME NEW j \in 1..k PROVE text[j] \in Nat /\ text[j] # Marker
    OBVIOUS
  <2>1. text[j] \in starts
    BY <1>5
  <2>2. text[j] \in Nat
    BY <2>1
  <2> QED BY <2>2 DEF Marker
<1>b. /\ mid \in Seq(Int) /\ Len(mid) = n + 1
      /\ \A i \in 1..n : mid[i] = s[i]
      /\ mid[n + 1] = Marker
  <2>1. n = Len(s)
    BY <1>3
  <2>2. /\ mid \in Seq(Int) /\ Len(mid) = Len(s) + 1
        /\ \A i \in 1..Len(s) : mid[i] = s[i]
        /\ mid[Len(s) + 1] = Marker
    BY <1>1, <1>2
  <2> QED BY <2>1, <2>2
<1>7. /\ all \in Seq(Int) /\ Len(all) = n + 1 + k
      /\ \A i \in 1..n : all[i] = s[i]
      /\ all[n + 1] = Marker
      /\ \A i \in 1..k : all[n + 1 + i] = text[i]
  <2>1. /\ all \in Seq(Int) /\ Len(all) = Len(mid) + Len(text)
        /\ \A i \in 1..Len(mid) : all[i] = mid[i]
        /\ \A i \in 1..Len(text) : all[Len(mid) + i] = text[i]
    <3>1. mid \in Seq(Int) /\ text \in Seq(Int)
      BY <1>1, <1>b
    <3> QED BY <1>a, <3>1, JoinedFacts
  <2>2. /\ all \in Seq(Int) /\ Len(all) = n + 1 + k
        /\ \A i \in 1..(n + 1) : all[i] = mid[i]
        /\ \A i \in 1..k : all[n + 1 + i] = text[i]
    BY <1>4, <1>b, <2>1, Zenon
  <2>3. n + 1 \in 1..(n + 1) /\ \A i \in 1..n : i \in 1..(n + 1)
    BY <1>3
  <2> QED BY <1>b, <2>2, <2>3
<1>c. 1 \in 1..k /\ k \in 1..k /\ n \in 1..n
  BY <1>3, <1>4
<1>8. ASSUME NEW i \in 1..(n + 1 + k) PROVE all[i] < to
  <2>1. CASE i \in 1..n
    BY <1>1, <1>3, <1>7, <2>1
  <2>2. CASE i = n + 1
    BY <1>7, <2>2 DEF Marker
  <2>3. CASE i \notin 1..(n + 1)
    <3>1. PICK j \in 1..k : i = n + 1 + j
      BY <2>3
    <3> QED BY <1>5, <1>7, <3>1
  <2> QED BY <2>1, <2>2, <2>3
<1>9. ASSUME NEW i \in 1..(n + 1 + k - 1)
      PROVE  /\ all[i] # Marker /\ all[i + 1] # Marker => Successive(all[i], all[i + 1])
             /\ all[i + 1] = Marker => all[i] # Marker
             /\ all[i + 1] = Marker /\ i + 2 <= n + 1 + k =>
                   all[i] < all[i + 2] /\ Characters(all[i], all[i + 2]) # {}
  <2>1. CASE i < n
    <3>1. i \in 1..(n - 1) /\ i \in 1..n /\ i + 1 \in 1..n
      BY <2>1
    <3>2. all[i] = s[i] /\ all[i + 1] = s[i + 1]
      BY <1>7, <3>1
    <3>3. s[i + 1] = Marker => i + 2 <= n
      <4>1. i + 1 = n \/ i + 2 <= n
        BY <3>1
      <4> QED BY <1>3, <4>1
    <3>4. i + 2 <= n => all[i + 2] = s[i + 2]
      <4>1. i + 2 <= n => i + 2 \in 1..n
        BY <3>1
      <4> QED BY <1>7, <4>1
    <3>5. /\ s[i] # Marker /\ s[i + 1] # Marker => Successive(s[i], s[i + 1])
          /\ s[i + 1] = Marker => s[i] # Marker
          /\ s[i + 1] = Marker /\ i + 2 <= n =>
                s[i] < s[i + 2] /\ Characters(s[i], s[i + 2]) # {}
      BY <1>3, <3>1
    <3> QED BY <3>2, <3>3, <3>4, <3>5
  <2>2. CASE i = n
    <3>1. i + 2 = n + 1 + 1
      BY <2>2
    <3>2. all[i] = s[n] /\ all[i + 1] = Marker /\ all[i + 2] = text[1]
      BY <1>7, <1>c, <2>2, <3>1
    <3>3. text[1] \in Nat /\ gap <= text[1]
      BY <1>5, <1>6, <1>c
    <3>4. s[n] < from /\ from < text[1] /\ s[n] < text[1]
      BY <1>1, <1>3, <3>3
    <3>5. from \in Characters(s[n], text[1])
      BY <3>4 DEF Characters
    <3> QED BY <1>3, <3>2, <3>4, <3>5
  <2>3. CASE i = n + 1
    <3>1. all[i] = Marker /\ all[i + 1] = text[1] /\ text[1] # Marker
      BY <1>6, <1>7, <1>c, <2>3
    <3> QED BY <3>1
  <2>4. CASE i > n + 1
    <3>1. PICK j \in 1..(k - 1) : i = n + 1 + j
      <4>1. i - (n + 1) \in 1..(k - 1) /\ i = n + 1 + (i - (n + 1))
        BY <2>4
      <4> QED BY <4>1
    <3>2. j \in 1..k /\ j + 1 \in 1..k /\ i + 1 = n + 1 + (j + 1)
      BY <3>1
    <3>3. all[i] = text[j] /\ all[i + 1] = text[j + 1]
      BY <1>7, <3>1, <3>2
    <3>4. text[j + 1] # Marker /\ Successive(text[j], text[j + 1])
      BY <1>5, <1>6, <3>2
    <3> QED BY <3>3, <3>4
  <2> QED BY <2>1, <2>2, <2>3, <2>4
<1>10. /\ all[n + 1 + k] # Marker /\ all[n + 1 + k] < to
       /\ \A p \in starts : ~ (all[n + 1 + k] < p /\ p < to)
  <2>1. all[n + 1 + k] = text[k] /\ text[k] # Marker /\ text[k] \in Nat
    BY <1>6, <1>7, <1>c
  <2>2. text[k] < to /\ gap <= text[k]
    BY <1>5, <1>c
  <2>3. \A p \in starts : ~ (text[k] < p /\ p < to)
    <3> SUFFICES ASSUME NEW p \in starts, text[k] < p, p < to PROVE FALSE
      OBVIOUS
    <3>1. p \in Nat
      OBVIOUS
    <3>2. gap <= p
      BY <2>1, <2>2, <3>1
    <3>3. p <= text[k]
      BY <1>5, <3>2
    <3> QED BY <2>1, <3>1, <3>3
  <2> QED BY <2>1, <2>2, <2>3
<1>11. Linked(all)
  <2> SUFFICES ASSUME NEW i \in 1..(Len(all) - 1)
               PROVE  /\ all[i] # Marker /\ all[i + 1] # Marker => Successive(all[i], all[i + 1])
                      /\ all[i + 1] = Marker => all[i] # Marker
                      /\ all[i + 1] = Marker /\ i + 2 <= Len(all) =>
                            all[i] < all[i + 2] /\ Characters(all[i], all[i + 2]) # {}
    BY DEF Linked
  <2>1. Len(all) = n + 1 + k
    BY <1>7
  <2>2. i \in 1..(n + 1 + k - 1)
    BY <2>1
  <2> QED BY <1>9, <2>1, <2>2
<1>12. UpTo(all, to)
  BY <1>7, <1>10 DEF UpTo, Last, Characters
<1>13. Covers(all, to)
  <2>1. all \in Seq(Int) /\ Len(all) > 0
    BY <1>3, <1>7
  <2>2. \A i \in 1..Len(all) : all[i] < to
    BY <1>7, <1>8, Zenon
  <2> QED BY <1>11, <1>12, <2>1, <2>2 DEF Covers
<1> QED BY <1>2, <1>13, <1>a

(* The smaller of two numbers.                                             *)
LEMMA MinOfTwo ==
    ASSUME NEW a \in Int, NEW b \in Int
    PROVE  Min({a, b}) = IF a <= b THEN a ELSE b
  BY DEF Min

(* Sequences with the same elements are the same.                          *)
LEMMA SameSequence ==
    ASSUME NEW s \in Seq(Int), NEW t \in Seq(Int), Len(s) = Len(t),
           \A i \in 1..Len(s) : s[i] = t[i]
    PROVE  s = t
  OBVIOUS

(* Two sequences put together are one.                                    *)
LEMMA JoinedIsSequence ==
    ASSUME NEW s \in Seq(Int), NEW t \in Seq(Int)
    PROVE  s \o t \in Seq(Int)
  OBVIOUS

(* What a sequence has that is two put together.                           *)
Joined(all, s, t) ==
    /\ all \in Seq(Int) /\ Len(all) = Len(s) + Len(t)
    /\ \A i \in 1..Len(s) : all[i] = s[i]
    /\ \A i \in 1..Len(t) : all[Len(s) + i] = t[i]

(* Two sequences put together have it.                                     *)
LEMMA JoinedForm ==
    ASSUME NEW s \in Seq(Int), NEW t \in Seq(Int)
    PROVE  Joined(s \o t, s, t)
  BY DEF Joined

(* Putting together is associative.                                        *)
Associates(a, b, c) == (a \o b) \o c = a \o (b \o c)

(* It is, for three sequences of numbers.                                  *)
LEMMA JoinedTwice ==
    ASSUME NEW a \in Seq(Int), NEW b \in Seq(Int), NEW c \in Seq(Int)
    PROVE  Associates(a, b, c)
<1>1. PICK ab \in Seq(Int), bc \in Seq(Int) : ab = a \o b /\ bc = b \o c
  BY JoinedIsSequence, Zenon
<1>2. PICK s \in Seq(Int), t \in Seq(Int) : s = ab \o c /\ t = a \o bc
  BY <1>1, JoinedIsSequence, Zenon
<1>3. PICK l \in Nat, m \in Nat, n \in Nat : l = Len(a) /\ m = Len(b) /\ n = Len(c)
  OBVIOUS
<1>4. /\ Len(ab) = l + m
      /\ \A i \in 1..l : ab[i] = a[i]
      /\ \A i \in 1..m : ab[l + i] = b[i]
  <2>1. Joined(a \o b, a, b)
    BY JoinedForm, Zenon
  <2>2. Joined(ab, a, b)
    BY <1>1, <2>1, Zenon
  <2> QED BY <1>3, <2>2, Zenon DEF Joined
<1>5. /\ Len(bc) = m + n
      /\ \A i \in 1..m : bc[i] = b[i]
      /\ \A i \in 1..n : bc[m + i] = c[i]
  <2>1. Joined(b \o c, b, c)
    BY JoinedForm, Zenon
  <2>2. Joined(bc, b, c)
    BY <1>1, <2>1, Zenon
  <2> QED BY <1>3, <2>2, Zenon DEF Joined
<1>6. /\ Len(s) = (l + m) + n
      /\ \A i \in 1..(l + m) : s[i] = ab[i]
      /\ \A i \in 1..n : s[(l + m) + i] = c[i]
  <2>1. Joined(ab \o c, ab, c)
    BY JoinedForm, Zenon
  <2>2. Joined(s, ab, c)
    BY <1>2, <2>1, Zenon
  <2> QED BY <1>3, <1>4, <2>2, Zenon DEF Joined
<1>7. /\ Len(t) = l + (m + n)
      /\ \A i \in 1..l : t[i] = a[i]
      /\ \A i \in 1..(m + n) : t[l + i] = bc[i]
  <2>1. Joined(a \o bc, a, bc)
    BY JoinedForm, Zenon
  <2>2. Joined(t, a, bc)
    BY <1>2, <2>1, Zenon
  <2> QED BY <1>3, <1>5, <2>2, Zenon DEF Joined
<1>8. ASSUME NEW i \in 1..Len(s) PROVE s[i] = t[i]
  <2>1. i \in 1..((l + m) + n)
    BY <1>6, Zenon
  <2>2. CASE i <= l
    <3>1. i \in 1..l /\ i \in 1..(l + m)
      BY <2>1, <2>2
    <3> QED BY <1>4, <1>6, <1>7, <3>1, Zenon
  <2>3. CASE l < i /\ i <= l + m
    <3>1. PICK k \in 1..m : i = l + k
      <4>1. i - l \in 1..m /\ i = l + (i - l)
        BY <2>1, <2>3
      <4> QED BY <4>1, Zenon
    <3>2. l + k \in 1..(l + m) /\ k \in 1..(m + n)
      OBVIOUS
    <3>3. s[l + k] = ab[l + k] /\ ab[l + k] = b[k] /\ t[l + k] = bc[k] /\ bc[k] = b[k]
      BY <1>4, <1>5, <1>6, <1>7, <3>2, Zenon
    <3> QED BY <3>1, <3>3, Zenon
  <2>4. CASE l + m < i
    <3>1. PICK k \in 1..n : i = (l + m) + k
      <4>1. i - (l + m) \in 1..n /\ i = (l + m) + (i - (l + m))
        BY <2>1, <2>4
      <4> QED BY <4>1, Zenon
    <3>2. m + k \in 1..(m + n) /\ (l + m) + k = l + (m + k)
      OBVIOUS
    <3> QED BY <1>5, <1>6, <1>7, <3>1, <3>2, Zenon
  <2> QED BY <2>1, <2>2, <2>3, <2>4
<1>9. Len(s) = Len(t)
  BY <1>6, <1>7
<1>10. s = t
  BY <1>8, <1>9, SameSequence, Zenon
<1> QED BY <1>1, <1>2, <1>10, Zenon DEF Associates

(* A sequence is its two pieces.                                           *)
LEMMA TwoPieces ==
    ASSUME NEW s \in Seq(Int), NEW k \in 0..Len(s)
    PROVE  /\ SubSeq(s, 1, k) \in Seq(Int) /\ SubSeq(s, k + 1, Len(s)) \in Seq(Int)
           /\ Len(SubSeq(s, 1, k)) = k
           /\ SubSeq(s, 1, k) \o SubSeq(s, k + 1, Len(s)) = s
<1>1. PICK n \in Nat : n = Len(s)
  OBVIOUS
<1>2. k \in Nat /\ k <= n
  BY <1>1
<1>3. PICK a, b : a = SubSeq(s, 1, k) /\ b = SubSeq(s, k + 1, n)
  OBVIOUS
<1>4. a \in Seq(Int) /\ Len(a) = k /\ \A i \in 1..k : a[i] = s[i]
  BY <1>1, <1>2, <1>3
<1>5. b \in Seq(Int) /\ Len(b) = n - k /\ \A i \in 1..(n - k) : b[i] = s[k + i]
  <2>1. PICK m \in Nat : m = k + 1
    BY <1>2
  <2>2. 1 <= m /\ m <= n + 1 /\ n <= Len(s) /\ n + 1 - m = n - k
    BY <1>1, <1>2, <2>1
  <2>3. /\ SubSeq(s, m, n) \in Seq(Int) /\ Len(SubSeq(s, m, n)) = n + 1 - m
        /\ \A i \in 1..(n + 1 - m) : SubSeq(s, m, n)[i] = s[m + i - 1]
    BY <2>2, StretchFacts
  <2>4. b = SubSeq(s, m, n)
    BY <1>3, <2>1
  <2>5. /\ b \in Seq(Int) /\ Len(b) = n - k
        /\ \A i \in 1..(n - k) : b[i] = s[m + i - 1]
    BY <2>2, <2>3, <2>4, Zenon
  <2>6. \A i \in 1..(n - k) : m + i - 1 = k + i
    BY <1>2, <2>1
  <2> QED BY <2>5, <2>6
<1>6. PICK t : t = a \o b
  OBVIOUS
<1>7. /\ t \in Seq(Int) /\ Len(t) = k + (n - k)
      /\ \A i \in 1..k : t[i] = a[i]
      /\ \A i \in 1..(n - k) : t[k + i] = b[i]
  <2>1. a \in Seq(Int) /\ b \in Seq(Int)
    BY <1>4, <1>5
  <2>2. /\ t \in Seq(Int) /\ Len(t) = Len(a) + Len(b)
        /\ \A i \in 1..Len(a) : t[i] = a[i]
        /\ \A i \in 1..Len(b) : t[Len(a) + i] = b[i]
    <3>1. Joined(a \o b, a, b)
      BY <2>1, JoinedForm, Zenon
    <3> QED BY <1>6, <3>1, Zenon DEF Joined
  <2> QED BY <1>4, <1>5, <2>2, Zenon
<1>8. Len(t) = n
  BY <1>2, <1>7
<1>9. ASSUME NEW i \in 1..n PROVE t[i] = s[i]
  <2>1. CASE i <= k
    <3>1. i \in 1..k
      BY <1>2, <2>1
    <3> QED BY <1>4, <1>7, <3>1
  <2>2. CASE i > k
    <3>1. PICK j \in 1..(n - k) : i = k + j
      <4>1. i - k \in 1..(n - k) /\ i = k + (i - k)
        BY <1>2, <2>2
      <4> QED BY <4>1
    <3> QED BY <1>5, <1>7, <3>1
  <2> QED BY <1>2, <2>1, <2>2
<1>10. t = s
  <2>1. t \in Seq(Int)
    BY <1>7
  <2>2. Len(t) = Len(s) /\ \A i \in 1..Len(t) : t[i] = s[i]
    BY <1>1, <1>8, <1>9
  <2> QED BY <2>1, <2>2, SameSequence
<1>11. a \in Seq(Int) /\ b \in Seq(Int) /\ Len(a) = k /\ a \o b = s
  BY <1>4, <1>5, <1>6, <1>10
<1> QED BY <1>1, <1>3, <1>11, Zenon

(* The beginning of a beginning.                                           *)
LEMMA PrefixTwice ==
    ASSUME NEW s \in Seq(Int), NEW m \in 0..Len(s), NEW k \in 0..m
    PROVE  SubSeq(SubSeq(s, 1, m), 1, k) = SubSeq(s, 1, k)
<1>1. PICK n \in Nat : n = Len(s)
  OBVIOUS
<1>2. m \in Nat /\ k \in Nat /\ k <= m /\ m <= n
  BY <1>1
<1>3. PICK t : t = SubSeq(s, 1, m)
  OBVIOUS
<1>4. t \in Seq(Int) /\ Len(t) = m /\ \A i \in 1..m : t[i] = s[i]
  BY <1>1, <1>2, <1>3
<1>5. PICK a, b : a = SubSeq(t, 1, k) /\ b = SubSeq(s, 1, k)
  OBVIOUS
<1>6. a \in Seq(Int) /\ Len(a) = k /\ \A i \in 1..k : a[i] = t[i]
  BY <1>2, <1>4, <1>5
<1>7. b \in Seq(Int) /\ Len(b) = k /\ \A i \in 1..k : b[i] = s[i]
  BY <1>1, <1>2, <1>5
<1>8. \A i \in 1..k : a[i] = b[i]
  <2>1. \A i \in 1..k : i \in 1..m
    BY <1>2
  <2> QED BY <1>4, <1>6, <1>7, <2>1, Zenon
<1>9. a = b
  BY <1>6, <1>7, <1>8, SameSequence, Zenon
<1> QED BY <1>3, <1>5, <1>9

(***************************************************************************)
(* _append_output adds a beginning of the chunk, all of it unless the      *)
(* limit is reached, and nothing once it is.                               *)
(***************************************************************************)
LEMMA BoundedFacts ==
    ASSUME NEW d, d.parts \in Seq(Int), d.chars \in Nat, NEW chunk \in Seq(Int)
    PROVE  \E k \in 0..Len(chunk) :
              /\ Bounded(d, chunk).parts = d.parts \o SubSeq(chunk, 1, k)
              /\ Bounded(d, chunk).chars = d.chars + k
              /\ d.chars + k < MAX_CHARS => k = Len(chunk)
              /\ d.chars >= MAX_CHARS => k = 0
<1>a. PICK r : r = Bounded(d, chunk)
  OBVIOUS
<1>b. PICK p \in Seq(Int), c \in Nat : p = d.parts /\ c = d.chars
  OBVIOUS
<1>1. MAX_CHARS \in Nat
  BY OutputWindowAssumption
<1>2. PICK n \in Nat : n = Len(chunk)
  OBVIOUS
<1>3. CASE MAX_CHARS - c <= 0
  <2>1. r = [parts |-> p \o <<>>, chars |-> c + Len(<<>>)]
    BY <1>3, <1>a, <1>b DEF Bounded
  <2>2. SubSeq(chunk, 1, 0) = <<>> /\ Len(<<>>) = 0
    OBVIOUS
  <2>3. r.parts = p \o SubSeq(chunk, 1, 0) /\ r.chars = c + 0
    BY <2>1, <2>2
  <2>4. 0 \in 0..n /\ ~ (c + 0 < MAX_CHARS)
    BY <1>1, <1>3
  <2>5. 0 \in 0..Len(chunk)
    BY <1>2, <2>4
  <2> QED BY <1>a, <1>b, <2>3, <2>4, <2>5
<1>4. CASE ~ (MAX_CHARS - c <= 0)
  <2>a. PICK room \in Nat : room = MAX_CHARS - c /\ room > 0
    BY <1>1, <1>4
  <2>1. PICK k \in Nat : k = (IF room <= n THEN room ELSE n)
    OBVIOUS
  <2>b. k = Min({room, n})
    <3>1. room \in Int /\ n \in Int
      OBVIOUS
    <3>2. Min({room, n}) = IF room <= n THEN room ELSE n
      BY <3>1, MinOfTwo
    <3> QED BY <2>1, <3>2
  <2>2. k = Min({MAX_CHARS - c, n})
    BY <2>a, <2>b
  <2>c. k <= n /\ (c + k < MAX_CHARS => k = n) /\ ~ (c >= MAX_CHARS)
    BY <1>1, <2>a, <2>1
  <2>3. k \in 0..Len(chunk) /\ (c + k < MAX_CHARS => k = n) /\ ~ (c >= MAX_CHARS)
    BY <1>2, <2>c
  <2>4. r = [parts |-> p \o SubSeq(chunk, 1, k), chars |-> c + Len(SubSeq(chunk, 1, k))]
    BY <1>2, <1>4, <1>a, <1>b, <2>2 DEF Bounded
  <2>5. Len(SubSeq(chunk, 1, k)) = k
    BY <2>3, TwoPieces
  <2>6. r.parts = p \o SubSeq(chunk, 1, k) /\ r.chars = c + k
    <3>1. r = [parts |-> p \o SubSeq(chunk, 1, k), chars |-> c + k]
      BY <2>4, <2>5, Zenon
    <3>2. PICK q : q = p \o SubSeq(chunk, 1, k)
      OBVIOUS
    <3>3. r = [parts |-> q, chars |-> c + k]
      BY <3>1, <3>2, Zenon
    <3>4. r.parts = q /\ r.chars = c + k
      BY <3>3
    <3> QED BY <3>2, <3>4
  <2> QED BY <1>2, <1>a, <1>b, <2>3, <2>6
<1> QED BY <1>3, <1>4
(* r is d with a part of fed kept behind it, and is a part of full.        *)
Emits(d, fed, emit, r, full, to) ==
    /\ r.parts \in Seq(Int) /\ r.chars \in Nat
    /\ d.chars >= MAX_CHARS => r.parts = d.parts /\ r.chars = d.chars
    /\ r.chars < MAX_CHARS =>
          (<<BeforeStream>> \o r.parts) \o SubSeq(fed, emit + 1, Len(fed)) = full
    /\ Linked(full) => Linked(<<BeforeStream>> \o r.parts)
    /\ (\A i \in 1..Len(full) : full[i] < to) =>
          \A i \in 1..Len(r.parts) : r.parts[i] < to


(***************************************************************************)
(* What the executor appends of the text its redactor was fed: a beginning *)
(* of it, and unless the limit was reached what it held back is the rest.  *)
(***************************************************************************)
LEMMA EmitFacts ==
    ASSUME NEW d, d.parts \in Seq(Int), d.chars \in Nat, NEW fed \in Seq(Int), NEW to \in Nat,
           NEW emit \in 0..Len(fed), NEW r, NEW full
    PROVE  /\ r = Bounded(d, SubSeq(fed, 1, emit))
           /\ full = (<<BeforeStream>> \o d.parts) \o fed
           => Emits(d, fed, emit, r, full, to)
<1>h. ASSUME r = Bounded(d, SubSeq(fed, 1, emit)),
             full = (<<BeforeStream>> \o d.parts) \o fed
      PROVE  /\ r.parts \in Seq(Int) /\ r.chars \in Nat
             /\ d.chars >= MAX_CHARS => r.parts = d.parts /\ r.chars = d.chars
             /\ r.chars < MAX_CHARS =>
                   (<<BeforeStream>> \o r.parts) \o SubSeq(fed, emit + 1, Len(fed)) = full
             /\ Linked(full) => Linked(<<BeforeStream>> \o r.parts)
             /\ (\A i \in 1..Len(full) : full[i] < to) =>
                   \A i \in 1..Len(r.parts) : r.parts[i] < to
  <2>a. PICK p \in Seq(Int), c \in Nat : p = d.parts /\ c = d.chars
    OBVIOUS
  <2>1. PICK b \in Seq(Int) : b = <<BeforeStream>> /\ Len(b) = 1
    <3>1. BeforeStream \in Int
      BY DEF BeforeStream
    <3>2. <<BeforeStream>> \in Seq(Int) /\ Len(<<BeforeStream>>) = 1
      BY <3>1
    <3> QED BY <3>2, Zenon
  <2>2. PICK chunk \in Seq(Int) : chunk = SubSeq(fed, 1, emit) /\ Len(chunk) = emit
    BY TwoPieces
  <2>3. PICK k \in 0..Len(chunk) :
           /\ r.parts = p \o SubSeq(chunk, 1, k) /\ r.chars = c + k
           /\ c + k < MAX_CHARS => k = Len(chunk)
           /\ c >= MAX_CHARS => k = 0
    <3>1. r = Bounded(d, chunk)
      BY <1>h, <2>2, Zenon
    <3>2. \E k \in 0..Len(chunk) :
             /\ Bounded(d, chunk).parts = d.parts \o SubSeq(chunk, 1, k)
             /\ Bounded(d, chunk).chars = d.chars + k
             /\ d.chars + k < MAX_CHARS => k = Len(chunk)
             /\ d.chars >= MAX_CHARS => k = 0
      BY BoundedFacts, Zenon
    <3> QED BY <2>a, <3>1, <3>2, Zenon
  <2>4. k \in 0..emit /\ k \in Nat
    BY <2>2
  <2>5. k \in 0..Len(fed)
    BY <2>4
  <2>6. PICK x, y : x = SubSeq(fed, 1, k) /\ y = SubSeq(fed, k + 1, Len(fed))
    OBVIOUS
  <2>7. x \in Seq(Int) /\ y \in Seq(Int) /\ Len(x) = k /\ x \o y = fed
    BY <2>5, <2>6, TwoPieces
  <2>8. SubSeq(chunk, 1, k) = x
    BY <2>2, <2>4, <2>6, PrefixTwice
  <2>9. r.parts = p \o x /\ r.parts \in Seq(Int) /\ r.chars = c + k /\ r.chars \in Nat
    <3>1. p \o x \in Seq(Int)
      BY <2>7
    <3>2. r.parts = p \o x /\ r.chars = c + k
      BY <2>3, <2>8, Zenon
    <3>3. c + k \in Nat
      BY <2>4
    <3> QED BY <3>1, <3>2, <3>3, Zenon
  <2>10. ASSUME c >= MAX_CHARS PROVE r.parts = d.parts /\ r.chars = d.chars
    <3>1. k = 0
      BY <2>3, <2>10
    <3>2. x = <<>>
      BY <2>7, <3>1
    <3>3. p \o <<>> = p /\ c + 0 = c
      OBVIOUS
    <3> QED BY <2>9, <2>a, <3>1, <3>2, <3>3
  <2>11. PICK q : q = r.parts
    OBVIOUS
  <2>12. q = p \o x /\ q \in Seq(Int)
    BY <2>9, <2>11
  <2>13. full = (b \o q) \o y
    <3>1. full = (b \o p) \o (x \o y)
      BY <1>h, <2>1, <2>7, <2>a, Zenon
    <3>2. b \o p \in Seq(Int)
      BY <2>1
    <3>3. (b \o p) \o (x \o y) = ((b \o p) \o x) \o y
      <4>1. Associates(b \o p, x, y)
        BY <2>7, <3>2, JoinedTwice, Zenon
      <4> QED BY <4>1, Zenon DEF Associates
    <3>4. (b \o p) \o x = b \o (p \o x)
      <4>1. Associates(b, p, x)
        BY <2>1, <2>7, <2>a, JoinedTwice, Zenon
      <4> QED BY <4>1, Zenon DEF Associates
    <3> QED BY <2>12, <3>1, <3>3, <3>4, Zenon
  <2>14. ASSUME r.chars < MAX_CHARS
         PROVE  (<<BeforeStream>> \o r.parts) \o SubSeq(fed, emit + 1, Len(fed)) = full
    <3>1. k = emit
      BY <2>2, <2>3, <2>9, <2>14
    <3>2. y = SubSeq(fed, emit + 1, Len(fed))
      BY <2>6, <3>1
    <3> QED BY <2>1, <2>11, <2>13, <3>2, Zenon
  <2>15. PICK t \in Seq(Int) : t = b \o q
    <3>1. q \in Seq(Int)
      BY <2>12
    <3>2. b \o q \in Seq(Int)
      BY <3>1
    <3> QED BY <3>2, Zenon
  <2>16. /\ full \in Seq(Int) /\ Len(full) = Len(t) + Len(y)
         /\ \A i \in 1..Len(t) : full[i] = t[i]
    <3>1. full = t \o y
      BY <2>13, <2>15, Zenon
    <3>2. y \in Seq(Int)
      BY <2>7
    <3> QED BY <3>1, <3>2, JoinedFacts
  <2>17. ASSUME Linked(full) PROVE Linked(<<BeforeStream>> \o r.parts)
    <3>1. Len(y) \in Nat /\ Len(t) \in Nat
      BY <2>7
    <3>2. Len(t) <= Len(full)
      BY <2>16, <3>1
    <3>3. \A i \in 1..Len(t) : t[i] = full[i]
      BY <2>16, Zenon
    <3>4. full \in Seq(Int)
      BY <2>16
    <3>5. Linked(t)
      BY <2>17, <3>1, <3>2, <3>3, <3>4, LinkedPrefix, Zenon
    <3> QED BY <2>1, <2>11, <2>15, <3>5, Zenon
  <2>18. ASSUME \A i \in 1..Len(full) : full[i] < to,
                NEW i \in 1..Len(r.parts)
         PROVE  r.parts[i] < to
    <3>1. i \in 1..Len(q) /\ Len(q) \in Nat /\ i \in Nat
      BY <2>11, <2>12
    <3>2. /\ Len(t) = Len(b) + Len(q)
          /\ \A j \in 1..Len(q) : t[Len(b) + j] = q[j]
      BY <2>1, <2>12, <2>15, JoinedFacts
    <3>3. t[1 + i] = q[i] /\ Len(t) = 1 + Len(q)
      BY <2>1, <3>1, <3>2
    <3>4. 1 + i \in 1..Len(t)
      <4>1. PICK lt \in Int, lq \in Nat : lt = Len(t) /\ lq = Len(q)
        BY <3>1, <3>3
      <4>2. lt = 1 + lq /\ i \in 1..lq
        BY <3>1, <3>3, <4>1, Zenon
      <4>3. 1 + i \in 1..lt
        BY <4>2
      <4> QED BY <4>1, <4>3, Zenon
    <3>5. full[1 + i] = t[1 + i]
      BY <2>16, <3>4
    <3>6. Len(y) \in Nat
      BY <2>7
    <3>8. Len(full) = 1 + Len(q) + Len(y)
      BY <2>16, <3>3, Zenon
    <3>7. 1 + i \in 1..Len(full)
      BY <3>1, <3>6, <3>8
    <3> QED BY <2>11, <2>18, <3>3, <3>5, <3>7
  <2> QED BY <2>9, <2>10, <2>14, <2>17, <2>18, <2>a
<1> QED BY <1>h, Zenon DEF Emits
(* What the executor has: the parts it keeps, what its redactor holds back *)
(* and the characters it counts, as far as to.                             *)
Has(ps, held, c, to) ==
    /\ ps \in Seq(Int) /\ held \in Seq(Int) /\ c \in Nat
    /\ \A i \in 1..Len(ps) : ps[i] < to
    /\ Linked(<<BeforeStream>> \o ps)
    /\ c < MAX_CHARS => Covers((<<BeforeStream>> \o ps) \o held, to)

(***************************************************************************)
(* Emitting some of what the redactor was fed keeps what the executor has. *)
(***************************************************************************)
LEMMA FeedFacts ==
    ASSUME NEW d, NEW fed, NEW to \in Nat, Has(d.parts, fed, d.chars, to),
           NEW emit \in 0..Len(fed), NEW r
    PROVE  r = Bounded(d, SubSeq(fed, 1, emit)) =>
              Has(r.parts, SubSeq(fed, emit + 1, Len(fed)), r.chars, to)
<1>h. SUFFICES ASSUME r = Bounded(d, SubSeq(fed, 1, emit))
      PROVE  Has(r.parts, SubSeq(fed, emit + 1, Len(fed)), r.chars, to)
  OBVIOUS
<1>1. d.parts \in Seq(Int) /\ fed \in Seq(Int) /\ d.chars \in Nat
  BY DEF Has
<1>2. PICK full : full = (<<BeforeStream>> \o d.parts) \o fed
  OBVIOUS
<1>3. /\ r.parts \in Seq(Int) /\ r.chars \in Nat
      /\ d.chars >= MAX_CHARS => r.parts = d.parts /\ r.chars = d.chars
      /\ r.chars < MAX_CHARS =>
            (<<BeforeStream>> \o r.parts) \o SubSeq(fed, emit + 1, Len(fed)) = full
      /\ Linked(full) => Linked(<<BeforeStream>> \o r.parts)
      /\ (\A i \in 1..Len(full) : full[i] < to) =>
            \A i \in 1..Len(r.parts) : r.parts[i] < to
  <2>1. /\ r = Bounded(d, SubSeq(fed, 1, emit))
        /\ full = (<<BeforeStream>> \o d.parts) \o fed
    BY <1>2, <1>h, Zenon
  <2>2. Emits(d, fed, emit, r, full, to)
    BY <1>1, <2>1, EmitFacts, Zenon
  <2> QED BY <2>2, Zenon DEF Emits
<1>4. PICK rest \in Seq(Int) : rest = SubSeq(fed, emit + 1, Len(fed))
  BY <1>1, TwoPieces
<1>5. CASE d.chars < MAX_CHARS
  <2>1. Covers(full, to)
    BY <1>2, <1>5, Zenon DEF Has
  <2>2. Linked(full) /\ \A i \in 1..Len(full) : full[i] < to
    BY <2>1, Zenon DEF Covers
  <2>3. r.chars < MAX_CHARS => Covers((<<BeforeStream>> \o r.parts) \o rest, to)
    BY <1>3, <1>4, <2>1, Zenon
  <2>4. Has(r.parts, rest, r.chars, to)
    BY <1>3, <1>4, <2>2, <2>3, Zenon DEF Has
  <2> QED BY <1>4, <2>4, Zenon
<1>6. CASE ~ (d.chars < MAX_CHARS)
  <2>1. d.chars >= MAX_CHARS
    BY <1>1, <1>6, OutputWindowAssumption
  <2>2. r.parts = d.parts /\ r.chars = d.chars
    BY <1>3, <2>1, Zenon
  <2>3. Has(r.parts, rest, r.chars, to)
    BY <1>1, <1>4, <1>6, <2>2, Zenon DEF Has
  <2> QED BY <1>4, <2>3, Zenon
<1> QED BY <1>5, <1>6

(***************************************************************************)
(* Output that follows what was read is read on.                           *)
(***************************************************************************)
LEMMA NextFacts ==
    ASSUME starts \in SUBSET Nat, NEW ps, NEW held, NEW c, NEW from \in Nat, NEW to \in Nat,
           from <= to, Has(ps, held, c, from),
           NEW text \in Seq(Int), c < MAX_CHARS => Enumerates(text, from, to)
    PROVE  Has(ps, held \o text, c, to)
<1>1. ps \in Seq(Int) /\ held \in Seq(Int) /\ c \in Nat
  BY DEF Has
<1>2. held \o text \in Seq(Int)
  BY <1>1
<1>3. \A i \in 1..Len(ps) : ps[i] < to
  <2> SUFFICES ASSUME NEW i \in 1..Len(ps) PROVE ps[i] < to
    OBVIOUS
  <2>1. ps[i] \in Int
    BY <1>1
  <2>2. ps[i] < from
    BY DEF Has
  <2> QED BY <2>1, <2>2
<1>4. Linked(<<BeforeStream>> \o ps)
  BY DEF Has
<1>5. ASSUME c < MAX_CHARS
      PROVE  Covers((<<BeforeStream>> \o ps) \o (held \o text), to)
  <2>1. PICK s : s = <<BeforeStream>> \o ps
    OBVIOUS
  <2>2. s \in Seq(Int)
    <3>1. <<BeforeStream>> \in Seq(Int)
      BY DEF BeforeStream
    <3> QED BY <1>1, <2>1, <3>1
  <2>3. Covers(s \o held, from)
    BY <1>5, <2>1, Zenon DEF Has
  <2>4. Covers((s \o held) \o text, to)
    BY <1>5, <2>3, LinkedText, Zenon
  <2>5. (s \o held) \o text = s \o (held \o text)
    <3>1. Associates(s, held, text)
      BY <1>1, <2>2, JoinedTwice, Zenon
    <3> QED BY <3>1, Zenon DEF Associates
  <2> QED BY <2>1, <2>4, <2>5, Zenon
<1> QED BY <1>1, <1>2, <1>3, <1>4, <1>5, Zenon DEF Has

(***************************************************************************)
(* Behind a gap a marker stands before what comes next.                    *)
(***************************************************************************)
LEMMA GapFacts ==
    ASSUME starts \in SUBSET Nat, NEW f, NEW from \in starts, NEW gap \in Nat, NEW to \in Nat,
           from < gap, gap <= to, Has(f.parts, <<>>, f.chars, from), f.chars < MAX_CHARS,
           NEW text, Enumerates(text, gap, to), Len(text) > 0
    PROVE  Has(Marked(f).parts, text, Marked(f).chars, to)
<1>1. PICK ps \in Seq(Int), c \in Nat : ps = f.parts /\ c = f.chars
  BY Zenon DEF Has
<1>2. PICK b \in Seq(Int) : b = <<BeforeStream>> /\ Len(b) = 1
  <2>1. BeforeStream \in Int
    BY DEF BeforeStream
  <2>2. <<BeforeStream>> \in Seq(Int) /\ Len(<<BeforeStream>>) = 1
    BY <2>1
  <2> QED BY <2>2, Zenon
<1>3. PICK m \in Seq(Int) : m = <<Marker>> /\ Len(m) = 1
  <2>1. Marker \in Int
    BY DEF Marker
  <2>2. <<Marker>> \in Seq(Int) /\ Len(<<Marker>>) = 1
    BY <2>1
  <2> QED BY <2>2, Zenon
<1>4. PICK s \in Seq(Int) : s = b \o ps
  BY JoinedIsSequence, Zenon
<1>5. Covers(s, from)
  <2>1. Covers(s \o <<>>, from)
    BY <1>1, <1>2, <1>4, Zenon DEF Has
  <2>2. s \o <<>> = s
    OBVIOUS
  <2> QED BY <2>1, <2>2, Zenon
<1>6. Covers((s \o m) \o text, to)
  BY <1>3, <1>5, LinkedGap, Zenon
<1>7. text \in Seq(Int)
  BY DEF Enumerates
<1>8. PICK qs \in Seq(Int) : qs = ps \o m
  BY JoinedIsSequence, Zenon
<1>9. Marked(f).parts = qs
  <2>1. Marked(f).parts = Append(ps, Marker)
    BY <1>1, Zenon DEF Marked
  <2>2. Marker \in Int
    BY DEF Marker
  <2>3. Append(ps, Marker) = ps \o <<Marker>>
    BY <2>2
  <2> QED BY <1>3, <1>8, <2>1, <2>3, Zenon
<1>10. s \o m = b \o qs
  <2>1. (b \o ps) \o m = b \o (ps \o m)
    <3>1. b \in Seq(Int) /\ ps \in Seq(Int) /\ m \in Seq(Int)
      BY <1>1, <1>2, <1>3, Zenon
    <3>2. Associates(b, ps, m)
      BY <3>1, JoinedTwice, Zenon
    <3> QED BY <3>2, Zenon DEF Associates
  <2> QED BY <1>4, <1>8, <2>1, Zenon
<1>11. PICK t \in Seq(Int) : t = b \o qs
  BY JoinedIsSequence, Zenon
<1>12. PICK full : full = t \o text
  OBVIOUS
<1>13. Covers(full, to)
  BY <1>6, <1>10, <1>11, <1>12, Zenon
<1>14. /\ full \in Seq(Int) /\ Len(full) = Len(t) + Len(text)
       /\ \A i \in 1..Len(t) : full[i] = t[i]
  BY <1>7, <1>12, JoinedFacts
<1>15. Linked(t)
  <2>1. Len(t) \in Nat /\ Len(text) \in Nat
    BY <1>7
  <2>2. Len(t) <= Len(full)
    BY <1>14, <2>1
  <2>3. Linked(full) /\ full \in Seq(Int)
    BY <1>13, Zenon DEF Covers
  <2>4. \A i \in 1..Len(t) : t[i] = full[i]
    BY <1>14, Zenon
  <2> QED BY <2>1, <2>2, <2>3, <2>4, LinkedPrefix, Zenon
<1>16. ASSUME NEW i \in 1..Len(qs) PROVE qs[i] < to
  <2>1. /\ Len(t) = Len(b) + Len(qs)
        /\ \A j \in 1..Len(qs) : t[Len(b) + j] = qs[j]
    BY <1>11, JoinedFacts
  <2>2. PICK lt \in Nat, lq \in Nat, lf \in Nat, lx \in Nat :
           lt = Len(t) /\ lq = Len(qs) /\ lf = Len(full) /\ lx = Len(text)
    BY <1>7, <1>14
  <2>3. lt = 1 + lq /\ lf = lt + lx /\ i \in 1..lq
    BY <1>2, <1>14, <2>1, <2>2, Zenon
  <2>4. 1 + i \in 1..lt /\ 1 + i \in 1..lf
    BY <2>3
  <2>5. t[1 + i] = qs[i]
    BY <1>2, <2>1, Zenon
  <2>6. full[1 + i] = t[1 + i]
    BY <1>14, <2>2, <2>4, Zenon
  <2>7. full[1 + i] < to
    BY <1>13, <2>2, <2>4, Zenon DEF Covers
  <2> QED BY <2>5, <2>6, <2>7, Zenon
<1>17. Marked(f).chars \in Nat
  <2>1. Marked(f).chars = c + Min({MARKER_CHARS, MAX_CHARS - c})
    BY <1>1, Zenon DEF Marked
  <2>2. c < MAX_CHARS
    BY <1>1
  <2>3. MARKER_CHARS \in Int /\ MAX_CHARS - c \in Int
    BY OutputWindowAssumption
  <2>4. Min({MARKER_CHARS, MAX_CHARS - c})
           = IF MARKER_CHARS <= MAX_CHARS - c THEN MARKER_CHARS ELSE MAX_CHARS - c
    BY <2>3, MinOfTwo, Zenon
  <2>5. (IF MARKER_CHARS <= MAX_CHARS - c THEN MARKER_CHARS ELSE MAX_CHARS - c) \in Nat
    BY <2>2, OutputWindowAssumption
  <2>6. PICK mn \in Nat : mn = Min({MARKER_CHARS, MAX_CHARS - c})
    BY <2>4, <2>5, Zenon
  <2>7. c + mn \in Nat
    OBVIOUS
  <2> QED BY <2>1, <2>6, <2>7, Zenon
<1>18. Linked(b \o qs) /\ Covers((b \o qs) \o text, to)
  BY <1>11, <1>12, <1>13, <1>15, Zenon
<1> QED BY <1>2, <1>7, <1>9, <1>16, <1>17, <1>18, Zenon DEF Has
(* CollectedInv says what the executor has.                                *)
LEMMA HasCollected ==
    ASSUME WindowTypes, CollectedInv
    PROVE  Has(parts, pending, chars, offset)
<1>1. parts \in Seq(Int) /\ pending \in Seq(Int) /\ chars \in Nat
  BY DEF WindowTypes
<1>2. (\A i \in 1..Len(parts) : parts[i] < offset) /\ Linked(<<BeforeStream>> \o parts)
  BY Zenon DEF CollectedInv, NoSilentGap
<1>3. ASSUME chars < MAX_CHARS
      PROVE  Covers((<<BeforeStream>> \o parts) \o pending, offset)
  <2>1. PICK s : s = (<<BeforeStream>> \o parts) \o pending
    OBVIOUS
  <2>2. Linked(s) /\ UpTo(s, offset) /\ \A i \in 1..Len(s) : s[i] < offset
    BY <1>3, <2>1, Zenon DEF CollectedInv
  <2>3. <<BeforeStream>> \in Seq(Int) /\ Len(<<BeforeStream>>) = 1
    BY DEF BeforeStream
  <2>4. s \in Seq(Int) /\ Len(s) > 0
    BY <1>1, <2>1, <2>3
  <2> QED BY <2>1, <2>2, <2>4, Zenon DEF Covers
<1> QED BY <1>1, <1>2, <1>3, Zenon DEF Has

(* What the executor has before it emits what the snapshot brought.        *)
LEMMA BeforeFacts ==
    ASSUME WindowTypes, AnswerInv, client = "waiting", NEW d,
           Has(d.parts, pending, d.chars, offset), d.chars = chars,
           NEW flushed, NEW before, NEW fed,
           flushed = Bounded(d, pending),
           before = IF ~Truncated(answer) THEN d
                    ELSE IF flushed.chars < MAX_CHARS THEN Marked(flushed) ELSE flushed,
           fed = (IF Truncated(answer) THEN <<>> ELSE pending) \o Text(answer)
    PROVE  Has(before.parts, fed, before.chars, answer.output_offset)
<1>1. /\ starts \in SUBSET Nat /\ answer \in Answers /\ offset \in Nat
      /\ pending \in Seq(Int) /\ chars \in Nat
  BY DEF WindowTypes, Answers
<1>2. /\ Valid(answer)
      /\ \A i \in 1..Len(answer.output) : answer.output[i] = answer.truncated_before + i - 1
      /\ answer.truncated_before >= offset
      /\ answer.truncated_before > offset => answer.output # <<>> /\ offset \in starts
  BY DEF AnswerInv
<1>3. PICK text : text = Text(answer)
  OBVIOUS
<1>4. PICK tb \in Nat, oo \in Nat : tb = answer.truncated_before /\ oo = answer.output_offset
  BY <1>1 DEF Answers
<1>5. Enumerates(text, tb, oo) /\ (answer.output # <<>> => Len(text) > 0)
  BY <1>1, <1>2, <1>3, <1>4, TextFacts, Zenon
<1>6. text \in Seq(Int)
  BY <1>5, Zenon DEF Enumerates
<1>7. tb <= oo
  <2>1. answer.output \in Seq(Int)
    BY <1>1 DEF Answers
  <2>2. PICK n \in Nat : n = Len(answer.output)
    BY <2>1
  <2>3. oo = tb + n
    BY <1>2, <1>4, <2>2, Zenon DEF Valid
  <2> QED BY <2>3
<1>8. tb >= offset /\ offset <= oo
  <2>1. tb >= offset
    BY <1>2, <1>4, Zenon
  <2> QED BY <1>1, <1>7, <2>1
<1>9. CASE ~Truncated(answer)
  <2>1. before = d /\ fed = pending \o text
    BY <1>3, <1>9, Zenon
  <2>2. ASSUME d.chars < MAX_CHARS PROVE Enumerates(text, offset, oo)
    <3>1. ~ (tb > offset)
      BY <1>4, <1>9, <2>2, Zenon DEF Truncated
    <3>2. tb = offset
      BY <1>1, <1>8, <3>1
    <3> QED BY <1>5, <3>2, Zenon
  <2>3. Has(d.parts, pending \o text, d.chars, oo)
    BY <1>1, <1>6, <1>8, <2>2, NextFacts, Zenon
  <2> QED BY <1>4, <2>1, <2>3, Zenon
<1>10. CASE Truncated(answer)
  <2>1. fed = text
    <3>1. fed = <<>> \o text
      BY <1>3, <1>10, Zenon
    <3>2. <<>> \o text = text
      BY <1>6
    <3> QED BY <3>1, <3>2, Zenon
  <2>2. PICK n \in Nat : n = Len(pending)
    BY <1>1
  <2>3. SubSeq(pending, 1, n) = pending /\ SubSeq(pending, n + 1, n) = <<>>
    BY <1>1, <2>2
  <2>4. n \in 0..Len(pending)
    <3>1. n \in 0..n
      OBVIOUS
    <3> QED BY <2>2, <3>1, Zenon
  <2>5. flushed = Bounded(d, SubSeq(pending, 1, n))
    BY <2>3, Zenon
  <2>6. Has(flushed.parts, SubSeq(pending, n + 1, Len(pending)), flushed.chars, offset)
    BY <1>1, <2>4, <2>5, FeedFacts, Zenon
  <2>7. Has(flushed.parts, <<>>, flushed.chars, offset)
    BY <2>2, <2>3, <2>6, Zenon
  <2>8. CASE flushed.chars < MAX_CHARS
    <3>1. before = Marked(flushed)
      BY <1>10, <2>8, Zenon
    <3>2. tb > offset
      BY <1>4, <1>10, Zenon DEF Truncated
    <3>3. offset \in starts /\ Len(text) > 0
      BY <1>2, <1>4, <1>5, <3>2, Zenon
    <3>4. offset < tb
      BY <1>1, <3>2
    <3>5. Has(Marked(flushed).parts, text, Marked(flushed).chars, oo)
      BY <1>1, <1>5, <1>7, <2>7, <2>8, <3>3, <3>4, GapFacts, Zenon
    <3> QED BY <1>4, <2>1, <3>1, <3>5, Zenon
  <2>9. CASE ~ (flushed.chars < MAX_CHARS)
    <3>1. before = flushed
      BY <1>10, <2>9, Zenon
    <3>2. <<>> \o text = text
      BY <1>6
    <3>3. Has(flushed.parts, <<>> \o text, flushed.chars, oo)
      BY <1>1, <1>6, <1>8, <2>7, <2>9, NextFacts, Zenon
    <3> QED BY <1>4, <2>1, <3>1, <3>2, <3>3, Zenon
  <2> QED BY <2>8, <2>9
<1> QED BY <1>9, <1>10

(***************************************************************************)
(* _consume_output keeps what the executor has in order and without silent *)
(* gaps, and a terminal snapshot leaves nothing held back.                 *)
(***************************************************************************)
LEMMA ConsumeFacts ==
    ASSUME WindowTypes, AnswerInv, CollectedInv, client = "waiting", ConsumeOutput
    PROVE  /\ Has(parts', pending', chars', answer.output_offset)
           /\ offset' = answer.output_offset
           /\ client' = IF answer.terminal THEN "done" ELSE "polling"
           /\ answer.terminal => pending' = <<>>
<1>1. PICK d : d = [parts |-> parts, chars |-> chars]
  OBVIOUS
<1>2. d.parts = parts /\ d.chars = chars
  BY <1>1
<1>3. Has(d.parts, pending, d.chars, offset)
  BY <1>2, HasCollected, Zenon
<1>4. PICK flushed : flushed = Bounded(d, pending)
  OBVIOUS
<1>5. PICK before : before = IF ~Truncated(answer) THEN d
                             ELSE IF flushed.chars < MAX_CHARS THEN Marked(flushed)
                             ELSE flushed
  OBVIOUS
<1>6. PICK fed : fed = (IF Truncated(answer) THEN <<>> ELSE pending) \o Text(answer)
  OBVIOUS
<1>7. Has(before.parts, fed, before.chars, answer.output_offset)
  BY <1>2, <1>3, <1>4, <1>5, <1>6, BeforeFacts, Zenon
<1>8. PICK hold \in 0..Len(fed) :
         /\ pending' = SubSeq(fed, Emit(fed, hold) + 1, Len(fed))
         /\ parts' = Bounded(before, SubSeq(fed, 1, Emit(fed, hold))).parts
         /\ chars' = Bounded(before, SubSeq(fed, 1, Emit(fed, hold))).chars
         /\ offset' = answer.output_offset
         /\ client' = IF answer.terminal THEN "done" ELSE "polling"
  BY <1>1, <1>4, <1>5, <1>6, Zenon DEF ConsumeOutput
<1>9. fed \in Seq(Int)
  BY <1>7, Zenon DEF Has
<1>10. PICK emit \in 0..Len(fed) : emit = Emit(fed, hold) /\ (answer.terminal => emit = Len(fed))
  <2>1. PICK n \in Nat : n = Len(fed)
    BY <1>9
  <2>2. hold \in 0..n
    BY <1>8, <2>1, Zenon
  <2>3. n - hold \in 0..n /\ n \in 0..n
    BY <2>2
  <2>4. Emit(fed, hold) = IF answer.terminal THEN n ELSE n - hold
    BY <2>1, Zenon DEF Emit
  <2> QED BY <2>1, <2>3, <2>4
<1>11. PICK r : r = Bounded(before, SubSeq(fed, 1, emit))
  OBVIOUS
<1>12. answer.output_offset \in Nat
  BY DEF WindowTypes
<1>13. Has(r.parts, SubSeq(fed, emit + 1, Len(fed)), r.chars, answer.output_offset)
  BY <1>7, <1>10, <1>11, <1>12, FeedFacts, Zenon
<1>14. /\ parts' = r.parts /\ chars' = r.chars
       /\ pending' = SubSeq(fed, emit + 1, Len(fed))
  BY <1>8, <1>10, <1>11, Zenon
<1>15. Has(parts', pending', chars', answer.output_offset)
  BY <1>13, <1>14, Zenon
<1>16. ASSUME answer.terminal PROVE pending' = <<>>
  <2>1. emit = Len(fed)
    BY <1>10, <1>16
  <2>2. SubSeq(fed, Len(fed) + 1, Len(fed)) = <<>>
    BY <1>9
  <2> QED BY <1>14, <2>1, <2>2, Zenon
<1> QED BY <1>8, <1>15, <1>16, Zenon
-----------------------------------------------------------------------------
(* The notions of the invariant, with what they depend on made explicit.   *)
EdgeAt(p, st, wo, so, rd) ==
    \/ p \in st
    \/ /\ \A q \in st : q < p
       /\ wo <= p /\ so <= p
       /\ rd => p = wo

LinkedAt(all, st) ==
    \A i \in 1..(Len(all) - 1) :
       /\ all[i] # Marker /\ all[i + 1] # Marker =>
             all[i] < all[i + 1] /\ {p \in st : all[i] < p /\ p < all[i + 1]} = {}
       /\ all[i + 1] = Marker => all[i] # Marker
       /\ all[i + 1] = Marker /\ i + 2 <= Len(all) =>
             all[i] < all[i + 2] /\ {p \in st : all[i] < p /\ p < all[i + 2]} # {}

CoversAt(s, to, st) ==
    /\ s \in Seq(Int) /\ Len(s) > 0
    /\ LinkedAt(s, st)
    /\ s[Len(s)] # Marker /\ s[Len(s)] < to /\ {p \in st : s[Len(s)] < p /\ p < to} = {}
    /\ \A i \in 1..Len(s) : s[i] < to

HasAt(ps, held, c, to, st) ==
    /\ ps \in Seq(Int) /\ held \in Seq(Int) /\ c \in Nat
    /\ \A i \in 1..Len(ps) : ps[i] < to
    /\ LinkedAt(<<BeforeStream>> \o ps, st)
    /\ c < MAX_CHARS => CoversAt((<<BeforeStream>> \o ps) \o held, to, st)

(* They are the same notions.                                              *)
LEMMA HasIs ==
    ASSUME NEW ps, NEW held, NEW c, NEW to
    PROVE  Has(ps, held, c, to) <=> HasAt(ps, held, c, to, starts)
<1>1. \A s : Linked(s) <=> LinkedAt(s, starts)
  BY Zenon DEF Linked, LinkedAt, Successive, Characters
<1>2. \A s : Covers(s, to) <=> CoversAt(s, to, starts)
  BY <1>1, Zenon DEF Covers, CoversAt, UpTo, Last, Characters
<1> QED BY <1>1, <1>2, Zenon DEF Has, HasAt

(* What the executor has is CollectedInv, in the next state too.           *)
LEMMA CollectedNext ==
    ASSUME HasAt(parts', pending', chars', offset', starts')
    PROVE  CollectedInv'
<1>1. \A i \in 1..Len(parts') : parts'[i] < offset'
  BY Zenon DEF HasAt
<1>2. NoSilentGap'
  BY Zenon DEF HasAt, LinkedAt, NoSilentGap, Linked, Successive, Characters
<1>3. ASSUME chars' < MAX_CHARS
      PROVE  (Linked(<<BeforeStream>> \o parts \o pending)
              /\ UpTo(<<BeforeStream>> \o parts \o pending, offset)
              /\ \A i \in 1..Len(<<BeforeStream>> \o parts \o pending) :
                    (<<BeforeStream>> \o parts \o pending)[i] < offset)'
  <2>1. CoversAt((<<BeforeStream>> \o parts') \o pending', offset', starts')
    BY <1>3, Zenon DEF HasAt
  <2> QED BY <2>1, Zenon DEF CoversAt, LinkedAt, Linked, Successive, Characters, UpTo, Last
<1> QED BY <1>1, <1>2, <1>3, Zenon DEF CollectedInv

(* Characters that begin at or after to do not disturb what is before it.  *)
LEMMA LinkedGrows ==
    ASSUME NEW s \in Seq(Int), NEW to \in Nat, \A i \in 1..Len(s) : s[i] < to,
           NEW st, NEW more, LinkedAt(s, st),
           st \in SUBSET Nat, more \in SUBSET Nat, st \subseteq more,
           \A p \in more : p \in st \/ to <= p
    PROVE  LinkedAt(s, more)
<1>1. PICK n \in Nat : n = Len(s)
  OBVIOUS
<1>2. \A i \in 1..n : s[i] \in Int /\ s[i] < to
  BY <1>1
<1>3. ASSUME NEW i \in 1..(n - 1)
      PROVE  /\ s[i] # Marker /\ s[i + 1] # Marker =>
                   s[i] < s[i + 1] /\ {p \in more : s[i] < p /\ p < s[i + 1]} = {}
             /\ s[i + 1] = Marker => s[i] # Marker
             /\ s[i + 1] = Marker /\ i + 2 <= n =>
                   s[i] < s[i + 2] /\ {p \in more : s[i] < p /\ p < s[i + 2]} # {}
  <2>1. i \in 1..n /\ i + 1 \in 1..n /\ (i + 2 <= n => i + 2 \in 1..n)
    BY <1>3
  <2>2. PICK a \in Int, b \in Int : a = s[i] /\ b = s[i + 1] /\ a < to /\ b < to
    BY <1>2, <2>1
  <2>3. /\ a # Marker /\ b # Marker => a < b /\ {p \in st : a < p /\ p < b} = {}
        /\ b = Marker => a # Marker
        /\ b = Marker /\ i + 2 <= n => a < s[i + 2] /\ {p \in st : a < p /\ p < s[i + 2]} # {}
    BY <1>1, <2>2, Zenon DEF LinkedAt
  <2>4. {p \in st : a < p /\ p < b} = {} => {p \in more : a < p /\ p < b} = {}
    <3> SUFFICES ASSUME NEW p \in more, a < p, p < b, \A q \in st : ~ (a < q /\ q < b)
                 PROVE  FALSE
      OBVIOUS
    <3>1. p \notin st
      OBVIOUS
    <3>2. to <= p /\ p \in Nat
      BY <3>1
    <3> QED BY <2>2, <3>2
  <2>5. \A c : {p \in st : a < p /\ p < c} # {} => {p \in more : a < p /\ p < c} # {}
    BY Zenon
  <2> QED BY <2>2, <2>3, <2>4, <2>5, Zenon
<1> QED BY <1>1, <1>3, Zenon DEF LinkedAt

(***************************************************************************)
(* Characters that begin behind what was read leave what the executor has. *)
(***************************************************************************)
LEMMA HasGrows ==
    ASSUME NEW ps, NEW held, NEW c, NEW to \in Nat, NEW st, NEW more,
           HasAt(ps, held, c, to, st),
           st \in SUBSET Nat, more \in SUBSET Nat, st \subseteq more,
           \A p \in more : p \in st \/ to <= p
    PROVE  HasAt(ps, held, c, to, more)
<1>1. /\ ps \in Seq(Int) /\ held \in Seq(Int) /\ c \in Nat
      /\ \A i \in 1..Len(ps) : ps[i] < to
      /\ LinkedAt(<<BeforeStream>> \o ps, st)
  BY Zenon DEF HasAt
<1>2. PICK s : s = <<BeforeStream>> \o ps
  OBVIOUS
<1>3. <<BeforeStream>> \in Seq(Int) /\ Len(<<BeforeStream>>) = 1 /\ <<BeforeStream>>[1] = -2
  BY DEF BeforeStream
<1>4. s \in Seq(Int)
  BY <1>1, <1>2, <1>3, JoinedIsSequence, Zenon
<1>5. \A i \in 1..Len(s) : s[i] < to
  BY <1>1, <1>2, <1>3
<1>6. LinkedAt(s, more)
  BY <1>1, <1>2, <1>4, <1>5, LinkedGrows, Zenon
<1>7. ASSUME c < MAX_CHARS PROVE CoversAt(s \o held, to, more)
  <2>1. PICK t : t = s \o held
    OBVIOUS
  <2>2. CoversAt(t, to, st)
    BY <1>2, <1>7, <2>1, Zenon DEF HasAt
  <2>3. PICK n \in Nat : n = Len(t) /\ n > 0
    BY <2>2 DEF CoversAt
  <2>4. /\ t \in Seq(Int) /\ LinkedAt(t, st) /\ \A i \in 1..Len(t) : t[i] < to
        /\ t[n] # Marker /\ t[n] < to /\ \A p \in st : ~ (t[n] < p /\ p < to)
    BY <2>2, <2>3, Zenon DEF CoversAt
  <2>5. LinkedAt(t, more)
    BY <2>4, LinkedGrows, Zenon
  <2>6. \A p \in more : ~ (t[n] < p /\ p < to)
    <3> SUFFICES ASSUME NEW p \in more, p < to PROVE p \in st
      BY <2>4, Zenon
    <3>1. p \in Nat
      OBVIOUS
    <3>2. ~ (to <= p)
      BY <3>1
    <3> QED BY <3>2, Zenon
  <2>7. {p \in more : t[n] < p /\ p < to} = {}
    BY <2>6, Zenon
  <2>8. Len(t) > 0
    BY <2>3
  <2> QED BY <2>1, <2>3, <2>4, <2>5, <2>7, <2>8, Zenon DEF CoversAt
<1> QED BY <1>1, <1>2, <1>6, <1>7, Zenon DEF HasAt
(***************************************************************************)
(* What the agent does leaves the executor alone: output only grows behind *)
(* the executor's offset, and what ended where a character may begin still *)
(* does.                                                                   *)
(***************************************************************************)
LEMMA AgentMoves ==
    ASSUME WindowInv, UNCHANGED clientVars,
           window' \in Retained, starts' \in SUBSET Nat, lost' \in Nat,
           starts \subseteq starts', \A p \in starts' : p \in starts \/ offset <= p,
           \A p \in Nat : Edge(p) =>
              EdgeAt(p, starts', window'.output_offset, saved'.output_offset, reading'),
           reading' \/ lost' = 0 => reading \/ lost = 0,
           reading' \/ lost' = 0 => window.output_offset <= window'.output_offset,
           lost <= lost'
    PROVE  AnswerInv' /\ ClientInv' /\ CollectedInv'
<1>1. /\ WindowTypes /\ AnswerInv /\ ClientInv /\ CollectedInv
      /\ answer' = answer /\ offset' = offset /\ pending' = pending /\ parts' = parts
      /\ chars' = chars /\ client' = client
  BY Zenon DEF WindowInv, clientVars
<1>2. PICK oo \in Nat, n \in Nat, wo \in Nat, wn \in Nat :
         /\ oo = answer.output_offset /\ n = offset
         /\ wo = window.output_offset /\ wn = window'.output_offset
  BY <1>1 DEF WindowTypes, Retained
<1>4. AnswerInv'
  <2>1. SUFFICES ASSUME client = "waiting"
                 PROVE  /\ Valid(answer)'
                        /\ \A i \in 1..Len(answer.output) :
                              answer.output[i] = answer.truncated_before + i - 1
                        /\ Edge(answer.output_offset)'
                        /\ reading' \/ lost' = 0 =>
                              answer.output_offset <= window'.output_offset
                        /\ answer.truncated_before >= offset
                        /\ answer.truncated_before > offset =>
                              answer.output # <<>> /\ offset \in starts'
    BY <1>1, Zenon DEF AnswerInv
  <2>2. /\ Valid(answer)
        /\ \A i \in 1..Len(answer.output) : answer.output[i] = answer.truncated_before + i - 1
        /\ Edge(answer.output_offset)
        /\ reading \/ lost = 0 => answer.output_offset <= window.output_offset
        /\ answer.truncated_before >= offset
        /\ answer.truncated_before > offset => answer.output # <<>> /\ offset \in starts
    BY <1>1, <2>1, Zenon DEF AnswerInv
  <2>3. Valid(answer)'
    BY <1>1, <2>2, Zenon DEF Valid
  <2>4. Edge(answer.output_offset)'
    <3>1. Edge(oo)
      BY <1>2, <2>2, Zenon
    <3>2. EdgeAt(oo, starts', window'.output_offset, saved'.output_offset, reading')
      BY <3>1, Zenon
    <3>3. answer'.output_offset = oo
      BY <1>1, <1>2, Zenon
    <3> QED BY <3>2, <3>3, Zenon DEF Edge, EdgeAt
  <2>5. ASSUME reading' \/ lost' = 0 PROVE answer.output_offset <= window'.output_offset
    <3>1. oo <= wo /\ wo <= wn
      BY <1>2, <2>2, <2>5, Zenon
    <3>2. oo <= wn
      BY <3>1
    <3> QED BY <1>2, <3>2, Zenon
  <2> QED BY <2>2, <2>3, <2>4, <2>5, Zenon
<1>5. ClientInv'
  <2>1. /\ Edge(offset)
        /\ reading \/ lost = 0 => offset <= window.output_offset
        /\ client = "failed" => lost > 0
        /\ client = "done" /\ chars < MAX_CHARS => pending = <<>>
    BY <1>1, Zenon DEF ClientInv, FailsOnlyAfterLostWrite
  <2>2. Edge(offset)'
    <3>1. Edge(n)
      BY <1>2, <2>1, Zenon
    <3>2. EdgeAt(n, starts', window'.output_offset, saved'.output_offset, reading')
      BY <3>1, Zenon
    <3>3. offset' = n
      BY <1>1, <1>2, Zenon
    <3> QED BY <3>2, <3>3, Zenon DEF Edge, EdgeAt
  <2>3. ASSUME reading' \/ lost' = 0 PROVE offset <= window'.output_offset
    <3>1. n <= wo /\ wo <= wn
      BY <1>2, <2>1, <2>3, Zenon
    <3>2. n <= wn
      BY <3>1
    <3> QED BY <1>2, <3>2, Zenon
  <2>4. client = "failed" => lost' > 0
    <3>1. lost \in Nat
      BY <1>1, Zenon DEF WindowTypes
    <3> QED BY <2>1, <3>1
  <2> QED BY <1>1, <2>1, <2>2, <2>3, <2>4, Zenon DEF ClientInv, FailsOnlyAfterLostWrite
<1>6. CollectedInv'
  <2>1. HasAt(parts, pending, chars, offset, starts)
    BY <1>1, HasCollected, HasIs, Zenon
  <2>2. HasAt(parts, pending, chars, n, starts')
    <3>1. starts \in SUBSET Nat
      BY <1>1, Zenon DEF WindowTypes
    <3>2. HasAt(parts, pending, chars, n, starts)
      BY <1>2, <2>1, Zenon
    <3>3. \A p \in starts' : p \in starts \/ n <= p
      BY <1>2, Zenon
    <3> QED BY <3>1, <3>2, <3>3, HasGrows, Zenon
  <2>3. HasAt(parts', pending', chars', offset', starts')
    BY <1>1, <1>2, <2>2, Zenon
  <2> QED BY <2>3, CollectedNext, Zenon
<1> QED BY <1>4, <1>5, <1>6

(* The client's variables keep their types when they do not change.        *)
LEMMA AgentTypes ==
    ASSUME WindowTypes, UNCHANGED clientVars,
           window' \in Retained, saved' \in Retained, starts' \in SUBSET Nat,
           reading' \in BOOLEAN, lost' \in Nat
    PROVE  WindowTypes'
  BY Zenon DEF WindowTypes, clientVars, Retained

(* What AgentInv says, one part at a time.                                 *)
LEMMA AgentNext ==
    ASSUME NEW w, NEW s, NEW st, window' = w, saved' = s, starts' = st,
           \A v \in {w, s} :
              /\ Len(v.output) <= output_limit
              /\ v.output_offset = v.truncated_before + Len(v.output)
              /\ \A i \in 1..Len(v.output) : v.output[i] = v.truncated_before + i - 1
              /\ v.output # <<>> => v.output[1] \in st
              /\ v.output_offset > 0 => v.output # <<>>
              /\ EdgeAt(v.output_offset, st, w.output_offset, s.output_offset, reading'),
           lost' = 0 => s = w,
           reading' => \A p \in st : p < w.output_offset
    PROVE  AgentInv'
<1>1. Suffix(window)' /\ Suffix(saved)'
  BY Zenon DEF Suffix
<1>2. Edge(window.output_offset)' /\ Edge(saved.output_offset)'
  BY Zenon DEF Edge, EdgeAt
<1>3. RetainedInv(window)' /\ RetainedInv(saved)'
  BY <1>1, <1>2, Zenon DEF RetainedInv
<1> QED BY <1>3, Zenon DEF AgentInv

(* What AgentInv says of a retained window.                                *)
LEMMA AgentNow ==
    ASSUME AgentInv, NEW v \in {window, saved}
    PROVE  /\ Len(v.output) <= output_limit
           /\ v.output_offset = v.truncated_before + Len(v.output)
           /\ \A i \in 1..Len(v.output) : v.output[i] = v.truncated_before + i - 1
           /\ v.output # <<>> => v.output[1] \in starts
           /\ v.output_offset > 0 => v.output # <<>>
           /\ Edge(v.output_offset)
<1>1. RetainedInv(v)
  <2>1. RetainedInv(window) /\ RetainedInv(saved)
    BY Zenon DEF AgentInv
  <2> QED BY <2>1, Zenon DEF RetainedInv, Suffix, Edge
<1> QED BY <1>1, Zenon DEF RetainedInv, Suffix
(***************************************************************************)
(* The job's end: _finish writes the window it has, or fails to.           *)
(***************************************************************************)
LEMMA JobFinishesInv ==
    ASSUME WindowInv, JobFinishes
    PROVE  WindowInv'
<1>1. WindowTypes /\ AgentInv
  BY Zenon DEF WindowInv
<1>2. /\ window' = window /\ starts' = starts /\ reading' = reading /\ UNCHANGED clientVars
      /\ \/ saved' = window /\ lost' = lost
         \/ lost' = lost + 1 /\ (saved' = saved \/ saved' = window)
  BY Zenon DEF JobFinishes
<1>3. /\ window \in Retained /\ saved \in Retained /\ starts \in SUBSET Nat
      /\ reading \in BOOLEAN /\ lost \in Nat /\ offset \in Nat
  BY <1>1, Zenon DEF WindowTypes
<1>4. saved' \in Retained /\ (saved' = saved \/ saved' = window)
  BY <1>2, <1>3, Zenon
<1>5. lost' \in Nat /\ lost <= lost' /\ (lost' = 0 => lost = 0 /\ saved' = window)
  BY <1>2, <1>3
<1>6. ASSUME NEW p \in Nat, Edge(p)
      PROVE  EdgeAt(p, starts', window'.output_offset, saved'.output_offset, reading')
  BY <1>2, <1>4, <1>6, Zenon DEF Edge, EdgeAt
<1>7. WindowTypes'
  BY <1>1, <1>2, <1>3, <1>4, <1>5, AgentTypes, Zenon
<1>8. AnswerInv' /\ ClientInv' /\ CollectedInv'
  <2>1. window.output_offset <= window'.output_offset
    BY <1>2, <1>3 DEF Retained
  <2>2. \A p \in starts' : p \in starts \/ offset <= p
    BY <1>2, Zenon
  <2>3. starts \subseteq starts' /\ starts' \in SUBSET Nat /\ window' \in Retained
    BY <1>2, <1>3, Zenon
  <2>4. reading' \/ lost' = 0 => reading \/ lost = 0
    BY <1>2, <1>5, Zenon
  <2> QED BY <1>2, <1>5, <1>6, <2>1, <2>2, <2>3, <2>4, AgentMoves, Zenon
<1>9. AgentInv'
  <2>1. ASSUME NEW v \in {window, saved'}
        PROVE  /\ Len(v.output) <= output_limit
               /\ v.output_offset = v.truncated_before + Len(v.output)
               /\ \A i \in 1..Len(v.output) : v.output[i] = v.truncated_before + i - 1
               /\ v.output # <<>> => v.output[1] \in starts
               /\ v.output_offset > 0 => v.output # <<>>
               /\ EdgeAt(v.output_offset, starts, window.output_offset,
                         saved'.output_offset, reading')
    <3>1. v \in {window, saved}
      BY <1>4, <2>1, Zenon
    <3>2. v.output_offset \in Nat
      BY <1>3, <3>1 DEF Retained
    <3>3. /\ Len(v.output) <= output_limit
          /\ v.output_offset = v.truncated_before + Len(v.output)
          /\ \A i \in 1..Len(v.output) : v.output[i] = v.truncated_before + i - 1
          /\ v.output # <<>> => v.output[1] \in starts
          /\ v.output_offset > 0 => v.output # <<>>
          /\ Edge(v.output_offset)
      BY <1>1, <3>1, AgentNow, Zenon
    <3>4. EdgeAt(v.output_offset, starts', window'.output_offset, saved'.output_offset,
                 reading')
      BY <1>6, <3>2, <3>3, Zenon
    <3> QED BY <1>2, <3>3, <3>4, Zenon
  <2>2. reading' => \A p \in starts : p < window.output_offset
    BY <1>1, <1>2, Zenon DEF AgentInv
  <2>3. PICK s : s = saved'
    OBVIOUS
  <2>4. PICK w, st : w = window /\ st = starts
    OBVIOUS
  <2> QED BY <1>2, <1>5, <2>1, <2>2, <2>3, <2>4, AgentNext, Zenon
<1> QED BY <1>7, <1>8, <1>9, Zenon DEF WindowInv

(***************************************************************************)
(* A restart: the agent has what its file has, and no reader.              *)
(***************************************************************************)
LEMMA AgentRestartsInv ==
    ASSUME WindowInv, AgentRestarts
    PROVE  WindowInv'
<1>1. WindowTypes /\ AgentInv
  BY Zenon DEF WindowInv
<1>2. /\ window' = saved /\ saved' = saved /\ starts' = starts /\ reading' = FALSE
      /\ lost' = lost /\ UNCHANGED clientVars
  BY Zenon DEF AgentRestarts
<1>3. /\ window \in Retained /\ saved \in Retained /\ starts \in SUBSET Nat
      /\ lost \in Nat /\ offset \in Nat /\ (lost = 0 => saved = window)
  BY <1>1, Zenon DEF WindowTypes, AgentInv
<1>4. ASSUME NEW p \in Nat, Edge(p)
      PROVE  EdgeAt(p, starts', window'.output_offset, saved'.output_offset, reading')
  BY <1>2, <1>4, Zenon DEF Edge, EdgeAt
<1>5. WindowTypes'
  <2>1. reading' \in BOOLEAN
    BY <1>2, Zenon
  <2> QED BY <1>1, <1>2, <1>3, <2>1, AgentTypes, Zenon
<1>6. AnswerInv' /\ ClientInv' /\ CollectedInv'
  <2>1. reading' \/ lost' = 0 => lost = 0 /\ window' = window
    BY <1>2, <1>3, Zenon
  <2>2. window.output_offset <= window.output_offset
    BY <1>3 DEF Retained
  <2>3. reading' \/ lost' = 0 => window.output_offset <= window'.output_offset
    BY <2>1, <2>2, Zenon
  <2>4. lost <= lost' /\ lost' \in Nat
    BY <1>2, <1>3
  <2>5. \A p \in starts' : p \in starts \/ offset <= p
    BY <1>2, Zenon
  <2>6. starts \subseteq starts' /\ starts' \in SUBSET Nat /\ window' \in Retained
    BY <1>2, <1>3, Zenon
  <2> QED BY <1>2, <1>4, <2>1, <2>3, <2>4, <2>5, <2>6, AgentMoves, Zenon
<1>7. AgentInv'
  <2>1. /\ Len(saved.output) <= output_limit
        /\ saved.output_offset = saved.truncated_before + Len(saved.output)
        /\ \A i \in 1..Len(saved.output) : saved.output[i] = saved.truncated_before + i - 1
        /\ saved.output # <<>> => saved.output[1] \in starts
        /\ saved.output_offset > 0 => saved.output # <<>>
        /\ Edge(saved.output_offset)
    BY <1>1, AgentNow, Zenon
  <2>2. saved.output_offset \in Nat
    BY <1>3 DEF Retained
  <2>3. EdgeAt(saved.output_offset, starts, saved.output_offset, saved.output_offset, reading')
    BY <1>2, <1>4, <2>1, <2>2, Zenon
  <2>4. PICK w, st : w = saved /\ st = starts
    OBVIOUS
  <2> QED BY <1>2, <2>1, <2>3, <2>4, AgentNext, Zenon
<1> QED BY <1>5, <1>6, <1>7, Zenon DEF WindowInv
(* What the agent has when only the executor moves.                        *)
LEMMA AgentStays ==
    ASSUME AgentInv, UNCHANGED <<window, starts, saved, reading, lost>>
    PROVE  /\ AgentInv'
           /\ \A p : Edge(p) => EdgeAt(p, starts', window'.output_offset,
                                       saved'.output_offset, reading')
<1>1. Suffix(window)' /\ Suffix(saved)'
  BY Zenon DEF AgentInv, RetainedInv, Suffix
<1>2. Edge(window.output_offset)' /\ Edge(saved.output_offset)'
  BY Zenon DEF AgentInv, RetainedInv, Edge
<1>3. RetainedInv(window)' /\ RetainedInv(saved)'
  BY <1>1, <1>2, Zenon DEF AgentInv, RetainedInv
<1>4. AgentInv'
  BY <1>3, Zenon DEF AgentInv
<1> QED BY <1>4, Zenon DEF Edge, EdgeAt

(***************************************************************************)
(* A poll: get answers from the executor's offset on, or refuses it.       *)
(***************************************************************************)
LEMMA PollOutputInv ==
    ASSUME WindowInv, PollOutput
    PROVE  WindowInv'
<1>1. WindowTypes /\ AgentInv /\ ClientInv /\ CollectedInv
  BY Zenon DEF WindowInv
<1>2. /\ window' = window /\ starts' = starts /\ saved' = saved /\ reading' = reading
      /\ lost' = lost /\ offset' = offset /\ pending' = pending /\ parts' = parts
      /\ chars' = chars
      /\ \/ offset <= window.output_offset /\ answer' = Snapshot(offset) /\ client' = "waiting"
         \/ offset > window.output_offset /\ client' = "failed" /\ answer' = answer
  BY Zenon DEF PollOutput
<1>3. /\ AgentInv'
      /\ \A p : Edge(p) => EdgeAt(p, starts', window'.output_offset,
                                  saved'.output_offset, reading')
  BY <1>1, <1>2, AgentStays, Zenon
<1>4. CollectedInv'
  <2>1. HasAt(parts, pending, chars, offset, starts)
    BY <1>1, HasCollected, HasIs, Zenon
  <2>2. HasAt(parts', pending', chars', offset', starts')
    BY <1>2, <2>1, Zenon
  <2> QED BY <2>2, CollectedNext, Zenon
<1>5. /\ Edge(offset)
      /\ reading \/ lost = 0 => offset <= window.output_offset
  BY <1>1, Zenon DEF ClientInv
<1>6. Edge(offset)'
  <2>1. EdgeAt(offset, starts', window'.output_offset, saved'.output_offset, reading')
    BY <1>3, <1>5, Zenon
  <2>2. EdgeAt(offset', starts', window'.output_offset, saved'.output_offset, reading')
    BY <1>2, <2>1, Zenon
  <2> QED BY <2>2, Zenon DEF Edge, EdgeAt
<1>7. lost \in Nat /\ offset \in Nat /\ window.output_offset \in Nat
  BY <1>1 DEF WindowTypes, Retained
<1>8. CASE offset <= window.output_offset
  <2>1. answer' = Snapshot(offset) /\ client' = "waiting"
    <3>1. ~ (offset > window.output_offset)
      BY <1>7, <1>8
    <3> QED BY <1>2, <3>1, Zenon
  <2>2. PICK a : a = Snapshot(offset)
    OBVIOUS
  <2>3. /\ a \in Answers /\ a.output_offset = window.output_offset
        /\ Valid(a)
        /\ \A i \in 1..Len(a.output) : a.output[i] = a.truncated_before + i - 1
        /\ a.truncated_before >= offset
        /\ a.truncated_before > offset => a.output # <<>> /\ offset \in starts
    BY <1>1, <1>5, <1>8, <2>2, SnapshotFacts, Zenon
  <2>4. answer' = a
    BY <2>1, <2>2, Zenon
  <2>5. Valid(answer)'
    BY <1>2, <2>3, <2>4, Zenon DEF Valid
  <2>6. Edge(answer.output_offset)'
    <3>1. Edge(window.output_offset)
      BY <1>1, Zenon DEF AgentInv, RetainedInv
    <3>2. EdgeAt(window.output_offset, starts', window'.output_offset,
                 saved'.output_offset, reading')
      BY <1>3, <3>1, Zenon
    <3>3. EdgeAt(answer'.output_offset, starts', window'.output_offset,
                 saved'.output_offset, reading')
      BY <2>3, <2>4, <3>2, Zenon
    <3> QED BY <3>3, Zenon DEF Edge, EdgeAt
  <2>7. a.output_offset <= window.output_offset
    BY <1>7, <2>3
  <2>8. AnswerInv'
    BY <1>2, <2>1, <2>3, <2>4, <2>5, <2>6, <2>7, Zenon DEF AnswerInv
  <2>9. ClientInv'
    <3>1. client' # "failed" /\ client' # "done"
      BY <2>1
    <3> QED BY <1>2, <1>5, <1>6, <3>1, Zenon DEF ClientInv, FailsOnlyAfterLostWrite
  <2>10. WindowTypes'
    <3>1. client' \in {"polling", "waiting", "done", "failed"}
      BY <2>1
    <3> QED BY <1>1, <1>2, <2>3, <2>4, <3>1, Zenon DEF WindowTypes, Answers
  <2> QED BY <1>3, <1>4, <2>8, <2>9, <2>10, Zenon DEF WindowInv
<1>9. CASE ~ (offset <= window.output_offset)
  <2>1. answer' = answer /\ client' = "failed"
    BY <1>2, <1>9, Zenon
  <2>2. client' # "waiting" /\ client' # "done"
    BY <2>1
  <2>3. AnswerInv'
    BY <2>2, Zenon DEF AnswerInv
  <2>4. lost > 0
    <3>1. lost # 0
      BY <1>5, <1>9, Zenon
    <3> QED BY <1>7, <3>1
  <2>5. ClientInv'
    BY <1>2, <1>5, <1>6, <2>2, <2>4, Zenon DEF ClientInv, FailsOnlyAfterLostWrite
  <2>6. WindowTypes'
    <3>1. client' \in {"polling", "waiting", "done", "failed"}
      BY <2>1
    <3> QED BY <1>1, <1>2, <2>1, <3>1, Zenon DEF WindowTypes
  <2> QED BY <1>3, <1>4, <2>3, <2>5, <2>6, Zenon DEF WindowInv
<1> QED BY <1>8, <1>9

(***************************************************************************)
(* An answer: it is always valid, and the executor reads it.               *)
(***************************************************************************)
LEMMA ReceiveInv ==
    ASSUME WindowInv, Receive
    PROVE  WindowInv'
<1>1. WindowTypes /\ AgentInv /\ AnswerInv /\ ClientInv /\ CollectedInv
  BY Zenon DEF WindowInv
<1>2. /\ client = "waiting"
      /\ window' = window /\ starts' = starts /\ saved' = saved /\ reading' = reading
      /\ lost' = lost /\ answer' = answer
  BY Zenon DEF Receive
<1>3. /\ Valid(answer) /\ answer.truncated_before >= offset /\ Edge(answer.output_offset)
      /\ reading \/ lost = 0 => answer.output_offset <= window.output_offset
  BY <1>1, <1>2, Zenon DEF AnswerInv
<1>4. ConsumeOutput
  BY <1>3, Zenon DEF Receive
<1>5. PICK oo \in Nat : oo = answer.output_offset
  BY <1>1 DEF WindowTypes
<1>6. /\ Has(parts', pending', chars', oo) /\ offset' = oo
      /\ client' = IF answer.terminal THEN "done" ELSE "polling"
      /\ answer.terminal => pending' = <<>>
  BY <1>1, <1>2, <1>4, <1>5, ConsumeFacts, Zenon
<1>7. /\ AgentInv'
      /\ \A p : Edge(p) => EdgeAt(p, starts', window'.output_offset,
                                  saved'.output_offset, reading')
  BY <1>1, <1>2, AgentStays, Zenon
<1>8. HasAt(parts', pending', chars', offset', starts')
  <2>1. HasAt(parts', pending', chars', oo, starts)
    <3>1. \A ps, held, c, to : Has(ps, held, c, to) <=> HasAt(ps, held, c, to, starts)
      BY HasIs, Zenon
    <3> QED BY <1>6, <3>1, Zenon
  <2> QED BY <1>2, <1>6, <2>1, Zenon
<1>9. CollectedInv'
  BY <1>8, CollectedNext, Zenon
<1>10. client' # "waiting" /\ client' # "failed" /\ (client' = "done" => answer.terminal)
       /\ client' \in {"polling", "waiting", "done", "failed"}
  BY <1>6
<1>11. AnswerInv'
  BY <1>10, Zenon DEF AnswerInv
<1>12. ClientInv'
  <2>1. EdgeAt(oo, starts', window'.output_offset, saved'.output_offset, reading')
    BY <1>3, <1>5, <1>7, Zenon
  <2>2. EdgeAt(offset', starts', window'.output_offset, saved'.output_offset, reading')
    BY <1>6, <2>1, Zenon
  <2>3. Edge(offset)'
    BY <2>2, Zenon DEF Edge, EdgeAt
  <2>4. reading' \/ lost' = 0 => offset' <= window'.output_offset
    BY <1>2, <1>3, <1>5, <1>6, Zenon
  <2> QED BY <1>6, <1>10, <2>3, <2>4, Zenon DEF ClientInv, FailsOnlyAfterLostWrite
<1>13. WindowTypes'
  <2>1. parts' \in Seq(Int) /\ pending' \in Seq(Int) /\ chars' \in Nat
    BY <1>6, Zenon DEF Has
  <2>2. offset' \in Nat
    BY <1>6, Zenon
  <2> QED BY <1>1, <1>2, <1>10, <2>1, <2>2, Zenon DEF WindowTypes
<1> QED BY <1>7, <1>9, <1>11, <1>12, <1>13, Zenon DEF WindowInv
(***************************************************************************)
(* A chunk: the window grows by whole characters and keeps its limit.      *)
(***************************************************************************)
LEMMA AppendOutputInv ==
    ASSUME WindowInv, NEW to \in (window.output_offset + 1)..MaxBytes,
           NEW begins \in SUBSET (window.output_offset..(to - 1)), AppendOutput(to, begins)
    PROVE  WindowInv'
<1>1. WindowTypes /\ AgentInv /\ ClientInv
  BY Zenon DEF WindowInv
<1>2. /\ window \in Retained /\ saved \in Retained /\ starts \in SUBSET Nat
      /\ reading \in BOOLEAN /\ lost \in Nat /\ offset \in Nat
  BY <1>1, Zenon DEF WindowTypes
<1>3. PICK from \in Nat, so \in Nat : from = window.output_offset /\ so = saved.output_offset
  BY <1>2 DEF Retained
<1>4. to \in Nat /\ from < to
  BY <1>3
<1>5. \A p \in begins : p \in Nat /\ from <= p /\ p < to
  BY <1>3, <1>4
<1>6. PICK bytes : bytes = [i \in 1..(to - window.output_offset) |-> window.output_offset + i - 1]
  OBVIOUS
<1>7. PICK g : g = Grown(window, bytes, starts \cup begins)
  OBVIOUS
<1>8. /\ reading /\ Chunk(window.output_offset, to, begins)
      /\ starts' = starts \cup begins /\ window' = g
      /\ \/ saved' = g /\ reading' = reading /\ lost' = lost
         \/ lost' = lost + 1 /\ reading' = FALSE /\ (saved' = saved \/ saved' = g)
      /\ UNCHANGED clientVars
  BY <1>6, <1>7, Zenon DEF AppendOutput, clientVars
<1>9. Suffix(window)
  BY <1>1, Zenon DEF AgentInv, RetainedInv
<1>10. /\ g \in Retained /\ g.output_offset = to
       /\ Len(g.output) <= output_limit
       /\ g.output_offset = g.truncated_before + Len(g.output)
       /\ \A i \in 1..Len(g.output) : g.output[i] = g.truncated_before + i - 1
       /\ g.output # <<>> /\ g.output[1] \in starts \cup begins
  <2>1. EndsAt(g, to, starts \cup begins)
    BY <1>2, <1>4, <1>6, <1>7, <1>8, <1>9, GrownFacts, Zenon
  <2> QED BY <2>1, Zenon DEF EndsAt
<1>11. PICK st : st = starts'
  OBVIOUS
<1>12. st = starts \cup begins /\ st \in SUBSET Nat /\ starts \subseteq st /\ from \in st
  BY <1>2, <1>3, <1>5, <1>8, <1>11 DEF Chunk
<1>13. PICK s : s = saved'
  OBVIOUS
<1>14. s \in Retained /\ (s = saved \/ s = g)
  BY <1>2, <1>8, <1>10, <1>13, Zenon
<1>15. reading' \in BOOLEAN /\ lost' \in Nat /\ lost <= lost' /\ (lost' = 0 => lost = 0 /\ s = g)
  <2>1. \/ reading' = reading /\ lost' = lost /\ s = g
        \/ reading' = FALSE /\ lost' = lost + 1
    BY <1>8, <1>13, Zenon
  <2>2. reading' \in BOOLEAN
    BY <1>2, <2>1, Zenon
  <2>3. CASE lost' = lost /\ s = g
    BY <1>2, <2>2, <2>3
  <2>4. CASE lost' = lost + 1
    BY <1>2, <2>2, <2>4
  <2> QED BY <2>1, <2>3, <2>4, Zenon
<1>16. \A p \in starts : p \in Nat /\ p < from
  BY <1>1, <1>2, <1>3, <1>8 DEF AgentInv
<1>17. \A p \in st : p \in Nat /\ p < to
  BY <1>4, <1>5, <1>12, <1>16
<1>18. so <= from
  <2>1. Edge(window.output_offset)
    BY <1>1, Zenon DEF AgentInv, RetainedInv
  <2>2. from \notin starts
    BY <1>16
  <2> QED BY <1>3, <2>1, <2>2, Zenon DEF Edge
<1>19. ASSUME NEW p \in Nat, Edge(p)
       PROVE  EdgeAt(p, st, g.output_offset, s.output_offset, reading')
  <2>1. p \in starts \/ p = from
    BY <1>3, <1>8, <1>19, Zenon DEF Edge
  <2>2. p \in st
    BY <1>12, <2>1, Zenon
  <2> QED BY <2>2, Zenon DEF EdgeAt
<1>20. EdgeAt(to, st, g.output_offset, s.output_offset, reading')
  <2>1. g.output_offset <= to
    BY <1>4, <1>10
  <2>2. s.output_offset <= to
    BY <1>3, <1>4, <1>10, <1>14, <1>18
  <2> QED BY <1>10, <1>17, <2>1, <2>2, Zenon DEF EdgeAt
<1>21. WindowTypes'
  BY <1>1, <1>8, <1>10, <1>11, <1>12, <1>13, <1>14, <1>15, AgentTypes, Zenon
<1>22. AnswerInv' /\ ClientInv' /\ CollectedInv'
  <2>1. offset <= from
    BY <1>1, <1>3, <1>8, Zenon DEF ClientInv
  <2>2. \A p \in st : p \in starts \/ offset <= p
    <3> SUFFICES ASSUME NEW p \in begins PROVE offset <= p
      BY <1>12, Zenon
    <3>1. p \in Nat /\ from <= p
      BY <1>5
    <3> QED BY <1>2, <2>1, <3>1
  <2>3. window.output_offset <= g.output_offset
    BY <1>3, <1>4, <1>10
  <2>4. \A p \in Nat : Edge(p) =>
           EdgeAt(p, starts', window'.output_offset, saved'.output_offset, reading')
    BY <1>8, <1>11, <1>13, <1>19, Zenon
  <2>5. /\ window' \in Retained /\ starts' \in SUBSET Nat /\ starts \subseteq starts'
        /\ \A p \in starts' : p \in starts \/ offset <= p
        /\ window.output_offset <= window'.output_offset
    BY <1>8, <1>10, <1>11, <1>12, <2>2, <2>3, Zenon
  <2> QED BY <1>8, <1>15, <2>4, <2>5, AgentMoves, Zenon
<1>23. AgentInv'
  <2>1. ASSUME NEW v \in {g, s}
        PROVE  /\ Len(v.output) <= output_limit
               /\ v.output_offset = v.truncated_before + Len(v.output)
               /\ \A i \in 1..Len(v.output) : v.output[i] = v.truncated_before + i - 1
               /\ v.output # <<>> => v.output[1] \in st
               /\ v.output_offset > 0 => v.output # <<>>
               /\ EdgeAt(v.output_offset, st, g.output_offset, s.output_offset, reading')
    <3>1. CASE v = g
      BY <1>10, <1>12, <1>20, <3>1, Zenon
    <3>2. CASE v = saved
      <4>1. /\ Len(saved.output) <= output_limit
            /\ saved.output_offset = saved.truncated_before + Len(saved.output)
            /\ \A i \in 1..Len(saved.output) : saved.output[i] = saved.truncated_before + i - 1
            /\ saved.output # <<>> => saved.output[1] \in starts
            /\ saved.output_offset > 0 => saved.output # <<>>
            /\ Edge(saved.output_offset)
        BY <1>1, AgentNow, Zenon
      <4>2. EdgeAt(so, st, g.output_offset, s.output_offset, reading')
        BY <1>3, <1>19, <4>1, Zenon
      <4> QED BY <1>3, <1>12, <3>2, <4>1, <4>2, Zenon
    <3> QED BY <1>14, <2>1, <3>1, <3>2, Zenon
  <2>2. reading' => \A p \in st : p < g.output_offset
    BY <1>10, <1>17, Zenon
  <2> QED BY <1>8, <1>11, <1>13, <1>15, <2>1, <2>2, AgentNext, Zenon
<1> QED BY <1>21, <1>22, <1>23, Zenon DEF WindowInv

(* The first state: nothing was written, and the executor waits for the    *)
(* queued job's snapshot.                                                  *)
LEMMA WindowInitInv ==
    ASSUME WindowInit
    PROVE  WindowInv
<1>1. <<>> \in Seq(Int) /\ Len(<<>>) = 0
  OBVIOUS
<1>2. WindowTypes
  BY <1>1 DEF WindowInit, Empty, WindowTypes, Retained
<1>4. Edge(0) /\ window.output_offset = 0 /\ saved.output_offset = 0
      /\ answer.output_offset = 0 /\ offset = 0
  BY DEF WindowInit, Empty, Edge
<1>5. AgentInv
  <2>1. window = Empty /\ saved = Empty /\ starts = {}
    BY Zenon DEF WindowInit
  <2>2. Empty.output = <<>> /\ Empty.output_offset = 0 /\ Empty.truncated_before = 0
    BY DEF Empty
  <2>3. /\ Len(Empty.output) <= output_limit
        /\ Empty.output_offset = Empty.truncated_before + Len(Empty.output)
        /\ \A i \in 1..Len(Empty.output) : Empty.output[i] = Empty.truncated_before + i - 1
        /\ ~ (Empty.output_offset > 0)
    BY <1>1, <2>2, OutputWindowAssumption
  <2>4. Suffix(Empty) /\ Edge(Empty.output_offset)
    BY <1>4, <2>2, <2>3, Zenon DEF Suffix
  <2>5. RetainedInv(Empty)
    BY <2>3, <2>4, Zenon DEF RetainedInv
  <2>6. RetainedInv(window) /\ RetainedInv(saved)
    BY <2>1, <2>5, Zenon
  <2> QED BY <2>1, <2>6, Zenon DEF AgentInv
<1>6. AnswerInv
  BY <1>1, <1>4 DEF WindowInit, Empty, AnswerInv, Valid
<1>7. ClientInv
  BY <1>4 DEF WindowInit, ClientInv, FailsOnlyAfterLostWrite
<1>8. CollectedInv
  <2>1. PICK b \in Seq(Int) : b = <<BeforeStream>> /\ Len(b) = 1 /\ b[1] = -2
    <3>1. <<BeforeStream>> \in Seq(Int) /\ Len(<<BeforeStream>>) = 1 /\ <<BeforeStream>>[1] = -2
      BY DEF BeforeStream
    <3> QED BY <3>1, Zenon
  <2>2. parts = <<>> /\ pending = <<>> /\ offset = 0 /\ starts = {}
    BY Zenon DEF WindowInit
  <2>3. b \o <<>> = b /\ (b \o <<>>) \o <<>> = b
    OBVIOUS
  <2>4. Linked(b)
    BY <2>1 DEF Linked
  <2>5. UpTo(b, 0) /\ \A i \in 1..Len(b) : b[i] < 0
    BY <2>1, <2>2 DEF UpTo, Last, Marker, Characters
  <2>6. \A i \in 1..Len(parts) : parts[i] < offset
    BY <1>1, <2>2
  <2>7. /\ <<BeforeStream>> \o parts = b
        /\ <<BeforeStream>> \o parts \o pending = b
    BY <2>1, <2>2, <2>3, Zenon
  <2> QED BY <2>2, <2>4, <2>5, <2>6, <2>7, Zenon DEF CollectedInv, NoSilentGap
<1> QED BY <1>2, <1>5, <1>6, <1>7, <1>8, Zenon DEF WindowInv

(* Every step keeps the invariant.                                         *)
LEMMA WindowNextInv ==
    ASSUME WindowInv, [WindowNext]_windowVars
    PROVE  WindowInv'
<1>1. CASE UNCHANGED windowVars
  <2>1. /\ window' = window /\ status' = status /\ starts' = starts /\ saved' = saved
        /\ reading' = reading /\ answer' = answer /\ offset' = offset /\ pending' = pending
        /\ parts' = parts /\ chars' = chars /\ client' = client /\ lost' = lost
    BY <1>1, Zenon DEF windowVars
  <2>2. WindowTypes'
    BY <2>1, Zenon DEF WindowInv, WindowTypes
  <2>3. AgentInv'
    BY <2>1, AgentStays, Zenon DEF WindowInv
  <2>4. AnswerInv' /\ ClientInv' /\ CollectedInv'
    <3>1. /\ window \in Retained /\ starts \in SUBSET Nat /\ lost \in Nat
      BY Zenon DEF WindowInv, WindowTypes
    <3>2. lost <= lost' /\ window.output_offset <= window'.output_offset
      BY <2>1, <3>1 DEF Retained
    <3>3. \A p \in Nat : Edge(p) =>
             EdgeAt(p, starts', window'.output_offset, saved'.output_offset, reading')
      BY <2>1, Zenon DEF Edge, EdgeAt
    <3>4. UNCHANGED clientVars
      BY <2>1, Zenon DEF clientVars
    <3>5. /\ window' \in Retained /\ starts' \in SUBSET Nat /\ lost' \in Nat
          /\ starts \subseteq starts' /\ \A p \in starts' : p \in starts \/ offset <= p
      BY <2>1, <3>1, Zenon
    <3> QED BY <2>1, <3>2, <3>3, <3>4, <3>5, AgentMoves, Zenon
  <2> QED BY <2>2, <2>3, <2>4, Zenon DEF WindowInv
<1>2. CASE WindowNext
  <2>1. ASSUME NEW to \in (window.output_offset + 1)..MaxBytes,
               NEW begins \in SUBSET (window.output_offset..(to - 1)), AppendOutput(to, begins)
        PROVE  WindowInv'
    BY <2>1, AppendOutputInv, Zenon
  <2>2. CASE JobFinishes
    BY <2>2, JobFinishesInv, Zenon
  <2>3. CASE AgentRestarts
    BY <2>3, AgentRestartsInv, Zenon
  <2>4. CASE PollOutput
    BY <2>4, PollOutputInv, Zenon
  <2>5. CASE Receive
    BY <2>5, ReceiveInv, Zenon
  <2> QED BY <1>2, <2>1, <2>2, <2>3, <2>4, <2>5, Zenon DEF WindowNext
<1> QED BY <1>1, <1>2, Zenon

(***************************************************************************)
(* The invariant of the window and its reader holds in every state, for    *)
(* every limit of the agent and of the executor.                           *)
(***************************************************************************)
THEOREM WindowInvariance == WindowSpec => []WindowInv
<1>1. WindowInit => WindowInv
  BY WindowInitInv
<1>2. WindowInv /\ [WindowNext]_windowVars => WindowInv'
  BY WindowNextInv
<1> QED BY <1>1, <1>2, PTL DEF WindowSpec

(***************************************************************************)
(* Offsets tell the truth, in memory and in the file: what                 *)
(* JobRunner._append_output keeps is the stream's last bytes from a        *)
(* character's start, at most output_limit of them.                        *)
(***************************************************************************)
THEOREM WindowsTellTheTruth == WindowSpec => []WindowIsSuffix
<1>1. WindowInv => WindowIsSuffix
  BY Zenon DEF WindowInv, AgentInv, RetainedInv, WindowIsSuffix
<1> QED BY <1>1, WindowInvariance, PTL

(***************************************************************************)
(* Polling by offset neither repeats nor silently drops output: where      *)
(* _consume_output's result lacks characters a marker stands, and nowhere  *)
(* else.                                                                   *)
(***************************************************************************)
THEOREM OutputHasNoSilentGap == WindowSpec => []NoSilentGap
<1>1. WindowInv => NoSilentGap
  BY Zenon DEF WindowInv, CollectedInv
<1> QED BY <1>1, WindowInvariance, PTL

(***************************************************************************)
(* A finished step has its tail: the terminal snapshot flushes the         *)
(* redactor, so the output ends with the last character the agent had.     *)
(***************************************************************************)
THEOREM FinishedStepsHaveTheirTail == WindowSpec => []DoneHasTail
<1>1. ASSUME WindowInv PROVE DoneHasTail
  <2>1. SUFFICES ASSUME client = "done", chars < MAX_CHARS, Characters(-1, offset) # {}
                 PROVE  parts # <<>> /\ Characters(Last(parts), offset) = {}
    BY Zenon DEF DoneHasTail
  <2>2. pending = <<>>
    BY <1>1, <2>1, Zenon DEF WindowInv, ClientInv
  <2>3. parts \in Seq(Int) /\ offset \in Nat /\ starts \in SUBSET Nat
    BY <1>1, Zenon DEF WindowInv, WindowTypes
  <2>4. PICK s : s = <<BeforeStream>> \o parts
    OBVIOUS
  <2>5. <<BeforeStream>> \in Seq(Int) /\ Len(<<BeforeStream>>) = 1 /\ <<BeforeStream>>[1] = -2
    BY DEF BeforeStream
  <2>6. s \in Seq(Int) /\ s \o <<>> = s
    BY <2>3, <2>4, <2>5
  <2>7. UpTo(s, offset)
    <3>1. UpTo(<<BeforeStream>> \o parts \o pending, offset)
      BY <1>1, <2>1, Zenon DEF WindowInv, CollectedInv
    <3> QED BY <2>2, <2>4, <2>6, <3>1, Zenon
  <2>8. Characters(Last(s), offset) = {}
    BY <2>7, Zenon DEF UpTo
  <2>9. parts # <<>>
    <3>1. ASSUME parts = <<>> PROVE FALSE
      <4>1. Last(s) = -2
        BY <2>4, <2>5, <3>1 DEF Last
      <4>2. PICK p \in starts : -1 < p /\ p < offset
        BY <2>1 DEF Characters
      <4>3. p \in Characters(-2, offset)
        BY <2>3, <4>2 DEF Characters
      <4> QED BY <2>8, <4>1, <4>3
    <3> QED BY <3>1
  <2>10. Last(s) = Last(parts)
    BY <2>3, <2>4, <2>5, <2>9 DEF Last
  <2> QED BY <2>8, <2>9, <2>10, Zenon
<1> QED BY <1>1, WindowInvariance, PTL

(***************************************************************************)
(* The executor rejects a snapshot, or has its offset refused, only when   *)
(* the agent lost a write of its metadata.                                 *)
(***************************************************************************)
THEOREM HonestAgentsAreBelieved == WindowSpec => []FailsOnlyAfterLostWrite
<1>1. WindowInv => FailsOnlyAfterLostWrite
  BY Zenon DEF WindowInv, ClientInv
<1> QED BY <1>1, WindowInvariance, PTL
=============================================================================
