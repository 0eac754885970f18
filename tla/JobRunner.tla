----------------------------- MODULE JobRunner -----------------------------
(***************************************************************************)
(* The durable job runner of the host agent:                               *)
(* host_agent/dgx_ops_agent/runner.py and the gate of launcher.py.         *)
(*                                                                         *)
(* A job is a worker thread (_run), a reader thread (_read_output), an     *)
(* in-memory _JobState, a metadata file and a process group.  The launcher *)
(* process waits behind a pipe (the gate) until its identity is on disk;   *)
(* only then does it become the command.  The agent may die at any step,   *)
(* any write of a metadata file may fail, and a restarted agent recovers   *)
(* from the files (_load_jobs).  Each action is one section of the code    *)
(* between two points where another thread, a crash or a signal can fall.  *)
(***************************************************************************)
EXTENDS Naturals

CONSTANTS
    Jobs,          \* job identifiers (UUIDs, never reused)
    MaxRestarts,   \* bound: agent restarts in a behaviour
    MaxFaults      \* bound: failing metadata writes in a behaviour

ASSUME JobRunnerAssumption ==
    /\ MaxRestarts \in Nat
    /\ MaxFaults \in Nat

VARIABLES
    job,       \* _jobs: the in-memory states
    disk,      \* the metadata files
    pc,        \* the worker threads
    outcome,   \* the status the worker is about to finish with
    reader,    \* the reader threads
    gate,      \* the gate pipes
    procs,     \* the live processes of a job
    executed,  \* the launcher has become the command
    up,        \* the agent: serving, loading its files, or dead
    unread,    \* files _load_jobs has not reached
    restarts, faults

vars == <<job, disk, pc, outcome, reader, gate, procs, executed, up, unread,
          restarts, faults>>

TERMINAL_STATUSES == {"succeeded", "failed", "timed_out", "cancelled"}

JobStatus == {"absent", "queued", "running"} \cup TERMINAL_STATUSES

(* Who can be alive: the group leader and children that kept its group;    *)
(* scrubbed ones dropped the recovery token from their environment,        *)
(* escaped ones left the process group and session.                        *)
Member == {"leader", "child", "scrubbed", "escaped"}

Group == Member \ {"escaped"}

(* _recovery_process_matches: same group and session, and the token.       *)
Recoverable == {"leader", "child"}

(* The part of _JobState that control depends on; large says the metadata  *)
(* exceeds the size _load_jobs accepts.                                    *)
State == [status : JobStatus, identity : BOOLEAN, cancel_requested : BOOLEAN,
          large : BOOLEAN]

Absent == [status |-> "absent", identity |-> FALSE, cancel_requested |-> FALSE,
           large |-> FALSE]

WorkerPc == {"none", "start", "prepare", "unprepared", "spawn", "capture", "ready",
             "gate", "poll", "terminate", "finish", "done", "lost"}

Init ==
    /\ job = [j \in Jobs |-> Absent]
    /\ disk = [j \in Jobs |-> Absent]
    /\ pc = [j \in Jobs |-> "none"]
    /\ outcome = [j \in Jobs |-> "failed"]
    /\ reader = [j \in Jobs |-> "none"]
    /\ gate = [j \in Jobs |-> "none"]
    /\ procs = [j \in Jobs |-> {}]
    /\ executed = [j \in Jobs |-> FALSE]
    /\ up = "up"
    /\ unread = {}
    /\ restarts = 0
    /\ faults = 0

-----------------------------------------------------------------------------
(***************************************************************************)
(* _persist writes a temporary file, syncs it, renames it over the target  *)
(* and syncs the directory: the file changes at once or not at all.  When  *)
(* it raises, the rename may or may not have happened.                     *)
(***************************************************************************)
Written(j, state) == disk' = [disk EXCEPT ![j] = [state EXCEPT !.cancel_requested = FALSE]]

PersistOk(j, state) ==
    /\ Written(j, state)
    /\ UNCHANGED faults

PersistFails(j, state) ==
    /\ faults < MaxFaults
    /\ faults' = faults + 1
    /\ Written(j, state) \/ UNCHANGED disk

Goto(j, label) == pc' = [pc EXCEPT ![j] = label]

(* start: the job is registered, written and given a worker thread; if the *)
(* write fails it is forgotten (the file may remain).                      *)
start(j) ==
    LET queued == [Absent EXCEPT !.status = "queued"]
    IN /\ up = "up" /\ pc[j] = "none"
       /\ \/ /\ PersistOk(j, queued)
             /\ job' = [job EXCEPT ![j] = queued]
             /\ Goto(j, "start")
          \/ /\ PersistFails(j, queued)
             /\ Goto(j, "lost")
             /\ UNCHANGED job
       /\ UNCHANGED <<outcome, reader, gate, procs, executed, up, unread, restarts>>

cancel(j) ==
    /\ up = "up" /\ job[j].status \in {"queued", "running"}
    /\ job' = [job EXCEPT ![j].cancel_requested = TRUE]
    /\ UNCHANGED <<disk, pc, outcome, reader, gate, procs, executed, up, unread,
                   restarts, faults>>

-----------------------------------------------------------------------------
(* _finish: first terminal status wins.  The memory changes before the     *)
(* write, and a write that raises ends the worker thread.                  *)
Finish(j, status) ==
    LET final == [job[j] EXCEPT !.status = status]
    IN /\ IF job[j].status \in TERMINAL_STATUSES
          THEN UNCHANGED <<job, disk, faults>>
          ELSE /\ job' = [job EXCEPT ![j] = final]
               /\ PersistOk(j, final) \/ PersistFails(j, final)
       /\ Goto(j, "done")

(* _run, first section: a cancellation that arrived while queued.          *)
BeginRun(j) ==
    /\ up = "up" /\ pc[j] = "start"
    /\ \/ /\ job[j].cancel_requested
          /\ Finish(j, "cancelled")
       \/ /\ ~job[j].cancel_requested
          /\ Goto(j, "prepare")
          /\ UNCHANGED <<job, disk, faults>>
    /\ UNCHANGED <<outcome, reader, gate, procs, executed, up, unread, restarts>>

(* launch_phase = "prepared" and the recovery token, written before spawn. *)
Prepare(j) ==
    /\ up = "up" /\ pc[j] = "prepare"
    /\ \/ PersistOk(j, job[j]) /\ Goto(j, "spawn")
       \/ PersistFails(j, job[j]) /\ Goto(j, "unprepared")
    /\ UNCHANGED <<job, outcome, reader, gate, procs, executed, up, unread, restarts>>

PrepareFailedSilently(j) ==   \* mutant: return without marking the job failed
    /\ up = "up" /\ pc[j] = "unprepared"
    /\ Goto(j, "done")
    /\ UNCHANGED <<job, disk, faults>>
    /\ UNCHANGED <<outcome, reader, gate, procs, executed, up, unread, restarts>>

PrepareFailed(j) ==
    /\ up = "up" /\ pc[j] = "unprepared"
    /\ Finish(j, "failed")
    /\ UNCHANGED <<outcome, reader, gate, procs, executed, up, unread, restarts>>

(* _spawn_process: the launcher runs, blocked on its gate; or nothing does *)
(* (an exception after Popen kills and reaps it before it is raised).      *)
Spawn(j) ==
    /\ up = "up" /\ pc[j] = "spawn"
    /\ \/ /\ procs' = [procs EXCEPT ![j] = {"leader"}]
          /\ gate' = [gate EXCEPT ![j] = "open"]
          /\ Goto(j, "capture")
          /\ UNCHANGED <<job, disk, faults>>
       \/ /\ Finish(j, "failed")
          /\ UNCHANGED <<procs, gate>>
    /\ UNCHANGED <<outcome, reader, executed, up, unread, restarts>>

(* _capture_process_identity fails when the launcher has already gone.     *)
Capture(j) ==
    /\ up = "up" /\ pc[j] = "capture"
    /\ \/ /\ Goto(j, "ready")
          /\ UNCHANGED <<gate, outcome>>
       \/ /\ gate' = [gate EXCEPT ![j] = "closed"]
          /\ outcome' = [outcome EXCEPT ![j] = "failed"]
          /\ Goto(j, "terminate")
    /\ UNCHANGED <<job, disk, reader, procs, executed, up, unread, restarts, faults>>

(* Mutant: the write is attempted and its failure ignored.                 *)
ReadyBestEffort(j) ==
    LET running == [job[j] EXCEPT !.status = "running", !.identity = TRUE]
    IN /\ up = "up" /\ pc[j] = "ready"
       /\ job' = [job EXCEPT ![j] = running]
       /\ PersistOk(j, running) \/ PersistFails(j, running)
       /\ Goto(j, "gate")
       /\ UNCHANGED <<gate, outcome, reader, procs, executed, up, unread, restarts>>

(* The identity and the running status go to disk before the gate opens.   *)
Ready(j) ==
    LET running == [job[j] EXCEPT !.status = "running", !.identity = TRUE]
    IN /\ up = "up" /\ pc[j] = "ready"
       /\ job' = [job EXCEPT ![j] = running]
       /\ \/ /\ PersistOk(j, running)
             /\ Goto(j, "gate")
             /\ UNCHANGED <<gate, outcome>>
          \/ /\ PersistFails(j, running)
             /\ gate' = [gate EXCEPT ![j] = "closed"]
             /\ outcome' = [outcome EXCEPT ![j] = "failed"]
             /\ Goto(j, "terminate")
       /\ UNCHANGED <<reader, procs, executed, up, unread, restarts>>

(* Under the lock: give up on a cancelled job, or write GO.  The write     *)
(* fails when no launcher is left to read it.                              *)
Gate(j) ==
    /\ up = "up" /\ pc[j] = "gate"
    /\ \/ /\ job[j].cancel_requested
          /\ gate' = [gate EXCEPT ![j] = "closed"]
          /\ outcome' = [outcome EXCEPT ![j] = "cancelled"]
          /\ Goto(j, "terminate")
          /\ UNCHANGED reader
       \/ /\ ~job[j].cancel_requested /\ "leader" \in procs[j]
          /\ gate' = [gate EXCEPT ![j] = "go"]
          /\ reader' = [reader EXCEPT ![j] = "reading"]
          /\ Goto(j, "poll")
          /\ UNCHANGED outcome
       \/ /\ ~job[j].cancel_requested /\ "leader" \notin procs[j]
          /\ gate' = [gate EXCEPT ![j] = "closed"]
          /\ outcome' = [outcome EXCEPT ![j] = "failed"]
          /\ Goto(j, "terminate")
          /\ UNCHANGED reader
    /\ UNCHANGED <<job, disk, procs, executed, up, unread, restarts, faults>>

(* The wait loop: everything has ended, a cancellation, or the deadline.   *)
Poll(j) ==
    /\ up = "up" /\ pc[j] = "poll"
    /\ \/ /\ procs[j] \cap Group = {} /\ reader[j] # "reading"
          /\ \E status \in {"succeeded", "failed"} :
                outcome' = [outcome EXCEPT ![j] = status]
          /\ Goto(j, "finish")
       \/ /\ job[j].cancel_requested
          /\ outcome' = [outcome EXCEPT ![j] = "cancelled"]
          /\ Goto(j, "terminate")
       \/ /\ outcome' = [outcome EXCEPT ![j] = "timed_out"]
          /\ Goto(j, "terminate")
    /\ UNCHANGED <<job, disk, reader, gate, procs, executed, up, unread, restarts, faults>>

(* _terminate, _kill and wait: SIGTERM, then SIGKILL, to the group.        *)
Terminate(j) ==
    /\ up = "up" /\ pc[j] = "terminate"
    /\ procs' = [procs EXCEPT ![j] = @ \ Group]
    /\ Goto(j, "finish")
    /\ UNCHANGED <<job, disk, outcome, reader, gate, executed, up, unread, restarts, faults>>

(* A reader that raised turns success into failure.                        *)
FinishRun(j) ==
    /\ up = "up" /\ pc[j] = "finish"
    /\ Finish(j, IF outcome[j] = "succeeded" /\ reader[j] = "error" THEN "failed"
                                                                    ELSE outcome[j])
    /\ UNCHANGED <<outcome, reader, gate, procs, executed, up, unread, restarts>>

-----------------------------------------------------------------------------
(* Mutant: a chunk is written with the status the job had when it started. *)
AppendStale(j) ==
    /\ up = "up" /\ reader[j] = "reading" /\ executed[j]
    /\ PersistOk(j, [job[j] EXCEPT !.status = "running"])
    /\ UNCHANGED <<job, reader, pc, outcome, gate, procs, executed, up, unread, restarts>>

(* _append_output writes the whole metadata with every chunk; a failing    *)
(* write ends the reader.  JSON escapes control characters as six bytes,   *)
(* so the file of a window full of them is larger than _load_jobs reads.   *)
ReaderAppends(j) ==
    /\ up = "up" /\ reader[j] = "reading" /\ executed[j]
    /\ \E large \in BOOLEAN :
          LET state == [job[j] EXCEPT !.large = large]
          IN /\ job' = [job EXCEPT ![j] = state]
             /\ \/ PersistOk(j, state) /\ UNCHANGED reader
                \/ PersistFails(j, state) /\ reader' = [reader EXCEPT ![j] = "error"]
    /\ UNCHANGED <<pc, outcome, gate, procs, executed, up, unread, restarts>>

(* End of file, or the worker closed the pipe under the reader.            *)
ReaderEnds(j) ==
    /\ up = "up" /\ reader[j] = "reading"
    /\ reader' = [reader EXCEPT ![j] = "ended"]
    /\ UNCHANGED <<job, disk, pc, outcome, gate, procs, executed, up, unread,
                   restarts, faults>>

-----------------------------------------------------------------------------
(* launcher.py: GO turns the launcher into the command; a closed gate ends *)
(* it.                                                                     *)
Launch(j) ==
    /\ gate[j] = "go" /\ "leader" \in procs[j] /\ ~executed[j]
    /\ executed' = [executed EXCEPT ![j] = TRUE]
    /\ UNCHANGED <<job, disk, pc, outcome, reader, gate, procs, up, unread,
                   restarts, faults>>

GiveUp(j) ==
    /\ gate[j] = "closed" /\ "leader" \in procs[j] /\ ~executed[j]
    /\ procs' = [procs EXCEPT ![j] = @ \ {"leader"}]
    /\ UNCHANGED <<job, disk, pc, outcome, reader, gate, executed, up, unread,
                   restarts, faults>>

(* What a command may do: fork, and end.                                   *)
Fork(j, m) ==
    /\ executed[j] /\ "leader" \in procs[j] /\ m \notin procs[j]
    /\ procs' = [procs EXCEPT ![j] = @ \cup {m}]
    /\ UNCHANGED <<job, disk, pc, outcome, reader, gate, executed, up, unread,
                   restarts, faults>>

Exit(j, m) ==
    /\ m \in procs[j]
    /\ procs' = [procs EXCEPT ![j] = @ \ {m}]
    /\ UNCHANGED <<job, disk, pc, outcome, reader, gate, executed, up, unread,
                   restarts, faults>>

-----------------------------------------------------------------------------
(* The agent dies: memory and threads are gone, its pipe ends are closed,  *)
(* the processes it started live on.                                       *)
GateSurvives(j) == gate[j]     \* mutant: another process inherited the gate pipe

GateAfterCrash(j) == IF gate[j] = "open" THEN "closed" ELSE gate[j]

Lost(j) == IF pc[j] = "none" THEN "none" ELSE "lost"

Crash ==
    /\ up \in {"up", "loading"} /\ restarts < MaxRestarts
    /\ restarts' = restarts + 1
    /\ up' = "down"
    /\ job' = [j \in Jobs |-> Absent]
    /\ pc' = [j \in Jobs |-> Lost(j)]
    /\ reader' = [j \in Jobs |-> "none"]
    /\ gate' = [j \in Jobs |-> GateAfterCrash(j)]
    /\ unread' = {}
    /\ UNCHANGED <<disk, outcome, procs, executed, faults>>

Restart ==
    /\ up = "down"
    /\ up' = "loading"
    /\ unread' = {j \in Jobs : disk[j].status # "absent"}
    /\ UNCHANGED <<job, disk, pc, outcome, reader, gate, procs, executed, restarts, faults>>

(***************************************************************************)
(* _load_jobs, one file: an oversized file is skipped, a finished job is   *)
(* taken as it is, and an interrupted one is killed through the identity   *)
(* in its file and marked failed.  A failing write there ends the agent.   *)
(*                                                                         *)
(* The kill is one complete step.  The code lists /proc and signals pid by *)
(* pid for the grace period, and lists it once more before SIGKILL: a      *)
(* child forked after that listing would escape, and so would everything   *)
(* without pidfds, after a reboot (then nothing is left) or when /proc     *)
(* cannot be listed.  The unit's KillMode=control-group has killed the     *)
(* processes of a dead agent before that; the model does not count on it.  *)
(***************************************************************************)
KilledLeader(j) ==            \* mutant: only the recorded pid is signalled
    IF disk[j].identity THEN procs[j] \ {"leader"} ELSE procs[j]

Killed(j) == IF disk[j].identity THEN procs[j] \ Recoverable ELSE procs[j]

LoadSkips(j) ==
    /\ up = "loading" /\ j \in unread /\ disk[j].large
    /\ unread' = unread \ {j}
    /\ UNCHANGED <<job, disk, pc, outcome, reader, gate, procs, executed, up,
                   restarts, faults>>

LoadFinished(j) ==
    /\ up = "loading" /\ j \in unread /\ ~disk[j].large
    /\ disk[j].status \in TERMINAL_STATUSES
    /\ job' = [job EXCEPT ![j] = disk[j]]
    /\ unread' = unread \ {j}
    /\ UNCHANGED <<disk, pc, outcome, reader, gate, procs, executed, up, restarts, faults>>

Interrupted(j) == [disk[j] EXCEPT !.status = "failed"]

LoadInterrupted(j) ==
    LET failed == Interrupted(j)
    IN /\ up = "loading" /\ j \in unread /\ ~disk[j].large
       /\ disk[j].status \notin TERMINAL_STATUSES
       /\ procs' = [procs EXCEPT ![j] = Killed(j)]
       /\ \/ /\ PersistOk(j, failed)
             /\ job' = [job EXCEPT ![j] = failed]
             /\ unread' = unread \ {j}
             /\ UNCHANGED up
          \/ /\ PersistFails(j, failed)
             /\ job' = [i \in Jobs |-> Absent]
             /\ unread' = {}
             /\ up' = "down"
       /\ UNCHANGED <<pc, outcome, reader, gate, executed, restarts>>

Serve ==
    /\ up = "loading" /\ unread = {}
    /\ up' = "up"
    /\ UNCHANGED <<job, disk, pc, outcome, reader, gate, procs, executed, unread,
                   restarts, faults>>

-----------------------------------------------------------------------------
WorkerStep(j) ==
    \/ BeginRun(j) \/ Prepare(j) \/ PrepareFailed(j) \/ Spawn(j) \/ Capture(j)
    \/ Ready(j) \/ Gate(j) \/ Poll(j) \/ Terminate(j) \/ FinishRun(j)

LoadStep(j) == LoadSkips(j) \/ LoadFinished(j) \/ LoadInterrupted(j)

Next ==
    \/ \E j \in Jobs :
          \/ start(j) \/ cancel(j)
          \/ WorkerStep(j)
          \/ ReaderAppends(j) \/ ReaderEnds(j)
          \/ Launch(j) \/ GiveUp(j)
          \/ LoadStep(j)
    \/ \E j \in Jobs, m \in Member : Fork(j, m) \/ Exit(j, m)
    \/ Crash
    \/ Restart
    \/ Serve

Spec == Init /\ [][Next]_vars

(***************************************************************************)
(* Threads are scheduled, and the kernel delivers end of file on a closed  *)
(* gate.  A dead agent comes back: its unit has no Restart=, but systemd   *)
(* keeps the socket and starts the service for the next client, and the    *)
(* executor keeps polling a job that has not ended.  Commands owe nothing: *)
(* neither Exit nor ReaderEnds is fair.                                    *)
(***************************************************************************)
Fairness ==
    /\ \A j \in Jobs : WF_vars(WorkerStep(j)) /\ WF_vars(GiveUp(j)) /\ WF_vars(LoadStep(j))
    /\ WF_vars(Restart)
    /\ WF_vars(Serve)

FairSpec == Spec /\ Fairness
-----------------------------------------------------------------------------
(* Every state, file and thread keeps a value of its type; in particular   *)
(* recovery writes only statuses that a later load accepts.                *)
TypeOK ==
    /\ job \in [Jobs -> State]
    /\ disk \in [Jobs -> State]
    /\ pc \in [Jobs -> WorkerPc]
    /\ outcome \in [Jobs -> TERMINAL_STATUSES]
    /\ reader \in [Jobs -> {"none", "reading", "ended", "error"}]
    /\ gate \in [Jobs -> {"none", "open", "go", "closed"}]
    /\ procs \in [Jobs -> SUBSET Member]
    /\ executed \in [Jobs -> BOOLEAN]
    /\ up \in {"up", "loading", "down"}
    /\ unread \subseteq Jobs
    /\ restarts \in 0..MaxRestarts
    /\ faults \in 0..MaxFaults

(***************************************************************************)
(* No command runs that a restart could not find again: once the launcher  *)
(* has become the command, the job's file on disk holds its process        *)
(* identity, through every later write, failing write, crash and reload.   *)
(***************************************************************************)
IdentityBeforeCommand == \A j \in Jobs : executed[j] => disk[j].identity

(***************************************************************************)
(* While the agent serves, a live process of a command belongs to a        *)
(* running job whose worker still watches it: no cancellation, timeout,    *)
(* failed write or restart leaves a terminal or forgotten job with a       *)
(* command at work.  After a restart the promise excludes processes that   *)
(* dropped the recovery token from their environment, and jobs whose file  *)
(* outgrew what _load_jobs reads.                                          *)
(***************************************************************************)
Watched(j) ==
    \/ job[j].status = "running" /\ pc[j] \in {"poll", "terminate"}
    \/ pc[j] = "lost" /\ disk[j].large
    \/ procs[j] \cap (IF pc[j] = "lost" THEN Recoverable ELSE Group) = {}

NoUnwatchedCommand == up = "up" => \A j \in Jobs : executed[j] => Watched(j)

(***************************************************************************)
(* What the worker's position says of one job: the gate stays shut until   *)
(* the identity is on disk, and memory then keeps it; a job that has not   *)
(* finished is not finished on disk either, and one that has differs from  *)
(* its file at most by a write that failed; the group is gone before the   *)
(* status says so; and recovery is done with a job it has read.            *)
(***************************************************************************)
Busy == WorkerPc \ {"none", "done", "lost"}

JobInv(j) ==
    /\ pc[j] = "none" => disk[j] = Absent /\ gate[j] = "none"
    /\ pc[j] \in {"start", "prepare", "unprepared", "spawn"} => gate[j] = "none"
    /\ pc[j] \in {"capture", "ready", "gate"} => gate[j] = "open"
    /\ pc[j] = "gate" => disk[j].identity /\ job[j].identity /\ job[j].status = "running"
    /\ pc[j] \in Busy => {job[j].status, disk[j].status} \subseteq {"queued", "running"}
    /\ pc[j] = "done" =>
          /\ job[j].status \in TERMINAL_STATUSES
          /\ disk[j].status \in {"queued", "running", job[j].status}
    /\ gate[j] = "none" => procs[j] = {}
    /\ executed[j] => gate[j] = "go"
    /\ gate[j] = "go" =>
          /\ disk[j].identity /\ disk[j].status # "absent"
          /\ pc[j] # "lost" => job[j].identity
          /\ pc[j] \in Busy => job[j].status = "running"
          /\ disk[j].status \in TERMINAL_STATUSES => procs[j] \cap Recoverable = {}
          /\ pc[j] = "lost" /\ (up = "up" \/ (up = "loading" /\ j \notin unread)) =>
                disk[j].large \/ procs[j] \cap Recoverable = {}
    /\ pc[j] \in {"finish", "done"} => procs[j] \cap Group = {}
    /\ reader[j] = "reading" =>
          gate[j] = "go" /\ pc[j] \in {"poll", "terminate", "finish", "done"}
    /\ up # "up" => pc[j] \in {"none", "lost"} /\ reader[j] = "none"

(* What _load_jobs has left to read: nothing once the agent serves, and    *)
(* only files that exist.                                                  *)
UnreadInv ==
    /\ up = "up" => unread = {}
    /\ \A j \in unread : disk[j].status # "absent"

(* The inductive invariant.                                                *)
IInv == TypeOK /\ (\A j \in Jobs : JobInv(j)) /\ UnreadInv

(***************************************************************************)
(* A terminal status on disk is final, whatever reader, worker, recovery   *)
(* and failed writes do afterwards.                                        *)
(***************************************************************************)
TerminalOnDiskIsFinal ==
    [][\A j \in Jobs : disk[j].status \in TERMINAL_STATUSES =>
          disk[j].status' = disk[j].status]_vars

(***************************************************************************)
(* Every accepted job is eventually terminal in the registry: cancelled,   *)
(* timed out, finished, or failed by a restart (unless its file outgrew    *)
(* what _load_jobs reads).                                                 *)
(***************************************************************************)
JobEnds ==
    \A j \in Jobs : job[j].status \in {"queued", "running"}
                     ~> job[j].status \in TERMINAL_STATUSES \/ disk[j].large

(***************************************************************************)
(* A launcher never waits forever behind a gate nobody will open: if its   *)
(* command never starts, the process ends.                                 *)
(***************************************************************************)
LauncherLeaves ==
    \A j \in Jobs : "leader" \in procs[j] /\ ~executed[j]
                     ~> "leader" \notin procs[j] \/ executed[j]
=============================================================================
