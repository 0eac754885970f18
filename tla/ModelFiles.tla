----------------------------- MODULE ModelFiles -----------------------------
(***************************************************************************)
(* The files of a model and its inventory record: the download handler     *)
(* (backend/app/tasks/huggingface.py) in the download lane, the delete     *)
(* handler (services/model_lifecycle.py) in the control lane, the model    *)
(* scan of services/discovery.py in a request thread and at startup, all   *)
(* on one model: a Hugging Face repository with one commit, or a directory *)
(* somebody put under a model root (then there is no download, and snap    *)
(* stands for its files).                                                  *)
(*                                                                         *)
(* A file is fetched by aria2 into a staging directory: "part" of it,      *)
(* "sparse" (its full size, with holes, and aria2's control file beside    *)
(* it), "full", or "over" its size.  The repository directory has          *)
(* snapshots/<hash> (snap), snapshots/.<hash>.incomplete (tmp) and         *)
(* refs/main (main).  aria2 and `hf cache rm` are external; they die with  *)
(* the manager.                                                            *)
(***************************************************************************)
EXTENDS Integers, FiniteSets, TaskStates

CONSTANTS
    Files,       \* the selected files
    Payload,     \* the one with the weights
    Dels,        \* tasks model.delete, in the order of their creation: 1 .. n
    NoDir, NoRow,
    MaxAttempts, \* range(32)
    MaxIds,      \* bound: records ever inserted
    MaxCalls,    \* bound: requests
    MaxCrashes,  \* bound: crashes of the manager
    MaxFaults    \* bound: failing commands and network calls

(* A record of the inventory: its status, and in metadata_json the task    *)
(* that deletes it and what it was before; the directory is its path.      *)
Row == [id : Nat, status : {"available", "unavailable", "deleting", "delete_failed"},
        owner : Dels \cup {0}, orig : {"none", "available", "unavailable"},
        path : {"dir", "snap", "tmp", "none"}]

ASSUME ModelFilesAssumption ==
    /\ Payload \in Files /\ IsFiniteSet(Files)
    /\ IsFiniteSet(Dels) /\ Dels = 1 .. Cardinality(Dels)
    /\ NoRow \notin Row
    /\ NoDir \notin [Files -> {"none", "part", "sparse", "full"}]
    /\ MaxAttempts \in Nat \ {0}
    /\ {MaxIds, MaxCalls, MaxCrashes, MaxFaults} \subseteq Nat

VARIABLES
    src,                   \* "huggingface" or "local"
    stage, proc,           \* staged files; files an aria2 process works on
    dir, snap, tmp, main,  \* the repository directory
    row, ids,              \* the inventory record; 1 .. ids have been inserted
    ref,                   \* which deployments refer to the model, see References
    task,                  \* task 0 is the download
    dl, x,                 \* the download and the delete handler
    scan,                  \* the scan: the record it read and the one it will write
    up, calls, crashes, faults

cache == <<dir, snap, tmp, main>>
disk == <<stage, proc, dir, snap, tmp, main>>
db == <<row, ids, ref>>
budget == <<calls, crashes, faults>>
vars == <<src, disk, db, task, dl, x, scan, up, budget>>

Empty == [f \in Files |-> "none"]
NoDl == [pc |-> "idle", ex |-> Empty, th |-> Empty, rc |-> Empty, att |-> [f \in Files |-> 0],
         left |-> {}, stop |-> FALSE, res |-> "failed"]
NoX == [pc |-> "idle", t |-> 0, re |-> FALSE, miss |-> FALSE, orphan |-> FALSE, late |-> FALSE]
NoScan == [on |-> FALSE, was |-> NoRow, now |-> NoRow]

Fault == faults < MaxFaults /\ faults' = faults + 1
Ctl(t) == task[t].ctl
Ended(t, st) == [task EXCEPT ![t].st = st, ![t].ctl = "none"]

(***************************************************************************)
(* resolve_hf_snapshot: the snapshot refs/main names, or the newest        *)
(* directory under snapshots/, whatever its name.                          *)
(***************************************************************************)
Dirs == {d \in {"snap", "tmp"} : (IF d = "snap" THEN snap ELSE tmp) # NoDir}
resolve_hf_snapshot ==
    IF main /\ snap # NoDir THEN {"snap"} ELSE IF Dirs = {} THEN {"none"} ELSE Dirs
In(d) == CASE d = "snap" -> snap [] d = "tmp" -> tmp [] OTHER -> Empty

hf_snapshot_is_complete(d) == In(d)[Payload] # "none"

(***************************************************************************)
(* download_handler                                                        *)
(***************************************************************************)
At(pc) == up /\ dl.pc = pc
Goto(pc) == dl' = [dl EXCEPT !.pc = pc]
DlEnd(st) == dl' = NoDl /\ task' = Ended(0, st)
Dl(step) == step /\ UNCHANGED <<src, db, x, scan, up, calls, crashes>>

AtSize == {"sparse", "full"}

(* Which files an earlier snapshot has, at their size.  The Hub, the disk  *)
(* or aria2c may be missing.                                               *)
DownloadBegin == Dl(
    /\ At("d_begin") /\ UNCHANGED disk
    /\ \/ /\ UNCHANGED <<task, faults>>
          /\ \E d \in resolve_hf_snapshot :
               LET ex == [f \in Files |-> IF In(d)[f] \in AtSize THEN d ELSE "none"] IN
               dl' = [dl EXCEPT !.pc = "d_fetch", !.ex = ex, !.left = Files,
                  !.th = [f \in Files |-> IF ex[f] = "none" THEN "new" ELSE "done"]]
       \/ Fault /\ DlEnd("failed"))

\* mutant: a file of the right size is taken, whatever its control file says
SizeOnly(f) == stage[f] \in AtSize
already_fetched(f) == stage[f] = "full"

Thread(f, s) == dl' = [dl EXCEPT !.th[f] = s]
Launch(f) == /\ proc' = proc \cup {f}
             /\ dl' = [dl EXCEPT !.th[f] = "run", !.att[f] = @ + 1]
Raises(f) == /\ Ctl(0) # "none" /\ proc' = proc \ {f}
             /\ Thread(f, IF Ctl(0) = "cancel" THEN "cancelled" ELSE "paused")

(* download_file before its first aria2; a file over its size is removed.  *)
FileStart(f) == Dl(
    /\ At("d_fetch") /\ dl.th[f] = "new" /\ UNCHANGED <<cache, task, faults>>
    /\ \/ dl.stop /\ Thread(f, "done") /\ UNCHANGED <<stage, proc>>
       \/ ~ dl.stop /\ Raises(f) /\ UNCHANGED stage
       \/ /\ ~ dl.stop /\ Ctl(0) = "none" /\ already_fetched(f)
          /\ Thread(f, "done") /\ UNCHANGED <<stage, proc>>
       \/ /\ ~ dl.stop /\ Ctl(0) = "none" /\ ~ already_fetched(f) /\ Launch(f)
          /\ stage' = [stage EXCEPT ![f] = IF @ = "over" THEN "none" ELSE @])

(* The next attempt, or the error of the last one.                         *)
Again(f) ==
    IF dl.att[f] < MaxAttempts THEN Launch(f)
    ELSE Thread(f, "failed") /\ proc' = proc \ {f}

\* mutant: the loop is left without the finally clause
FilePollLeaks(f) == Dl(
    /\ At("d_fetch") /\ dl.th[f] = "run" /\ UNCHANGED <<stage, cache, task, faults>>
    /\ \/ f \in proc /\ Raises(f)
       \/ f \in proc /\ dl.stop /\ Thread(f, "done") /\ UNCHANGED proc
       \/ f \in proc /\ ~ dl.stop /\ Again(f)
       \/ /\ f \notin proc /\ dl.rc[f] = "ok" /\ UNCHANGED proc
          /\ Thread(f, IF stage[f] \in AtSize THEN "done" ELSE "failed")
       \/ f \notin proc /\ dl.rc[f] = "retry" /\ Again(f)
       \/ f \notin proc /\ dl.rc[f] = "fatal" /\ Thread(f, "failed") /\ UNCHANGED proc)
(* The loop around a process: a control or the end of another thread stops *)
(* it, a slow transfer starts it again, its exit code decides; a file that *)
(* was fetched must have its size.                                         *)
FilePoll(f) == Dl(
    /\ At("d_fetch") /\ dl.th[f] = "run" /\ UNCHANGED <<stage, cache, task, faults>>
    /\ \/ f \in proc /\ Raises(f)
       \/ f \in proc /\ dl.stop /\ Thread(f, "done") /\ proc' = proc \ {f}
       \/ f \in proc /\ ~ dl.stop /\ Again(f)                          \* slow
       \/ /\ f \notin proc /\ dl.rc[f] = "ok" /\ UNCHANGED proc
          /\ Thread(f, IF stage[f] \in AtSize THEN "done" ELSE "failed")
       \/ /\ f \notin proc /\ dl.rc[f] = "retry"
          /\ IF dl.att[f] < MaxAttempts /\ Ctl(0) # "none" THEN Raises(f)
             ELSE IF dl.att[f] < MaxAttempts /\ dl.stop THEN Thread(f, "done") /\ UNCHANGED proc
             ELSE Again(f)
       \/ f \notin proc /\ dl.rc[f] = "fatal" /\ Thread(f, "failed") /\ UNCHANGED proc)

(* aria2: ranges arrive in any order; the last one ends it.  It may end at *)
(* another size, when the file on the Hub is not the one that was listed.  *)
Aria2(f) == Dl(
    /\ up /\ f \in proc /\ UNCHANGED <<cache, task>>
    /\ \/ /\ stage' = [stage EXCEPT ![f] = CASE @ = "none" -> "part" [] @ = "part" -> "sparse"
                                             [] OTHER -> "full"]
          /\ proc' = IF stage'[f] = "full" THEN proc \ {f} ELSE proc
          /\ dl' = IF stage'[f] = "full" THEN [dl EXCEPT !.rc[f] = "ok"] ELSE dl
          /\ UNCHANGED faults
       \/ /\ Fault /\ proc' = proc \ {f} /\ dl' = [dl EXCEPT !.rc[f] = "ok"]
          /\ \E s \in {"part", "over"} : stage' = [stage EXCEPT ![f] = s]
       \/ /\ Fault /\ proc' = proc \ {f} /\ UNCHANGED stage
          /\ \E rc \in {"retry", "fatal"} : dl' = [dl EXCEPT !.rc[f] = rc])

(* The main thread meets a future that failed; the rest is told to stop.   *)
Errors == {"paused", "cancelled", "failed"}
Observe == Dl(
    /\ At("d_fetch") /\ ~ dl.stop /\ UNCHANGED <<disk, task, faults>>
    /\ \E f \in Files : /\ dl.th[f] \in Errors
                        /\ dl' = [dl EXCEPT !.stop = TRUE, !.res = dl.th[f]])
(* The pool's exit waits for every thread.                                 *)
Join == Dl(
    /\ At("d_fetch") /\ UNCHANGED <<disk, faults>>
    /\ \A f \in Files : dl.th[f] \in Errors \cup {"done"}
    /\ \/ dl.stop /\ DlEnd(dl.res)
       \/ (\A f \in Files : dl.th[f] = "done") /\ ~ dl.stop /\ Goto("d_clear") /\ UNCHANGED task)

(* A leftover of an interrupted attempt goes, and a new directory is made. *)
Clear == Dl(
    /\ At("d_clear") /\ Goto("d_link") /\ dir' = TRUE /\ tmp' = Empty
    /\ UNCHANGED <<stage, proc, snap, main, task, faults>>)

Source(f) == IF dl.ex[f] = "none" THEN stage[f] ELSE IF In(dl.ex[f]) = NoDir THEN "none" ELSE In(dl.ex[f])[f]
Placed(f, s) == [(IF tmp = NoDir THEN Empty ELSE tmp) EXCEPT ![f] = s]
(* os.link, or a copy, which is cut off in the middle by a crash;          *)
(* mkdir(parents=True) makes the directory again.                          *)
LinkFile(f) == Dl(
    /\ At("d_link") /\ f \in dl.left /\ UNCHANGED <<stage, proc, snap, main, task, faults>>
    /\ \/ Source(f) = "none" /\ Goto("d_undo") /\ UNCHANGED <<dir, tmp>>
       \/ Source(f) # "none" /\ dir' = TRUE /\ tmp' = Placed(f, "part") /\ UNCHANGED dl
       \/ /\ Source(f) # "none" /\ dir' = TRUE /\ tmp' = Placed(f, Source(f))
          /\ dl' = [dl EXCEPT !.left = @ \ {f}])

Holds(d) == \A f \in Files : In(d)[f] \in AtSize
(* verify_snapshot_files: every file is there, at its size.                *)
Verify == Dl(
    /\ At("d_link") /\ dl.left = {} /\ UNCHANGED <<disk, task, faults>>
    /\ Goto(IF tmp # NoDir /\ Holds("tmp") THEN "d_old" ELSE "d_undo"))
(* The snapshot of an earlier download is removed, file by file.           *)
RemoveOld == Dl(
    /\ At("d_old") /\ UNCHANGED <<stage, proc, dir, tmp, main, task, faults>>
    /\ \/ snap # NoDir /\ Holds("snap") /\ snap' = [snap EXCEPT ![Payload] = "none"] /\ UNCHANGED dl
       \/ snap' = NoDir /\ Goto("d_replace"))
Replace == Dl(
    /\ At("d_replace") /\ UNCHANGED <<stage, proc, dir, main, task, faults>>
    /\ IF tmp = NoDir THEN Goto("d_undo") /\ UNCHANGED <<snap, tmp>>
       ELSE snap' = tmp /\ tmp' = NoDir /\ Goto("d_ref"))
Undo == Dl(
    /\ At("d_undo") /\ DlEnd("failed") /\ tmp' = NoDir
    /\ UNCHANGED <<stage, proc, dir, snap, main, faults>>)
(* refs/main, or the ref of another revision.                              *)
Reference == Dl(
    /\ At("d_ref") /\ dir' = TRUE /\ main' \in {TRUE, main} /\ Goto("d_end")
    /\ UNCHANGED <<stage, proc, snap, tmp, task, faults>>)
DownloadEnd == Dl(
    /\ At("d_end") /\ stage' = Empty /\ UNCHANGED <<proc, cache, faults>>
    /\ \E d \in resolve_hf_snapshot : DlEnd(IF d # "none" /\ Holds(d) THEN "succeeded" ELSE "failed"))

(***************************************************************************)
(* scan_models: what a record becomes when the directory is as it is now.  *)
(***************************************************************************)
Lifecycle(r) == r # NoRow /\ r.status \in {"deleting", "delete_failed"}
Plain(id) == [id |-> id, status |-> "available", owner |-> 0, orig |-> "none", path |-> "dir"]
Unavailable(r, p) ==
    IF Lifecycle(r) THEN [r EXCEPT !.path = p]
    ELSE [r EXCEPT !.status = "unavailable", !.owner = 0, !.orig = "none", !.path = p]
Scanned(r, d) ==
    IF ~ dir THEN IF r # NoRow /\ r.status = "available" THEN Unavailable(r, r.path) ELSE r
    ELSE LET old == IF r = NoRow THEN Plain(ids + 1) ELSE r IN
         IF src = "huggingface" /\ (d = "none" \/ ~ hf_snapshot_is_complete(d)) THEN Unavailable(old, "dir")
         ELSE [old EXCEPT !.path = d, !.status = IF Lifecycle(old) THEN @ ELSE "available"]

(* The commit writes the columns that changed; it fails when the record is *)
(* gone, or when another scan has inserted it.                             *)
Commit(was, now) ==
    IF was = now THEN row
    ELSE IF was = NoRow THEN IF row = NoRow THEN [now EXCEPT !.id = ids + 1] ELSE row
    ELSE IF row = NoRow \/ row.id # was.id THEN row
    ELSE [row EXCEPT !.status = Column(@, was.status, now.status),
                     !.owner = Column(@, was.owner, now.owner),
                     !.orig = Column(@, was.orig, now.orig),
                     !.path = Column(@, was.path, now.path)]
Write(was, now) ==
    /\ row' = Commit(was, now)
    /\ ids' = IF row = NoRow /\ row' # NoRow THEN ids + 1 ELSE ids

ScanRead ==
    /\ up /\ ~ scan.on /\ calls < MaxCalls /\ calls' = calls + 1
    /\ \E d \in resolve_hf_snapshot : scan' = [on |-> TRUE, was |-> row, now |-> Scanned(row, d)]
    /\ UNCHANGED <<src, disk, db, task, dl, x, up, crashes, faults>>
ScanCommit ==
    /\ up /\ scan.on /\ (row = NoRow => ids < MaxIds) /\ scan' = NoScan /\ Write(scan.was, scan.now)
    /\ UNCHANGED <<src, disk, ref, task, dl, x, up, budget>>

(***************************************************************************)
(* delete_handler                                                          *)
(***************************************************************************)
XAt(pc) == up /\ x.pc = pc
XGoto(pc) == x' = [x EXCEPT !.pc = pc]
XEnd(st) == x' = NoX /\ task' = Ended(x.t, st)
Del(step) == step /\ UNCHANGED <<src, stage, proc, dl, scan, up, ref, calls, crashes>>
Mine == row # NoRow /\ row.id = task[x.t].id
Status(s) == IF s \in {"available", "unavailable"} THEN s ELSE "available"

(***************************************************************************)
(* The deployments that refer to the model: those the manager created from *)
(* it, and rows a container scan made of containers that run with its path *)
(* (legacy_path).                                                          *)
(***************************************************************************)
References == {"created", "found"}

\* mutant: the references the request looked at are not looked at again
RequestReferences == FALSE
references == ref # {}

(* The first transaction: the record is marked with the task and with what *)
(* it was.                                                                 *)
DeleteBegin == Del(
    /\ XAt("x_begin") /\ UNCHANGED <<cache, ids, faults>>
    /\ LET re == row.status = "deleting"
           orig == Status(IF row.status \in {"deleting", "delete_failed"} THEN row.orig
                          ELSE row.status) IN
       \/ ~ Mine /\ XEnd("failed") /\ UNCHANGED row
       \/ Mine /\ re /\ row.owner # x.t /\ XEnd("failed") /\ UNCHANGED row
       \/ /\ Mine /\ (re => row.owner = x.t) /\ references /\ XEnd("failed")
          /\ row' = IF re THEN [row EXCEPT !.status = orig, !.owner = 0, !.orig = "none"] ELSE row
       \/ /\ Mine /\ (re => row.owner = x.t) /\ ~ references /\ UNCHANGED task
          /\ row' = [row EXCEPT !.status = "deleting", !.owner = x.t, !.orig = orig]
          /\ x' = [x EXCEPT !.pc = "x_look", !.re = re,
                            !.miss = re \/ row.status = "delete_failed" \/ orig = "unavailable"])

absent == ~ dir
is_orphaned_hf_cache == src = "huggingface" /\ dir /\ \A d \in Dirs : In(d) = Empty

(* hf's dry run must name this repository and no other; a local directory  *)
(* must be inside a model root and reached without a link.  Here: it is    *)
(* there.                                                                  *)
validate_hf_preview == src = "huggingface" /\ dir
validated_local_paths == src = "local" /\ dir

(* A missing directory only needs its record removed; otherwise the target *)
(* is validated, unless it is an orphaned cache.                           *)
DeleteLook == Del(
    /\ XAt("x_look") /\ UNCHANGED <<cache, row, ids, task>>
    /\ \/ x.miss /\ absent /\ XGoto(IF x.re THEN "x_drop" ELSE "x_gone") /\ UNCHANGED faults
       \/ /\ x.miss /\ is_orphaned_hf_cache /\ UNCHANGED faults
          /\ x' = [x EXCEPT !.pc = "x_ask", !.orphan = TRUE]
       \/ /\ ~ (x.miss /\ (absent \/ is_orphaned_hf_cache))
          /\ \/ /\ XGoto(IF validate_hf_preview \/ validated_local_paths THEN "x_ask" ELSE "x_fail")
                /\ UNCHANGED faults
             \/ Fault /\ XGoto("x_fail"))

(* check_control: _restore_delete_state, or on to the removal.             *)
restore_delete_state ==
    IF Mine /\ row.owner = x.t
    THEN [row EXCEPT !.status = Status(row.orig), !.owner = 0, !.orig = "none"] ELSE row
DeleteAsk == Del(
    /\ up /\ x.pc \in {"x_ask", "x_gone"} /\ UNCHANGED <<cache, ids, faults>>
    /\ IF Ctl(x.t) = "none"
       THEN /\ XGoto(IF x.pc = "x_gone" THEN "x_drop"
                     ELSE IF x.orphan \/ src = "local" THEN "x_again" ELSE "x_rm")
            /\ UNCHANGED <<row, task>>
       ELSE row' = restore_delete_state /\ XEnd(IF Ctl(x.t) = "cancel" THEN "cancelled" ELSE "paused"))

(* An orphan must still be one, a local directory is validated again.      *)
DeleteAgain == Del(
    /\ XAt("x_again") /\ UNCHANGED <<cache, row, ids, task, faults>>
    /\ XGoto(IF (IF x.orphan THEN is_orphaned_hf_cache ELSE validated_local_paths)
             THEN "x_rm" ELSE "x_fail"))

(* hf cache rm, or _secure_rmtree: file by file, or not at all; then the   *)
(* directory must be gone.                                                 *)
DeleteRemove == Del(
    /\ XAt("x_rm") /\ UNCHANGED <<row, ids, task>>
    /\ \/ /\ snap # NoDir /\ snap # Empty /\ snap' = [snap EXCEPT ![Payload] = "none"]
          /\ snap' # snap /\ UNCHANGED <<dir, tmp, main, x, faults>>
       \/ /\ dir' = FALSE /\ snap' = NoDir /\ tmp' = NoDir /\ main' = FALSE
          /\ XGoto("x_check") /\ UNCHANGED faults
       \/ Fault /\ XGoto("x_check") /\ UNCHANGED cache)
DeleteCheck == Del(
    /\ XAt("x_check") /\ XGoto(IF absent THEN "x_drop" ELSE "x_fail")
    /\ UNCHANGED <<cache, row, ids, task, faults>>)

(* _remove_database_record, then _scan_inventory.                          *)
DeleteDrop == Del(
    /\ XAt("x_drop") /\ XGoto("x_scan") /\ row' = (IF Mine THEN NoRow ELSE row)
    /\ UNCHANGED <<cache, ids, task, faults>>)
DeleteScan == Del(
    /\ XAt("x_scan") /\ (row = NoRow => ids < MaxIds) /\ XEnd("succeeded")
    /\ \E d \in resolve_hf_snapshot : Write(row, Scanned(row, d))
    /\ UNCHANGED <<cache, faults>>)

\* mutant: an error leaves the record as it is
LeftDeleting == row
mark_delete_failed == IF Mine THEN [row EXCEPT !.status = "delete_failed"] ELSE row
DeleteFail == Del(
    XAt("x_fail") /\ row' = mark_delete_failed /\ XEnd("failed") /\ UNCHANGED <<cache, ids, faults>>)

(***************************************************************************)
(* Requests, the engine's lanes, and the deployments that use the model.   *)
(* The manager's own are created and deleted in the control lane; create   *)
(* reads an available record and commits the deployment in one step here   *)
(* (in between the lane runs nothing else).  scan_containers, in a request *)
(* thread, adds or rewrites the row of a container somebody else started   *)
(* whenever it is called: x.late says that it did so after the check of    *)
(* the running deletion.                                                   *)
(***************************************************************************)
Call == up /\ calls < MaxCalls /\ calls' = calls + 1
Open(t) == task[t].st \in {"queued", "running", "paused"}

create_download ==
    /\ Call /\ src = "huggingface" /\ ~ Open(0) /\ task' = [task EXCEPT ![0].st = "queued"]
    /\ UNCHANGED <<src, disk, db, dl, x, scan, up, crashes, faults>>
delete_model ==
    /\ Call /\ row # NoRow /\ ref = {} /\ row.status # "deleting"
    /\ ~ \E t \in Dels : Open(t) /\ task[t].id = row.id
    /\ \E t \in Dels : /\ task[t].st = "none" /\ \A u \in 1 .. t - 1 : task[u].st # "none"
                       /\ task' = [task EXCEPT ![t].st = "queued", ![t].id = row.id]
    /\ UNCHANGED <<src, disk, db, dl, x, scan, up, crashes, faults>>
Deploy ==
    /\ Call /\ x = NoX /\ row # NoRow /\ row.status = "available"
    /\ "created" \notin ref /\ ref' = ref \cup {"created"}
    /\ UNCHANGED <<src, disk, row, ids, task, dl, x, scan, up, crashes, faults>>
Undeploy ==
    /\ Call /\ x = NoX /\ \E k \in ref : ref' = ref \ {k}
    /\ UNCHANGED <<src, disk, row, ids, task, dl, x, scan, up, crashes, faults>>
scan_containers ==
    /\ Call /\ row # NoRow
    /\ \/ /\ "found" \notin ref /\ ref' = ref \cup {"found"}
          /\ x' = [x EXCEPT !.late = x.pc \notin {"idle", "x_begin"}]
       \/ "found" \in ref /\ ref' = ref \ {"found"} /\ UNCHANGED x
    /\ UNCHANGED <<src, disk, row, ids, task, dl, scan, up, crashes, faults>>

Claim(t) ==
    /\ up /\ task[t].st = "queued" /\ task' = [task EXCEPT ![t].st = "running"]
    /\ \/ t = 0 /\ dl' = [NoDl EXCEPT !.pc = "d_begin"] /\ UNCHANGED x
       \/ /\ t # 0 /\ x = NoX /\ \A u \in 1 .. t - 1 : task[u].st # "queued"
          /\ x' = [NoX EXCEPT !.pc = "x_begin", !.t = t] /\ UNCHANGED dl
    /\ UNCHANGED <<src, disk, db, scan, up, budget>>
Control(t, c) ==
    /\ Call
    /\ \/ task[t].st = "running" /\ task' = [task EXCEPT ![t].ctl = c]
       \/ /\ task[t].st \in (IF c = "cancel" THEN {"queued", "paused"} ELSE {"queued"})
          /\ task' = [task EXCEPT ![t].st = IF c = "cancel" THEN "cancelled" ELSE "paused"]
    /\ UNCHANGED <<src, disk, db, dl, x, scan, up, crashes, faults>>
Resume(t) ==
    /\ Call /\ task[t].st \in {"paused", "failed", "cancelled"} /\ task' = Ended(t, "queued")
    /\ UNCHANGED <<src, disk, db, dl, x, scan, up, crashes, faults>>

Crash ==
    /\ up /\ crashes < MaxCrashes /\ crashes' = crashes + 1
    /\ up' = FALSE /\ dl' = NoDl /\ x' = NoX /\ proc' = {} /\ scan' = NoScan
    /\ UNCHANGED <<src, stage, cache, db, task, calls, faults>>
Restart ==
    /\ ~ up /\ up' = TRUE /\ (row = NoRow => ids < MaxIds)
    /\ \E d \in resolve_hf_snapshot : Write(row, Scanned(row, d))
    /\ task' = [t \in DOMAIN task |-> IF task[t].st = "running"
                  THEN [task[t] EXCEPT !.st = "queued", !.ctl = "none"] ELSE task[t]]
    /\ UNCHANGED <<src, disk, ref, dl, x, scan, budget>>

(* At first the cache is empty, or holds the model, and the scan has been. *)
Init ==
    /\ \E held \in BOOLEAN :
         /\ src \in (IF held THEN {"huggingface", "local"} ELSE {"huggingface"})
         /\ dir = held /\ main = held
         /\ snap = IF held THEN [f \in Files |-> "full"] ELSE NoDir
         /\ row = IF held THEN [Plain(1) EXCEPT !.path = "snap"] ELSE NoRow
         /\ ids = IF held THEN 1 ELSE 0
    /\ tmp = NoDir /\ stage = Empty /\ proc = {} /\ ref = {}
    /\ task = [t \in Dels \cup {0} |-> [st |-> "none", ctl |-> "none", id |-> 0]]
    /\ dl = NoDl /\ x = NoX /\ scan = NoScan /\ up = TRUE
    /\ calls = 0 /\ crashes = 0 /\ faults = 0

Handler ==
    \/ \E f \in Files : FileStart(f) \/ FilePoll(f) \/ Aria2(f) \/ LinkFile(f)
    \/ DownloadBegin \/ Observe \/ Join \/ Clear \/ Verify \/ RemoveOld \/ Replace \/ Undo
    \/ Reference \/ DownloadEnd
Next ==
    \/ Handler
    \/ DeleteBegin \/ DeleteLook \/ DeleteAsk \/ DeleteAgain \/ DeleteRemove \/ DeleteCheck
    \/ DeleteDrop \/ DeleteScan \/ DeleteFail
    \/ ScanRead \/ ScanCommit
    \/ create_download \/ delete_model
    \/ Deploy \/ Undeploy \/ scan_containers
    \/ \E t \in DOMAIN task : Claim(t) \/ Resume(t) \/ \E c \in {"pause", "cancel"} : Control(t, c)
    \/ Crash \/ Restart

Spec == Init /\ [][Next]_vars

-----------------------------------------------------------------------------
(* A file in a snapshot directory is never one aria2 had not finished:     *)
(* whatever was cut off while it had its full size but not all its ranges, *)
(* the next attempt does not take it for fetched.  A copy that was cut off *)
(* stays in the temporary directory and is not published.                  *)
SnapshotsHoldWholeFiles ==
    /\ \A d \in Dirs : \A f \in Files : In(d)[f] # "sparse"
    /\ snap # NoDir => \A f \in Files : snap[f] # "part"

(* Every aria2 process has a thread that watches it, and none outlives the *)
(* handler, however the threads, a control and a failure interleave.       *)
NoStrayDownloader ==
    \A f \in proc : dl.pc = "d_fetch" /\ dl.th[f] = "run"

(* A record whose deletion is marked with a task has a task that will go   *)
(* on with it, or one that was paused or cancelled in the queue and can be *)
(* resumed; a request for another deletion is refused meanwhile.  Only a   *)
(* scan that read the record earlier may take the mark off.                *)
DeletingHasItsTask ==
    row # NoRow /\ row.status = "deleting" /\ row.owner # 0 =>
        /\ row.owner \in Dels /\ task[row.owner].id = row.id
        /\ task[row.owner].st \in {"queued", "running", "paused", "cancelled"}

(* What refers to the model was found after this run's own check.          *)
UnusedAtTheCheck == ref = {} \/ (ref = {"found"} /\ x.late)

(* While a deletion removes files, no deployment the manager created from  *)
(* the model exists, although the request looked for references long       *)
(* before; and one that a container scan recorded exists only if that scan *)
(* committed after this very run of the handler had looked: a reference    *)
(* recorded before a crash stops the run that is started again after it.   *)
NoDeleteInUse ==
    x.pc \in {"x_rm", "x_check", "x_drop"} => UnusedAtTheCheck
-----------------------------------------------------------------------------
(***************************************************************************)
(* The inductive invariant behind the four properties.                     *)
(***************************************************************************)
Snapshot == [Files -> {"none", "full"}] \cup {NoDir}

Temporary == [Files -> {"none", "part", "full"}] \cup {NoDir}

Staging == [Files -> {"none", "part", "sparse", "full", "over"}]

ThreadStates == {"none", "new", "run", "done", "paused", "cancelled", "failed"}

Download ==
    [pc : {"idle", "d_begin", "d_fetch", "d_clear", "d_link", "d_old", "d_replace", "d_undo",
           "d_ref", "d_end"},
     ex : [Files -> {"none", "snap", "tmp"}], th : [Files -> ThreadStates],
     rc : [Files -> {"none", "ok", "retry", "fatal"}], att : [Files -> Nat],
     left : SUBSET Files, stop : BOOLEAN, res : {"paused", "cancelled", "failed"}]

Deletion ==
    [pc : {"idle", "x_begin", "x_look", "x_ask", "x_gone", "x_again", "x_rm", "x_check", "x_drop", "x_scan",
           "x_fail"},
     t : Dels \cup {0}, re : BOOLEAN, miss : BOOLEAN, orphan : BOOLEAN, late : BOOLEAN]

Task == [st : TaskStatus \cup {"none"}, ctl : {"none", "pause", "cancel"}, id : Nat]

(* A snapshot directory holds whole files or none; the temporary one may   *)
(* hold the beginning of a copy.                                           *)
TypeOK ==
    /\ src \in {"huggingface", "local"} /\ dir \in BOOLEAN /\ main \in BOOLEAN
    /\ stage \in Staging /\ proc \subseteq Files
    /\ snap \in Snapshot /\ tmp \in Temporary
    /\ row \in Row \cup {NoRow} /\ ids \in Nat /\ ref \subseteq References
    /\ task \in [Dels \cup {0} -> Task]
    /\ dl \in Download /\ x \in Deletion
    /\ scan \in [on : BOOLEAN, was : Row \cup {NoRow}, now : Row \cup {NoRow}]
    /\ up \in BOOLEAN

(* The download's task runs while its handler does; what it verified and   *)
(* has not published is whole, or was deleted; a file it will link is      *)
(* whole once its thread is done; a process that ended well has left its   *)
(* file without holes.                                                     *)
Fetched(f) ==
    /\ dl.pc = "d_fetch" /\ dl.th[f] = "run" /\ f \notin proc /\ dl.rc[f] = "ok" =>
          stage[f] # "sparse"
    /\ dl.pc = "d_fetch" /\ dl.th[f] = "done" /\ dl.ex[f] = "none" /\ ~ dl.stop =>
          stage[f] = "full"
    /\ dl.pc \in {"d_clear", "d_link"} /\ dl.ex[f] = "none" => stage[f] = "full"

Verified ==
    dl.pc \in {"d_old", "d_replace"} /\ tmp # NoDir => \A f \in Files : tmp[f] = "full"

DownloadInv ==
    /\ dl.pc # "idle" => up /\ task[0].st = "running"
    /\ Verified
    /\ NoStrayDownloader
    /\ \A f \in Files : Fetched(f)

(* The deletion's task runs while its handler does; past its first         *)
(* transaction nothing refers to the model but what a scan found since;    *)
(* the record it dropped does not come back under the same id.             *)
DeletionInv ==
    /\ x.pc # "idle" => up /\ x.t \in Dels /\ task[x.t].st = "running"
    /\ x.pc \notin {"idle", "x_begin"} => UnusedAtTheCheck
    /\ x.pc = "x_scan" => ~ Mine

(* Ids are not given twice, and a scan writes no mark of its own.          *)
Harmless(was, now) ==
    /\ now # NoRow /\ was = NoRow => now.status \in {"available", "unavailable"}
    /\ was # NoRow => /\ now # NoRow
                      /\ now.status # was.status => now.status \in {"available", "unavailable"}
                      /\ now.owner # was.owner => now.owner = 0

RecordInv ==
    /\ \A t \in Dels \cup {0} : task[t].id <= ids
    /\ row # NoRow => row.id <= ids
    /\ scan.on => Harmless(scan.was, scan.now)
    /\ DeletingHasItsTask

IInv == TypeOK /\ DownloadInv /\ DeletionInv /\ RecordInv
=============================================================================
