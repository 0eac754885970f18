---------------------------- MODULE Deployments ----------------------------
(***************************************************************************)
(* Deployments: the rows of the deployments table, the Docker containers   *)
(* behind them, and the three task handlers that change both               *)
(* (backend/app/services/deployments.py), with the API that queues them    *)
(* (api/deployments.py) and the container scan of discovery.py.            *)
(*                                                                         *)
(* The handlers run one after the other in the engine's control lane       *)
(* (module TaskEngine); a scan runs in a request thread, or at startup, in *)
(* between.  A step is a database transaction or a call to Docker; a crash *)
(* may come between any two.  The Docker client is external: a container   *)
(* object keeps the name and the status it had at its last reload.         *)
(*                                                                         *)
(* A specification is a name for everything DeploymentSpec says except the *)
(* port; a stored or labelled one is a record with the port it resolved to *)
(* and stands for its fingerprint.  What preflight finds out about models, *)
(* memory and runtimes is one choice: blocked or not.                      *)
(***************************************************************************)
EXTENDS Integers, FiniteSets, TaskStates

CONSTANTS
    Specs,       \* deployment specifications
    NameOf,      \* name and api_model_name of each
    PortOf,      \* port of each, or AutoPort
    FixOf,       \* the specification with the managed chat template
    AutoPort, NoSpec, NoRow, OldRow, NoBox, NoDep,
    FirstSpec,   \* the specification of the deployment that exists initially
    Deps,        \* deployment ids; bound: rows ever inserted
    Tasks,       \* task ids, in the order of their creation: 1 .. n
    Ports,       \* 8000, 8001, ...; bound: the last one
    MaxBoxes,    \* bound: containers ever created
    MaxCalls,    \* bound: requests (tasks, controls, resumes, scans)
    MaxCrashes,  \* bound: crashes of the manager
    MaxFaults    \* bound: failing Docker calls, containers that exit or are replaced

Boxes == 1 .. MaxBoxes
Transient == {"starting", "stopping", "deleting"}
Action == {"start", "stop", "restart", "delete"}

DName(n) == <<"name", n>>
deterministic_container_name(n) == <<"dgx", n>>
backup_container_name(d) == <<"backup", d>>
Foreign == <<"ext", "foreign">>

(* The columns of a row and what the client says of a container.           *)
Api == {NameOf[s] : s \in Specs} \cup {"foreign"}
ContainerName == {<<>>, Foreign} \cup {deterministic_container_name(n) : n \in Api}
                                \cup {backup_container_name(d) : d \in Deps}
Saved == [s : Specs, port : Ports]
Row == [name : ContainerName \cup {DName(n) : n \in Api}, api : Api, cid : Boxes \cup {0},
        cname : ContainerName, status : Transient \cup {"running", "exited", "unknown"},
        health : {"healthy", "unhealthy", "unknown"}, man : BOOLEAN,
        spec : Saved \cup {NoSpec}, port : Ports, contract : BOOLEAN,
        bench : {"none", "pending", "running", "succeeded", "failed"}]
Box == [name : ContainerName, run : BOOLEAN, man : BOOLEAN, task : Tasks \cup {0},
        spec : Saved \cup {NoSpec}, dep : Deps \cup {NoDep}, repl : Boxes \cup {0},
        port : Ports, api : Api, drift : BOOLEAN]

ASSUME DeploymentsAssumption ==
    /\ PortOf \in [Specs -> Ports \cup {AutoPort}]
    /\ FixOf \in [Specs -> Specs]
    /\ FirstSpec \in Specs /\ Deps # {}
    /\ Tasks \subseteq Nat \ {0} /\ Ports \subseteq Nat \ {0}
    /\ AutoPort \notin Ports /\ NoSpec \notin Saved /\ NoDep \notin Deps
    /\ {NoRow, OldRow} \cap Row = {} /\ NoRow # OldRow /\ NoBox \notin Box
    /\ {MaxCalls, MaxCrashes, MaxFaults} \subseteq Nat /\ MaxBoxes \in Nat \ {0}

VARIABLES
    rows,    \* the deployments table
    box,     \* Docker's containers; 1 .. made have been created
    made,
    tasks,   \* the tasks of the control lane
    h,       \* the handler that is running: its step and its variables
    scan,    \* the container scan: what it read and will write
    up,      \* "up", "down", or "failed": the startup scan raised
    gone,    \* containers an administrator removed (history)
    calls, crashes, faults

vars == <<rows, box, made, tasks, h, scan, up, gone, calls, crashes, faults>>
world == <<rows, box, made, gone>>
budget == <<calls, crashes, faults>>

(* h.name and h.run are what the client's object of the old container says *)
(* of it; h.was is whether it is to run again if the step fails, h.own     *)
(* whether this attempt created the container h.new.                       *)
Idle == [pc |-> "idle", t |-> 0, d |-> NoDep, sp |-> NoSpec, orig |-> NoRow,
         cid |-> 0, name |-> <<>>, run |-> FALSE, was |-> FALSE,
         new |-> 0, own |-> FALSE, res |-> "failed"]
NoTask == [st |-> "none", kind |-> "none", d |-> NoDep, s |-> NoSpec, act |-> "none",
           cid |-> 0, cname |-> <<>>, ctl |-> "none"]
NoScan == [on |-> FALSE, upd |-> {}, ins |-> {}]

Live == {d \in Deps : rows[d] \notin {NoRow, OldRow}}
Fresh == CHOOSE d \in Deps : rows[d] = NoRow
There == {c \in Boxes : box[c] # NoBox}
Named(n) == {c \in There : box[c].name = n}
Resolved(s, p) == [s |-> s, port |-> p]

(***************************************************************************)
(* Ports.  A row keeps its port while it is stopped; a container keeps its *)
(* binding until it is removed.                                            *)
(***************************************************************************)
\* mutant: only the rows whose container Docker still has keep their port
BoundReservedPorts(ex) == {rows[d].port : d \in {x \in Live \ {ex} : rows[x].cid \in There}}
db_reserved_ports(ex) == {rows[d].port : d \in Live \ {ex}}

(* The host ports of every container, running or not.  (A daemon that does *)
(* not answer reserves none; the run that follows then fails.)             *)
docker_reserved_ports(skip) == {box[c].port : c \in There \ {skip}}

deployment_reserved_ports(ex) ==
    db_reserved_ports(ex)
      \cup docker_reserved_ports(IF ex \in Live THEN rows[ex].cid ELSE 0)

(* The lowest free port; 0, which no preflight accepts, beyond the bound.  *)
Lowest(taken) ==
    IF Ports \subseteq taken THEN 0
    ELSE CHOOSE p \in Ports \ taken : \A q \in Ports \ taken : p <= q
allocate_deployment_port(ex) == Lowest(deployment_reserved_ports(ex))

(* The port a specification asks for before Docker is looked at; 0 when    *)
(* another row has it.                                                     *)
prepare_spec_port(s, ex) ==
    IF PortOf[s] = AutoPort THEN Lowest(db_reserved_ports(ex))
    ELSE IF PortOf[s] \in db_reserved_ports(ex) THEN 0 ELSE PortOf[s]

(* The port preflight settles on; 0 when an explicit one is in use.        *)
preflight(s, ex) ==
    LET p == prepare_spec_port(s, ex)
    IN IF p \notin deployment_reserved_ports(ex) THEN p
       ELSE IF PortOf[s] = AutoPort THEN allocate_deployment_port(ex) ELSE 0

deployment_matches_spec(row, sp) ==
    /\ row.spec = sp /\ row.port = sp.port
    /\ row.name = DName(NameOf[sp.s]) /\ row.api = NameOf[sp.s]

(***************************************************************************)
(* Steps of a handler.                                                     *)
(***************************************************************************)
At(pc) == up = "up" /\ h.pc = pc
Goto(pc) == h' = [h EXCEPT !.pc = pc]
Raise(pc) == h' = [h EXCEPT !.pc = pc, !.res = "failed"]
Finish(st) == h' = Idle /\ tasks' = [tasks EXCEPT ![h.t].st = st, ![h.t].ctl = "none"]
Fail == Finish("failed") /\ UNCHANGED <<rows, box, made, gone, faults>>
Only(step) == step /\ UNCHANGED <<scan, up, calls, crashes>>

(* wait_for_health may return that the endpoint answers, which takes a     *)
(* running container with its port, or that time is up; or check_control   *)
(* raises TaskCancelled or TaskPaused.                                     *)
wait_for_health(port) ==
    {"failed"} \cup {r \in {"cancelled"} : tasks[h.t].ctl = "cancel"}
               \cup {r \in {"paused"} : tasks[h.t].ctl = "pause"}
               \cup {r \in {"healthy"} : \E c \in There : box[c].run /\ box[c].port = port}

Stopped(pc, r) == h' = [h EXCEPT !.pc = pc, !.res = r] /\ UNCHANGED tasks

(* The wait of a handler that goes on at then, or undoes its work at else. *)
Wait(port, then, else) ==
    /\ \E r \in wait_for_health(port) :
          IF r = "healthy" THEN Goto(then) /\ UNCHANGED tasks ELSE Stopped(else, r)
    /\ UNCHANGED <<rows, box, made, gone, faults>>

(***************************************************************************)
(* Docker, as the handlers use it.                                         *)
(***************************************************************************)
PortFree(c) == \A x \in There \ {c} : box[x].run => box[x].port # box[c].port
Fault == faults < MaxFaults /\ faults' = faults + 1
NoFault == UNCHANGED faults

Remove(b, c) == [b EXCEPT ![c] = NoBox]
Running(b, c, r) == [b EXCEPT ![c].run = r]

(* What containers.run makes: created and started, or created but not      *)
(* started (then the client raises and the caller has no object), or, when *)
(* the name is taken or Docker refuses, nothing.  The handler goes on at   *)
(* then with the object, or at else.                                       *)
Run(new, then, else) ==
    \/ /\ Named(new.name) = {} /\ made < MaxBoxes
       /\ \A x \in There : box[x].run => box[x].port # new.port
       /\ box' = [box EXCEPT ![made + 1] = new] /\ made' = made + 1
       /\ h' = [h EXCEPT !.pc = then, !.new = made + 1, !.own = TRUE] /\ NoFault
    \/ /\ Named(new.name) = {} /\ made < MaxBoxes
       /\ \E x \in There : box[x].run /\ box[x].port = new.port
       /\ box' = [box EXCEPT ![made + 1] = [new EXCEPT !.run = FALSE]] /\ made' = made + 1
       /\ Raise(else) /\ NoFault
    \/ Named(new.name) # {} /\ UNCHANGED <<box, made>> /\ Raise(else) /\ NoFault
    \/ Fault /\ UNCHANGED <<box, made>> /\ Raise(else)

(* run_container: the labels carry the task, the specification, the       *)
(* deployment and the container it replaces.                               *)
run_container(sp, t, d, repl) ==
    [name |-> deterministic_container_name(NameOf[sp.s]), run |-> TRUE, man |-> TRUE,
     task |-> t, spec |-> sp, dep |-> d, repl |-> repl, port |-> sp.port,
     api |-> NameOf[sp.s], drift |-> FALSE]

validate_container_labels(c, t, sp, d, repl) ==
    /\ box[c].man /\ box[c].task = t /\ box[c].spec = sp
    /\ d # NoDep => box[c].dep = d
    /\ repl # 0 => box[c].repl = repl

(***************************************************************************)
(* deployment.create                                                       *)
(***************************************************************************)
Matches(s) == {d \in Live : rows[d].name = DName(NameOf[s]) \/ rows[d].api = NameOf[s]}

(* _create_handler_locked up to the first Docker call.                     *)
CreateBegin == Only(
    /\ At("create")
    /\ LET s == tasks[h.t].s  m == Matches(s) IN
       \/ \E d \in m :
            LET sp == Resolved(s, IF PortOf[s] = AutoPort THEN rows[d].port ELSE PortOf[s]) IN
            /\ m = {d} /\ deployment_matches_spec(rows[d], sp)
            /\ h' = [h EXCEPT !.pc = "v_start", !.d = d, !.sp = sp, !.cid = rows[d].cid,
                              !.orig = rows[d], !.own = FALSE]
            /\ UNCHANGED <<world, tasks, faults>>
       \/ /\ \A d \in m : m # {d} \/ ~ deployment_matches_spec(rows[d],
                Resolved(s, IF PortOf[s] = AutoPort THEN rows[d].port ELSE PortOf[s]))
          /\ m # {} /\ Fail
       \/ /\ m = {} /\ preflight(s, NoDep) # 0
          /\ h' = [h EXCEPT !.pc = "c_get", !.sp = Resolved(s, preflight(s, NoDep))]
          /\ UNCHANGED <<world, tasks, faults>>
       \/ m = {} /\ Fail)                     \* preflight raises

(* The container of this name is taken over if its labels are this task's; *)
(* otherwise a new one is run.                                             *)
CreateContainer == Only(
    /\ At("c_get") /\ UNCHANGED <<rows, gone, tasks>>
    /\ LET n == deterministic_container_name(NameOf[h.sp.s]) IN
       IF Named(n) = {}
       THEN Run(run_container(h.sp, h.t, NoDep, 0), "c_wait", "c_undo")
       ELSE LET c == CHOOSE x \in Named(n) : TRUE
                ok == /\ validate_container_labels(c, h.t, h.sp, NoDep, 0)
                      /\ box[c].run \/ PortFree(c) IN
            /\ IF ok THEN h' = [h EXCEPT !.pc = "c_wait", !.new = c] ELSE Raise("c_undo")
            /\ box' = IF ok THEN Running(box, c, TRUE) ELSE box
            /\ UNCHANGED <<made, faults>>)

CreateWait == Only(
    /\ At("c_wait")
    /\ Wait(h.sp.port, "c_save", "c_undo"))

(* The unique columns: name, api_model_name, container_id, container_name. *)
Collide(a, b) ==
    a.name = b.name \/ a.api = b.api \/ (a.cid # 0 /\ (a.cid = b.cid \/ a.cname = b.cname))
Unique(r, d) == \A x \in Live \ {d} : ~ Collide(r, rows[x])

NewRow(sp, cid) ==
    [name |-> DName(NameOf[sp.s]), api |-> NameOf[sp.s], cid |-> cid,
     cname |-> deterministic_container_name(NameOf[sp.s]), status |-> "running",
     health |-> "healthy", man |-> TRUE, spec |-> sp, port |-> sp.port,
     contract |-> FALSE, bench |-> "pending"]

(* The insert raises if a scan has inserted a row for the container.       *)
CreateCommit == Only(
    /\ At("c_save") /\ UNCHANGED <<box, made, gone, tasks, faults>>
    /\ IF Unique(NewRow(h.sp, h.new), NoDep)
       THEN /\ \E d \in Deps : rows[d] = NoRow
            /\ rows' = [rows EXCEPT ![Fresh] = NewRow(h.sp, h.new)]
            /\ h' = [h EXCEPT !.pc = "bench", !.d = Fresh]
       ELSE Raise("c_undo") /\ UNCHANGED rows)

(* except BaseException: a container this attempt created is removed.      *)
CreateUndo == Only(
    /\ At("c_undo") /\ Finish(h.res) /\ UNCHANGED <<rows, made, gone>>
    /\ \/ box' = (IF h.own /\ h.new # 0 THEN Remove(box, h.new) ELSE box) /\ NoFault
       \/ h.own /\ h.new # 0 /\ Fault /\ UNCHANGED box)

(* _benchmark_deployment: marked running, then succeeded or failed; it     *)
(* never fails the task.                                                   *)
BenchmarkStart == Only(
    /\ At("bench") /\ UNCHANGED <<box, made, gone, faults>>
    /\ IF h.d \in Live
       THEN /\ rows' = [rows EXCEPT ![h.d].bench = "running"]
            /\ Goto("bench_end") /\ UNCHANGED tasks
       ELSE Finish("succeeded") /\ UNCHANGED rows)
BenchmarkEnd == Only(
    /\ At("bench_end") /\ Finish("succeeded") /\ UNCHANGED <<box, made, gone, faults>>
    /\ \E b \in {"succeeded", "failed"} :
         rows' = IF h.d \in Live THEN [rows EXCEPT ![h.d].bench = b] ELSE rows)

(***************************************************************************)
(* deployment.update                                                       *)
(***************************************************************************)
(* update_handler up to the first Docker call.  A row that already has the *)
(* specification is recovered, unless the adapter now builds another       *)
(* command for it.                                                         *)
UpdateBegin == Only(
    /\ At("update")
    /\ LET t == tasks[h.t]  d == t.d  s == t.s
           sp == Resolved(s, prepare_spec_port(s, d)) IN
       \/ /\ d \in Live /\ rows[d].cid # 0 /\ rows[d].man /\ Matches(s) \subseteq {d}
          /\ sp.port # 0 /\ deployment_matches_spec(rows[d], sp)
          /\ h' = [h EXCEPT !.pc = "v_start", !.d = d, !.sp = sp, !.cid = rows[d].cid,
                            !.orig = rows[d]]
          /\ UNCHANGED <<world, tasks, faults>>
       \/ /\ d \in Live /\ rows[d].cid # 0 /\ rows[d].man /\ Matches(s) \subseteq {d}
          /\ sp.port # 0 /\ preflight(s, d) # 0
          /\ h' = [h EXCEPT !.pc = "u_get", !.d = d, !.sp = Resolved(s, preflight(s, d)),
                            !.cid = rows[d].cid, !.orig = rows[d],
                            !.was = rows[d].status = "running"]
          /\ UNCHANGED <<world, tasks, faults>>
       \/ Fail)                               \* preflight raises, or one of the above

(* The old container and a replacement an interrupted attempt left.        *)
UpdateGet == Only(
    /\ At("u_get") /\ UNCHANGED <<world, faults>>
    /\ LET old == box[h.cid]
           left == Named(deterministic_container_name(NameOf[h.sp.s])) \ {h.cid} IN
       IF old = NoBox THEN Finish("failed")
       ELSE /\ UNCHANGED tasks
            /\ h' = [h EXCEPT !.name = old.name, !.run = old.run, !.own = (left = {}),
                 !.pc = IF \E c \in left :
                             ~ validate_container_labels(c, h.t, h.sp, h.d, h.cid)
                        THEN "u_back"
                        ELSE IF old.name = h.orig.cname THEN "u_stop"
                        ELSE IF old.name = backup_container_name(h.d) THEN "u_run"
                        ELSE "u_back"])

UpdateStop == Only(
    /\ At("u_stop") /\ UNCHANGED <<rows, made, gone, tasks>>
    /\ \/ box' = Running(box, h.cid, FALSE) /\ Goto("u_name") /\ NoFault
       \/ h.run /\ Fault /\ UNCHANGED box /\ Raise("u_back"))

Rename(c, n) == [box EXCEPT ![c].name = n]

UpdateRename == Only(
    /\ At("u_name") /\ UNCHANGED <<rows, made, gone, tasks>>
    /\ LET n == backup_container_name(h.d) IN
       \/ Named(n) = {} /\ box' = Rename(h.cid, n) /\ Goto("u_run") /\ NoFault
       \/ Named(n) # {} /\ UNCHANGED box /\ Raise("u_back") /\ NoFault
       \/ Fault /\ UNCHANGED box /\ Raise("u_back"))

UpdateRun == Only(
    /\ At("u_run") /\ UNCHANGED <<rows, gone, tasks>>
    /\ LET n == deterministic_container_name(NameOf[h.sp.s]) IN
       IF h.own THEN Run(run_container(h.sp, h.t, h.d, h.cid), "u_wait", "u_back")
       ELSE LET c == CHOOSE x \in Named(n) : TRUE IN
            /\ h' = [h EXCEPT !.new = c,
                              !.pc = IF box[c].run \/ PortFree(c) THEN "u_wait" ELSE "u_back"]
            /\ box' = Running(box, c, box[c].run \/ PortFree(c))
            /\ UNCHANGED <<made, faults>>)

UpdateWait == Only(
    /\ At("u_wait")
    /\ Wait(h.sp.port, "u_save", "u_back"))

UpdateCommit == Only(
    /\ At("u_save") /\ UNCHANGED <<box, made, gone, tasks, faults>>
    /\ LET r == [NewRow(h.sp, h.new) EXCEPT !.bench = rows[h.d].bench] IN
       IF h.d \in Live /\ Unique(r, h.d)
       THEN rows' = [rows EXCEPT ![h.d] = r] /\ Goto("u_drop")
       ELSE Raise("u_back") /\ UNCHANGED rows)

\* mutant: a failed cleanup of the old container rolls the update back
UpdateDropRaises == Only(
    /\ At("u_drop") /\ UNCHANGED <<rows, made, gone, tasks>>
    /\ \/ box' = Remove(box, h.cid) /\ Goto("bench") /\ NoFault
       \/ Fault /\ UNCHANGED box /\ Raise("u_back"))
(* After the commit the old container goes; if Docker refuses, it stays.   *)
UpdateDrop == Only(
    /\ At("u_drop") /\ Goto("bench") /\ UNCHANGED <<rows, made, gone, tasks>>
    /\ \/ box' = Remove(box, h.cid) /\ NoFault
       \/ Fault /\ UNCHANGED box)

(* except BaseException: a rollback is one Docker call after another, with *)
(* room for a crash between two of them.  The new container is removed     *)
(* (or stays, if Docker refuses); then, if what its object says of the old *)
(* one asks for it, that gets its name n back and is started.  An error of *)
(* the rename ends the attempt.                                            *)
NamedBackup == h.name = backup_container_name(h.d)
RollBackCall(n) ==
    \/ /\ h.new # 0 /\ h' = [h EXCEPT !.new = 0]
       /\ \/ box' = Remove(box, h.new) /\ NoFault
          \/ Fault /\ UNCHANGED box
    \/ /\ h.new = 0 /\ h.cid # 0 /\ NamedBackup /\ Named(n) = {} /\ NoFault
       /\ box' = Rename(h.cid, n) /\ h' = [h EXCEPT !.name = n]
RollBackLast(n) ==
    /\ h.new = 0
    /\ LET rename == h.cid # 0 /\ NamedBackup
           start == h.cid # 0 /\ ~ NamedBackup /\ h.was /\ ~ h.run IN
       \/ /\ rename => Named(n) # {}
          /\ box' = IF start THEN Running(box, h.cid, box[h.cid].run \/ PortFree(h.cid)) ELSE box
          /\ NoFault
       \/ (rename \/ start) /\ Fault /\ UNCHANGED box

UpdateBack == Only(
    /\ At("u_back") /\ UNCHANGED <<rows, made, gone>>
    /\ \/ RollBackCall(h.orig.cname) /\ UNCHANGED tasks
       \/ RollBackLast(h.orig.cname) /\ Finish(h.res))

(***************************************************************************)
(* A committed row: _recover_committed_deployment.                         *)
(***************************************************************************)
RecoverStart == Only(
    /\ At("v_start") /\ UNCHANGED <<rows, made, gone>>
    /\ LET c == h.cid
           valid == /\ box[c] # NoBox /\ box[c].man /\ box[c].spec = h.sp
                    /\ \/ box[c].dep = h.d
                       \/ tasks[h.t].kind = "create" /\ box[c].dep = NoDep IN
       \/ ~ valid /\ Finish("failed") /\ UNCHANGED box /\ NoFault
       \/ /\ valid /\ UNCHANGED tasks
          /\ \/ /\ box[c].run \/ PortFree(c)
                /\ box' = Running(box, c, TRUE) /\ NoFault
                /\ h' = [h EXCEPT !.pc = "v_wait", !.own = ~ box[c].run]
             \/ /\ ~ box[c].run /\ ~ PortFree(c) /\ UNCHANGED box /\ NoFault
                /\ h' = [h EXCEPT !.pc = "v_stop", !.own = TRUE]
             \/ /\ ~ box[c].run /\ Fault /\ UNCHANGED box
                /\ h' = [h EXCEPT !.pc = "v_stop", !.own = TRUE])

RecoverWait == Only(
    /\ At("v_wait")
    /\ Wait(h.sp.port, "v_sync", "v_stop"))

(* _sync_recovered_deployment: only if the row is still what was loaded.   *)
(* That includes updated_at, which the model does not keep: a scan or an   *)
(* action may have written the row and left it with the same values, and   *)
(* the recovery gives up, so it may do that at any time.                   *)
RecoverSync == Only(
    /\ At("v_sync") /\ UNCHANGED <<box, made, gone, tasks, faults>>
    /\ LET r == [rows[h.d] EXCEPT !.status = "running", !.health = "healthy",
                                  !.cname = box[h.cid].name] IN
       \/ /\ rows[h.d] = h.orig /\ Unique(r, h.d)
          /\ rows' = [rows EXCEPT ![h.d] = r] /\ Goto("v_drop")
       \/ Raise("v_stop") /\ UNCHANGED rows)

(* _cleanup_committed_backup, and the benchmark if it is due.              *)
RecoverClean == Only(
    /\ At("v_drop") /\ UNCHANGED <<rows, made, gone>>
    /\ LET create == tasks[h.t].kind = "create"
           old == {c \in Named(backup_container_name(h.d)) :
                     box[c].man /\ box[h.cid].repl = c} IN
       /\ \/ /\ NoFault
             /\ box' = IF create THEN box ELSE [c \in Boxes |-> IF c \in old THEN NoBox ELSE box[c]]
          \/ ~ create /\ old # {} /\ Fault /\ UNCHANGED box
       /\ IF create /\ h.orig.bench = "succeeded"
          THEN Finish("succeeded") ELSE Goto("bench") /\ UNCHANGED tasks)

(* _coordinate_failed_recovery_start: a container the retry started is     *)
(* stopped unless a row that is in use refers to it.                       *)
RecoverStop == Only(
    /\ At("v_stop") /\ Finish(h.res) /\ UNCHANGED <<rows, made, gone>>
    /\ LET ref == {d \in Live : rows[d].cid = h.cid}
           stop == /\ h.own
                   /\ \A d \in ref : d = h.d /\ (rows[d].status = "exited"
                                                   \/ rows[d].health = "unhealthy") IN
       \/ box' = (IF stop THEN Running(box, h.cid, FALSE) ELSE box) /\ NoFault
       \/ stop /\ Fault /\ UNCHANGED box)

(***************************************************************************)
(* deployment.action                                                       *)
(***************************************************************************)
TransientOf == [start |-> "starting", restart |-> "starting", stop |-> "stopping",
                delete |-> "deleting"]
Act == tasks[h.t].act

\* mutant: the row is found by its id alone
IdOnlyFilters(d, st) == d \in Live
(* _deployment_identity_filters with the transient status: the row is      *)
(* still the one this action marked.                                       *)
deployment_identity_filters(d, st) ==
    /\ d \in Live /\ rows[d].status = st
    /\ rows[d].cid = tasks[h.t].cid /\ rows[d].cname = tasks[h.t].cname
Marked == deployment_identity_filters(h.d, TransientOf[Act])

(* action_handler: the row must still be bound to the container of the     *)
(* request; it is marked, in the same transaction.                         *)
ActionBegin == Only(
    /\ At("action") /\ UNCHANGED <<box, made, gone, faults>>
    /\ LET t == tasks[h.t]  d == t.d IN
       IF \/ d \notin Live
          \/ rows[d].cid # t.cid \/ rows[d].cname # t.cname
          \/ t.act # "delete" /\ t.cid = 0
       THEN Finish("failed") /\ UNCHANGED rows
       ELSE /\ rows' = [rows EXCEPT ![d].status = TransientOf[t.act], ![d].health = "unknown"]
            /\ h' = [h EXCEPT !.d = d, !.orig = rows[d], !.cid = t.cid,
                              !.pc = IF t.cid = 0 THEN "a_stale" ELSE "a_get"]
            /\ UNCHANGED tasks)

(* Where an action goes when Docker has no such container.                 *)
NotFound ==
    h' = [h EXCEPT !.pc = IF h.orig.contract /\ Act \in {"start", "restart"} THEN "b_run"
                          ELSE IF Act = "delete" THEN "a_stale" ELSE "a_fail",
                   !.cid = 0]

\* _validate_action_container: the container still has the name the task was
\* queued with (h.cid is the recorded id).  It also refuses the manager's own
\* containers, by their names or by HOSTNAME: the model has none of them.
validate_action_container(c) ==
    c.name = tasks[h.t].cname

(* _validate_action_container; then the container runs what its contract   *)
(* says, or it is rebuilt.  Docker may fail otherwise than by NotFound:    *)
(* then there is no object.                                                *)
ActionGet == Only(
    /\ At("a_get") /\ UNCHANGED <<world, tasks>>
    /\ LET c == box[h.cid] IN
       \/ c = NoBox /\ NotFound /\ NoFault
       \/ /\ c # NoBox /\ NoFault
          /\ h' = [h EXCEPT !.name = c.name, !.run = c.run, !.was = c.run,
              !.pc = IF ~ validate_action_container(c) THEN "a_fail"
                     ELSE IF h.orig.contract /\ c.drift /\ Act \in {"start", "restart"}
                     THEN "b_stop" ELSE "a_do"]
       \/ Fault /\ h' = [h EXCEPT !.pc = "a_fail", !.cid = 0])

(* A delete is an uninstall: a running container is stopped first, and may *)
(* be left stopped when the removal fails.                                 *)
ActionDo == Only(
    /\ At("a_do") /\ UNCHANGED <<rows, made, tasks>>
    /\ \/ box[h.cid] = NoBox /\ NotFound /\ UNCHANGED <<box, gone>> /\ NoFault
       \/ /\ box[h.cid] # NoBox /\ Act = "delete" /\ box[h.cid].run /\ UNCHANGED <<h, gone>>
          /\ box' = Running(box, h.cid, FALSE) /\ NoFault
       \/ /\ box[h.cid] # NoBox /\ Act = "delete" /\ ~ box[h.cid].run
          /\ box' = Remove(box, h.cid) /\ gone' = gone \cup {h.cid}
          /\ Goto("a_end") /\ NoFault
       \/ /\ box[h.cid] # NoBox /\ Act = "stop" /\ UNCHANGED gone
          /\ box' = Running(box, h.cid, FALSE) /\ Goto("a_end") /\ NoFault
       \/ /\ box[h.cid] # NoBox /\ Act \in {"start", "restart"} /\ UNCHANGED gone /\ NoFault
          /\ IF PortFree(h.cid) THEN box' = Running(box, h.cid, TRUE) /\ Goto("a_wait")
             ELSE UNCHANGED box /\ Raise("a_fail")
       \/ Fault /\ UNCHANGED <<box, gone>> /\ Raise("a_fail"))

(* A pause or a cancellation leaves the handler here, and the row marked.  *)
ActionWait == Only(
    /\ At("a_wait")
    /\ \E r \in wait_for_health(h.orig.port) :
          \/ r = "healthy" /\ Goto("a_end") /\ UNCHANGED tasks
          \/ r = "failed" /\ Raise("a_fail") /\ UNCHANGED tasks
          \/ r \in {"paused", "cancelled"} /\ Finish(r)
    /\ UNCHANGED <<rows, box, made, gone, faults>>)

(* _stable_container_status of what a reload says of container c, when     *)
(* Docker has the containers b.                                            *)
stable_container_status(b, c, fallback) ==
    IF c # 0 /\ b[c] # NoBox THEN IF b[c].run THEN "running" ELSE "exited"
    ELSE IF fallback \in {"running", "exited"} THEN fallback ELSE "unknown"

\* mutant: the failure is raised and the row left as it is
NoRecovery(b, c) == rows
(* _recover_action_failure: the mark is taken off a row that still has it. *)
recover_action_failure(b, c) ==
    IF Marked
    THEN [rows EXCEPT ![h.d].status = stable_container_status(b, c, h.orig.status),
                      ![h.d].health = "unhealthy"]
    ELSE rows

ActionFail == Only(
    /\ At("a_fail") /\ rows' = recover_action_failure(box, h.cid) /\ Finish(h.res)
    /\ UNCHANGED <<box, made, gone, faults>>)

(* _finalize_action                                                        *)
ActionEnd == Only(
    /\ At("a_end") /\ UNCHANGED <<box, made, gone, faults>>
    /\ IF ~ Marked THEN Finish("failed") /\ UNCHANGED rows
       ELSE /\ Finish("succeeded")
            /\ rows' = IF Act = "delete" THEN [rows EXCEPT ![h.d] = OldRow]
                       ELSE [rows EXCEPT ![h.d].status = IF Act = "stop" THEN "exited" ELSE "running",
                                         ![h.d].health = IF Act = "stop" THEN "unknown" ELSE "healthy"])

(* _delete_stale_deployment                                                *)
ActionStale == Only(
    /\ At("a_stale") /\ UNCHANGED <<box, made, gone, faults>>
    /\ rows' = IF Marked THEN [rows EXCEPT ![h.d] = OldRow] ELSE rows
    /\ Finish(IF Marked THEN "succeeded" ELSE "failed"))

(***************************************************************************)
(* _rebuild_action_container_from_contract, with the old container h.cid,  *)
(* or none.                                                                *)
(***************************************************************************)
RebuildStop == Only(
    /\ At("b_stop") /\ UNCHANGED <<rows, made, gone, tasks>>
    /\ \/ box' = Running(box, h.cid, FALSE) /\ Goto("b_name") /\ NoFault
       \/ h.run /\ Fault /\ UNCHANGED box /\ Raise("b_back"))

RebuildRename == Only(
    /\ At("b_name") /\ UNCHANGED <<rows, made, gone, tasks>>
    /\ LET n == backup_container_name(h.d) IN
       \/ /\ Named(n) = {} /\ box' = Rename(h.cid, n) /\ NoFault
          /\ h' = [h EXCEPT !.pc = "b_run", !.name = n, !.run = FALSE]     \* reload
       \/ Named(n) # {} /\ UNCHANGED box /\ Raise("b_back") /\ NoFault
       \/ Fault /\ UNCHANGED box /\ Raise("b_back"))

(* _run_launch_contract_container: the contract's labels name no task.     *)
(* Its port is taken to be the row's and its labels to say "managed", as   *)
(* in a contract that describes the row's own container; the code checks   *)
(* neither.                                                                *)
RebuildRun == Only(
    /\ At("b_run") /\ UNCHANGED <<rows, gone, tasks>>
    /\ LET new == [name |-> tasks[h.t].cname, run |-> TRUE, man |-> TRUE, task |-> 0,
                   spec |-> h.orig.spec, dep |-> NoDep, repl |-> 0, port |-> h.orig.port,
                   api |-> h.orig.api, drift |-> FALSE] IN
       Run(new, "b_wait", "b_back"))

RebuildWait == Only(
    /\ At("b_wait")
    /\ Wait(h.orig.port, "b_save", "b_back"))

RebuildCommit == Only(
    /\ At("b_save") /\ UNCHANGED <<box, made, gone, tasks, faults>>
    /\ LET r == [rows[h.d] EXCEPT !.cid = h.new, !.status = "running",
                                  !.health = "healthy", !.man = TRUE] IN
       IF Marked /\ Unique(r, h.d)
       THEN rows' = [rows EXCEPT ![h.d] = r] /\ Goto("b_drop")
       ELSE Raise("b_back") /\ UNCHANGED rows)

RebuildDrop == Only(
    /\ At("b_drop") /\ Finish("succeeded") /\ UNCHANGED <<rows, made, gone>>
    /\ \/ box' = (IF h.cid # 0 THEN Remove(box, h.cid) ELSE box) /\ NoFault
       \/ h.cid # 0 /\ Fault /\ UNCHANGED box)

(* except BaseException; then the mark is taken off as after another       *)
(* failure.                                                                *)
RebuildBack == Only(
    /\ At("b_back") /\ UNCHANGED <<rows, made, gone, tasks>>
    /\ \/ RollBackCall(tasks[h.t].cname)
       \/ RollBackLast(tasks[h.t].cname) /\ Goto("a_fail"))

(***************************************************************************)
(* DiscoveryService.scan_containers: every container is matched with a row *)
(* by the deployment of its labels, by its id or by its name.              *)
(***************************************************************************)
RowsFor(c) ==
    IF box[c].man /\ box[c].dep \in Live THEN {box[c].dep}
    ELSE {d \in Live : rows[d].cid = c \/ rows[d].cname = box[c].name}

(* A managed row is left alone while an action runs on it, or when it is   *)
(* bound to another container.                                             *)
Refreshable(d, c) ==
    rows[d].man => /\ rows[d].status \notin Transient
                   /\ rows[d].cid = c /\ rows[d].cname = box[c].name

Seen(c, health) ==
    [cid |-> c, cname |-> box[c].name, api |-> box[c].api, port |-> box[c].port,
     man |-> box[c].man, status |-> IF box[c].run THEN "running" ELSE "exited",
     health |-> IF box[c].run THEN health ELSE "unknown"]
Merge(r, seen) ==
    [r EXCEPT !.cid = seen.cid, !.cname = seen.cname, !.api = seen.api, !.port = seen.port,
              !.man = seen.man, !.status = seen.status, !.health = seen.health,
              !.spec = IF seen.man THEN @ ELSE NoSpec]
Blank(c) == [name |-> box[c].name, api |-> box[c].api, cid |-> c, cname |-> box[c].name,
             status |-> "unknown", health |-> "unknown", man |-> FALSE, spec |-> NoSpec,
             port |-> box[c].port, contract |-> FALSE, bench |-> "none"]

(* What a scan that reads everything now will write when it commits.  The  *)
(* code reads container by container, with a health probe for each: that   *)
(* the containers may change in between is left out, that the rows and     *)
(* containers may change before the commit is not.                         *)
ScanOf(health) ==
    [on |-> TRUE,
     upd |-> UNION {{[d |-> d, was |-> rows[d], now |-> Merge(rows[d], Seen(c, health))] :
                       d \in {x \in RowsFor(c) : Refreshable(x, c)}} : c \in There},
     ins |-> {[d |-> IF box[c].man THEN box[c].dep ELSE NoDep,
               now |-> Merge(Blank(c), Seen(c, health))] :
                c \in {x \in There : RowsFor(x) = {}}}]

(* The commit writes the columns the scan changed.                         *)
Refreshed(r, was, now) ==
    [r EXCEPT !.cid = Column(@, was.cid, now.cid), !.cname = Column(@, was.cname, now.cname),
              !.api = Column(@, was.api, now.api), !.port = Column(@, was.port, now.port),
              !.man = Column(@, was.man, now.man), !.status = Column(@, was.status, now.status),
              !.health = Column(@, was.health, now.health),
              !.spec = Column(@, was.spec, now.spec)]
Updated(r) ==
    [d \in Deps |-> LET u == {x \in r.upd : x.d = d} IN
        IF u = {} \/ d \notin Live THEN rows[d]
        ELSE LET x == CHOOSE y \in u : TRUE IN Refreshed(rows[d], x.was, x.now)]
(* It fails when an updated row is gone or a key or unique column clashes. *)
Clash(r) ==
    \/ \E x \in r.upd : x.d \notin Live
    \/ \E x \in r.ins : \/ x.d \in Live
                        \/ \E d \in Live : Collide(Updated(r)[d], x.now)
                        \/ \E y \in r.ins : x # y /\ (Collide(x.now, y.now)
                                                       \/ (x.d = y.d /\ x.d # NoDep))
    \/ \E d, e \in Live : d # e /\ Collide(Updated(r)[d], Updated(r)[e])
(* The ids of the inserted rows: the one the labels name, or a new one.    *)
Places(r) ==
    {at \in [r.ins -> Deps] :
       /\ \A x, y \in r.ins : at[x] = at[y] => x = y
       /\ \A x \in r.ins : IF x.d # NoDep THEN at[x] = x.d ELSE rows[at[x]] = NoRow}
Inserted(r) ==
    LET at == CHOOSE f \in Places(r) : TRUE
    IN [d \in Deps |-> IF \E x \in r.ins : at[x] = d
                       THEN (CHOOSE x \in r.ins : at[x] = d).now ELSE Updated(r)[d]]

ScanRead ==
    /\ up = "up" /\ ~ scan.on /\ calls < MaxCalls /\ calls' = calls + 1
    /\ \E health \in {"healthy", "unhealthy"} : scan' = ScanOf(health)
    /\ UNCHANGED <<rows, box, made, tasks, h, up, gone, crashes, faults>>
ScanCommit ==
    /\ up = "up" /\ scan.on /\ scan' = NoScan
    /\ IF Clash(scan) THEN UNCHANGED rows
       ELSE Places(scan) # {} /\ rows' = Inserted(scan)
    /\ UNCHANGED <<box, made, tasks, h, up, gone, budget>>

(***************************************************************************)
(* Requests (api/deployments.py) and the engine's control lane.            *)
(***************************************************************************)
Open(t) == tasks[t].st \in {"queued", "running", "paused"}
Key(t) == <<tasks[t].kind, IF tasks[t].kind = "create" THEN NameOf[tasks[t].s] ELSE tasks[t].d,
            tasks[t].act>>

(* create_task returns the open task that has the same idempotency key.    *)
Queue(new, key) ==
    /\ up = "up" /\ calls < MaxCalls /\ calls' = calls + 1
    /\ ~ \E t \in Tasks : Open(t) /\ Key(t) = key
    /\ \E t \in Tasks : /\ tasks[t].st = "none" /\ \A x \in Tasks : x < t => tasks[x].st # "none"
                        /\ tasks' = [tasks EXCEPT ![t] = new]
    /\ UNCHANGED <<rows, box, made, h, scan, up, gone, crashes, faults>>

(* The preview must succeed and no row use the name.                       *)
create_deployment(s) ==
    /\ preflight(s, NoDep) # 0 /\ Matches(s) = {}
    /\ Queue([NoTask EXCEPT !.st = "queued", !.kind = "create", !.s = s],
             <<"create", NameOf[s], "none">>)
update_deployment(d, s) ==
    /\ d \in Live /\ rows[d].man /\ Matches(s) \subseteq {d}
    /\ prepare_spec_port(s, d) # 0 /\ preflight(s, d) # 0
    /\ Queue([NoTask EXCEPT !.st = "queued", !.kind = "update", !.d = d, !.s = s],
             <<"update", d, "none">>)
(* The task carries the container the administrator saw.                   *)
deployment_action(d, a) ==
    /\ d \in Live
    /\ Queue([NoTask EXCEPT !.st = "queued", !.kind = "action", !.d = d, !.act = a,
                            !.cid = rows[d].cid, !.cname = rows[d].cname],
             <<"action", d, a>>)

(* TaskEngine: claim the oldest queued task, request_cancel, request_pause, *)
(* resume.                                                                  *)
Claim ==
    /\ up = "up" /\ h = Idle
    /\ \E t \in Tasks :
         /\ tasks[t].st = "queued" /\ \A x \in Tasks : x < t => tasks[x].st # "queued"
         /\ tasks' = [tasks EXCEPT ![t].st = "running"]
         /\ h' = [Idle EXCEPT !.t = t, !.pc = tasks[t].kind]
    /\ UNCHANGED <<world, scan, up, budget>>
Control(t, c) ==
    /\ up = "up" /\ calls < MaxCalls /\ calls' = calls + 1
    /\ \/ tasks[t].st = "running" /\ tasks' = [tasks EXCEPT ![t].ctl = c]
       \/ /\ tasks[t].st \in (IF c = "cancel" THEN {"queued", "paused"} ELSE {"queued"})
          /\ tasks' = [tasks EXCEPT ![t].st = IF c = "cancel" THEN "cancelled" ELSE "paused"]
    /\ UNCHANGED <<rows, box, made, h, scan, up, gone, crashes, faults>>
Resume(t) ==
    /\ up = "up" /\ calls < MaxCalls /\ calls' = calls + 1
    /\ tasks[t].st \in {"paused", "failed", "cancelled"}
    /\ tasks' = [tasks EXCEPT ![t].st = "queued", ![t].ctl = "none"]
    /\ UNCHANGED <<rows, box, made, h, scan, up, gone, crashes, faults>>

Crash ==
    /\ up = "up" /\ crashes < MaxCrashes /\ crashes' = crashes + 1
    /\ up' = "down" /\ h' = Idle /\ scan' = NoScan
    /\ UNCHANGED <<rows, box, made, tasks, gone, calls, faults>>

(* reconcile_managed_chat_templates: stored specifications and contracts   *)
(* get the managed template; the containers are as they were made.         *)
Needs(r) == r.man /\ r.spec # NoSpec /\ FixOf[r.spec.s] # r.spec.s
reconcile_managed_chat_templates(table) ==
    [d \in Deps |-> IF table[d] \in {NoRow, OldRow} THEN table[d]
                    ELSE IF Needs(table[d]) THEN [table[d] EXCEPT !.spec.s = FixOf[@]] ELSE table[d]]
Drifted(table) ==
    {c \in There : \E d \in Deps : /\ table[d] \notin {NoRow, OldRow} /\ table[d].cid = c
                                   /\ table[d].contract /\ Needs(table[d])}

(* The lifespan: scan, reconcile, recover interrupted tasks, start.  An    *)
(* error of the scan's commit ends it.                                     *)
Restart ==
    /\ up = "down" /\ UNCHANGED <<made, h, scan, gone, budget>>
    /\ \E health \in {"healthy", "unhealthy"} :
         LET r == ScanOf(health) IN
         IF Clash(r) THEN up' = "failed" /\ UNCHANGED <<rows, box, tasks>>
         ELSE /\ up' = "up" /\ Places(r) # {}
              /\ rows' = reconcile_managed_chat_templates(Inserted(r))
              /\ box' = [c \in Boxes |-> IF c \in Drifted(Inserted(r))
                                         THEN [box[c] EXCEPT !.drift = TRUE] ELSE box[c]]
              /\ tasks' = [t \in Tasks |-> IF tasks[t].st = "running"
                             THEN [tasks[t] EXCEPT !.st = "queued", !.ctl = "none"] ELSE tasks[t]]

(***************************************************************************)
(* The host: a server exits; a container the manager does not manage is    *)
(* made again under its name.                                              *)
(***************************************************************************)
Exits(c) ==
    /\ c \in There /\ box[c].run /\ faults < MaxFaults /\ faults' = faults + 1
    /\ box' = Running(box, c, FALSE)
    /\ UNCHANGED <<rows, made, tasks, h, scan, up, gone, calls, crashes>>
Recreated(c) ==
    /\ c \in There /\ ~ box[c].man /\ made < MaxBoxes /\ faults < MaxFaults
    /\ made' = made + 1 /\ faults' = faults + 1
    /\ box' = [box EXCEPT ![c] = NoBox, ![made + 1] = box[c]]
    /\ UNCHANGED <<rows, tasks, h, scan, up, gone, calls, crashes>>

(***************************************************************************)
(* Initially there is nothing, or one deployment: managed, with or without *)
(* a launch contract, with a container made by hand, or with a container   *)
(* that somebody removed from Docker.                                      *)
(***************************************************************************)
ForeignBox(p) == [name |-> Foreign, run |-> TRUE, man |-> FALSE, task |-> 0, spec |-> NoSpec,
                  dep |-> NoDep, repl |-> 0, port |-> p, api |-> "foreign", drift |-> FALSE]
NoRows == [d \in Deps |-> NoRow]
NoBoxes == [c \in Boxes |-> NoBox]

Init ==
    /\ \E kind \in {"none", "managed", "contract", "foreign", "stale", "lost"},
          p \in {q \in Ports : PortOf[FirstSpec] \in {q, AutoPort}} :
         LET d == CHOOSE x \in Deps : TRUE
             mb == run_container(Resolved(FirstSpec, p), 0, NoDep, 0)
             fb == ForeignBox(p)
             mr == NewRow(Resolved(FirstSpec, p), 1)
             fr == [mr EXCEPT !.name = Foreign, !.api = "foreign", !.cname = Foreign,
                              !.man = FALSE, !.spec = NoSpec, !.bench = "none"] IN
         /\ rows = [NoRows EXCEPT ![d] =
              CASE kind = "none" -> NoRow
                [] kind = "managed" -> mr
                [] kind \in {"contract", "lost"} -> [mr EXCEPT !.contract = TRUE]
                [] kind = "foreign" -> fr
                [] kind = "stale" -> [fr EXCEPT !.cid = 0, !.cname = <<>>]]
         /\ box = [NoBoxes EXCEPT ![1] =
              CASE kind \in {"none", "stale", "lost"} -> NoBox
                [] kind = "managed" -> mb
                [] kind = "contract" -> [mb EXCEPT !.drift = TRUE]
                [] kind = "foreign" -> fb]
         /\ made = IF kind \in {"none", "stale"} THEN 0 ELSE 1
         /\ gone = IF kind = "lost" THEN {1} ELSE {}
    /\ tasks = [t \in Tasks |-> NoTask] /\ h = Idle /\ scan = NoScan /\ up = "up"
    /\ calls = 0 /\ crashes = 0 /\ faults = 0

Next ==
    \/ \E s \in Specs : create_deployment(s)
    \/ \E d \in Deps, s \in Specs : update_deployment(d, s)
    \/ \E d \in Deps, a \in Action : deployment_action(d, a)
    \/ Claim
    \/ \E t \in Tasks, c \in {"cancel", "pause"} : Control(t, c)
    \/ \E t \in Tasks : Resume(t)
    \/ CreateBegin \/ CreateContainer \/ CreateWait \/ CreateCommit \/ CreateUndo
    \/ BenchmarkStart \/ BenchmarkEnd
    \/ UpdateBegin \/ UpdateGet \/ UpdateStop \/ UpdateRename \/ UpdateRun \/ UpdateWait
    \/ UpdateCommit \/ UpdateDrop \/ UpdateBack
    \/ RecoverStart \/ RecoverWait \/ RecoverSync \/ RecoverClean \/ RecoverStop
    \/ ActionBegin \/ ActionGet \/ ActionDo \/ ActionWait \/ ActionFail \/ ActionEnd \/ ActionStale
    \/ RebuildStop \/ RebuildRename \/ RebuildRun \/ RebuildWait \/ RebuildCommit
    \/ RebuildDrop \/ RebuildBack
    \/ ScanRead \/ ScanCommit
    \/ Crash \/ Restart
    \/ \E c \in Boxes : Exits(c) \/ Recreated(c)

Spec == Init /\ [][Next]_vars

-----------------------------------------------------------------------------
(* The container of a managed deployment with a saved specification goes   *)
(* only by an administrator's delete: whatever an update, a rebuild, a     *)
(* recovery or a rollback does, and wherever it is cut off, the row points *)
(* to a container Docker still has.  (A row a scan inserted for the        *)
(* container of a running create has no specification and loses it when    *)
(* the create fails on the unique columns.)                                *)
RowKeepsItsContainer ==
    \A d \in Live : rows[d].man /\ rows[d].spec # NoSpec => rows[d].cid \in There \cup gone

(* A scan leaves a managed row with a transient status alone, so such a    *)
(* row has a task that will take the status off, or one that was paused or *)
(* cancelled while it was set (action_handler does not take it off then).  *)
TransientHasItsTask ==
    \A d \in Live : rows[d].man /\ rows[d].status \in Transient =>
        \E t \in Tasks : /\ tasks[t].kind = "action" /\ tasks[t].d = d
                         /\ tasks[t].st \in {"queued", "running", "paused", "cancelled"}

(* Two deployments with a saved specification never have the same port,    *)
(* although a create and an update choose theirs minutes before they       *)
(* commit it, a row may have lost its container and a container its row.   *)
PortsDiffer ==
    \A d, e \in Live : d # e /\ rows[d].spec # NoSpec /\ rows[e].spec # NoSpec
                         => rows[d].port # rows[e].port

(* A row is deleted only by a delete of the container it is bound to at    *)
(* that moment, the one the administrator saw when the task was made.      *)
DeleteHitsItsSnapshot ==
    [][\A d \in Deps : d \in Live /\ rows'[d] = OldRow =>
         tasks[h.t].act = "delete" /\ rows[d].cid = tasks[h.t].cid]_vars

(* When an update fails without a fault of Docker and without a crash, the *)
(* old container is back: it has the name the row says, and runs if it     *)
(* ran.                                                                    *)
RollbackRestores ==
    [][At("u_back") /\ h'.pc = "idle" /\ faults' = 0 /\ crashes = 0 =>
         /\ box'[h.cid].name = h.orig.cname
         /\ h.was => box'[h.cid].run]_vars
-----------------------------------------------------------------------------
(***************************************************************************)
(* The inductive invariant behind the four properties.                     *)
(***************************************************************************)
CreatePc == {"c_get", "c_wait", "c_save", "c_undo"}
UpdatePc == {"u_get", "u_stop", "u_name", "u_run", "u_wait", "u_save", "u_back"}
RecoverPc == {"v_start", "v_wait", "v_sync", "v_drop", "v_stop"}
ActionPc == {"a_get", "a_do", "a_wait", "a_end", "a_fail", "a_stale"}
RebuildPc == {"b_stop", "b_name", "b_run", "b_wait", "b_save", "b_back"}
BeginPc == {"create", "update", "action"}

Task == [st : TaskStatus \cup {"none"}, kind : BeginPc \cup {"none"}, d : Deps \cup {NoDep},
         s : Specs \cup {NoSpec}, act : Action \cup {"none"}, cid : Boxes \cup {0},
         cname : ContainerName, ctl : {"none", "cancel", "pause"}]

Pc == {"idle", "bench", "bench_end", "u_drop", "b_drop"} \cup BeginPc \cup CreatePc
        \cup UpdatePc \cup RecoverPc \cup ActionPc \cup RebuildPc
Handler ==
    [pc : Pc, t : Tasks \cup {0}, d : Deps \cup {NoDep}, sp : Saved \cup {NoSpec},
     orig : Row \cup {NoRow},
     cid : Boxes \cup {0}, name : ContainerName, run : BOOLEAN, was : BOOLEAN,
     new : Boxes \cup {0}, own : BOOLEAN, res : {"failed", "cancelled", "paused"}]

Scan ==
    [on : BOOLEAN, upd : SUBSET [d : Deps, was : Row, now : Row],
     ins : SUBSET [d : Deps \cup {NoDep}, now : Row]]

TypeOK ==
    /\ rows \in [Deps -> Row \cup {NoRow, OldRow}]
    /\ box \in [Boxes -> Box \cup {NoBox}] /\ made \in 0 .. MaxBoxes
    /\ tasks \in [Tasks -> Task] /\ h \in Handler /\ scan \in Scan
    /\ up \in {"up", "down", "failed"}

(* A container the manager made has a name of the manager's, the port of   *)
(* its specification and, as a replacement, a deployment that exists or    *)
(* existed.                                                                *)
BoxOK(c) ==
    /\ c <= made /\ box[c].repl # c
    /\ \A e \in There \ {c} : box[e].name # box[c].name
    /\ box[c].man <=> box[c].name \notin {Foreign, <<>>}
    /\ ~ box[c].man => box[c].dep = NoDep /\ box[c].repl = 0
    /\ box[c].spec # NoSpec => box[c].spec.port = box[c].port
    /\ box[c].dep # NoDep => /\ rows[box[c].dep] # NoRow
                             /\ box[c].dep \in Live => rows[box[c].dep].man
    /\ box[c].task # 0 => /\ tasks[box[c].task].kind \in {"create", "update"}
                          /\ tasks[box[c].task].kind = "create" => box[c].dep = NoDep

(* What a row and its container have in common.                            *)
Bound(r, d) ==
    /\ r.cid <= made
    /\ r.man <=> r.cname \notin {Foreign, <<>>}
    /\ r.man => /\ r.cid # 0
                /\ r.cid \in There => /\ box[r.cid].man /\ box[r.cid].port = r.port
                                      /\ box[r.cid].dep \in {NoDep, d}
    /\ ~ r.man => r.spec = NoSpec /\ (r.cid \in There => ~ box[r.cid].man)

(* A row with a specification has its port, and only its own backup name.  *)
RowOK(d) ==
    /\ Bound(rows[d], d)
    /\ rows[d].contract => rows[d].spec # NoSpec
    /\ rows[d].spec # NoSpec =>
         /\ rows[d].spec.port = rows[d].port
         /\ rows[d].cid \in There \cup gone
         /\ \A e \in Deps : rows[d].cname = backup_container_name(e) => e = d
         /\ \A e \in Deps : rows[d].cid \in There
                              /\ box[rows[d].cid].name = backup_container_name(e) => e = d

CidsDiffer ==
    \A d, e \in Live : d # e /\ rows[d].cid = rows[e].cid => rows[d].cid = 0

(* A task that was queued knows what it is about.                          *)
TaskOK(t) ==
    /\ tasks[t].kind = "none" <=> tasks[t].st = "none"
    /\ tasks[t].kind \in {"create", "update"} => tasks[t].s \in Specs
    /\ tasks[t].kind = "action" => tasks[t].d \in Deps /\ tasks[t].act \in Action

(* A marked row has an action of the same container that can take the mark *)
(* off.                                                                    *)
MarkOK(d) ==
    rows[d].man /\ rows[d].status \in Transient =>
        \E t \in Tasks : /\ tasks[t].kind = "action" /\ tasks[t].d = d
                         /\ tasks[t].cid = rows[d].cid /\ tasks[t].cname = rows[d].cname
                         /\ tasks[t].st \in {"queued", "running", "paused", "cancelled"}

(* A scan writes to a managed row nothing but what it saw of its state,    *)
(* and makes no row managed; the rows it inserts have no specification.    *)
UpdOK(x) ==
    /\ rows[x.d] # NoRow /\ (x.d \in Live => (rows[x.d].man <=> x.was.man))
    /\ x.now.status \notin Transient
    /\ IF x.was.man THEN /\ x.now.man /\ x.now.cid = x.was.cid /\ x.now.cname = x.was.cname
                         /\ x.now.port = x.was.port /\ x.now.spec = x.was.spec
       ELSE ~ x.now.man /\ x.was.spec = NoSpec /\ Bound(x.now, x.d)
InsOK(x) ==
    /\ x.now.spec = NoSpec /\ ~ x.now.contract /\ x.now.status \notin Transient
    /\ x.d # NoDep => x.now.man
    /\ \A d \in Deps : x.d \in {NoDep, d} => Bound(x.now, d)
ScanOK == (\A x \in scan.upd : UpdOK(x)) /\ (\A x \in scan.ins : InsOK(x))

(* No deployment with a specification would lose container c.              *)
Spare(c) == \A d \in Live : rows[d].spec # NoSpec => rows[d].cid # c
(* The port of the running create or update is nobody else's.              *)
OwnPort == \A d \in Live \ {h.d} : rows[d].spec # NoSpec => rows[d].port # h.sp.port

(* The container the handler is waiting for.                               *)
Waiting(port, deps) ==
    /\ h.new \in There /\ box[h.new].man /\ box[h.new].port = port /\ box[h.new].dep \in deps
    /\ \A e \in Deps : box[h.new].name = backup_container_name(e) => e = h.d

CreateInv ==
    /\ tasks[h.t].kind = "create" /\ h.d = NoDep
    /\ h.pc # "c_undo" => h.sp \in Saved /\ OwnPort
    /\ h.pc = "c_get" => ~ h.own
    /\ h.pc \in {"c_wait", "c_save"} => Waiting(h.sp.port, {NoDep})
    /\ h.own /\ h.new # 0 => Spare(h.new)

(* The row is still the one the update loaded; a replacement of an earlier *)
(* attempt is the only container with its name.                            *)
UpdateInv ==
    /\ tasks[h.t].kind = "update" /\ h.d \in Live /\ h.sp \in Saved /\ h.orig \in Row
    /\ rows[h.d].man /\ rows[h.d].cid = h.cid /\ rows[h.d].cname = h.orig.cname
    /\ OwnPort
    /\ h.pc # "u_get" => h.cid \in There
    /\ h.pc \in {"u_get", "u_stop", "u_name", "u_run"} => h.new = 0
    /\ h.pc \in {"u_stop", "u_name", "u_run"} /\ ~ h.own =>
          \E c \in Named(deterministic_container_name(NameOf[h.sp.s])) :
             c # h.cid /\ validate_container_labels(c, h.t, h.sp, h.d, h.cid)
    /\ h.pc \in {"u_wait", "u_save"} => Waiting(h.sp.port, {h.d})
    /\ h.new # 0 => h.new \in There \ {h.cid} /\ box[h.new].dep = h.d

RecoverInv ==
    /\ tasks[h.t].kind \in {"create", "update"} /\ h.d \in Live /\ h.orig \in Row
    /\ rows[h.d].spec # NoSpec /\ rows[h.d].cid = h.cid
    /\ h.pc # "v_start" => h.cid \in There

(* The mark on a managed row is the running action's.                      *)
ActionInv ==
    /\ tasks[h.t].kind = "action" /\ h.d = tasks[h.t].d /\ h.d \in Live /\ h.orig \in Row
    /\ rows[h.d].man => /\ rows[h.d].cid = tasks[h.t].cid /\ rows[h.d].cname = tasks[h.t].cname
                        /\ rows[h.d].status \in Transient => rows[h.d].status = TransientOf[Act]
    /\ h.orig.contract => /\ rows[h.d].spec # NoSpec /\ rows[h.d].port = h.orig.port
                          /\ h.orig.spec # NoSpec /\ h.orig.spec.port = h.orig.port
    /\ h.pc \in {"a_get", "a_do"} => h.cid # 0 /\ h.cid = tasks[h.t].cid
    /\ h.pc = "a_stale" => Act = "delete"
    /\ h.pc \in ActionPc \cup {"b_stop", "b_name", "b_run"} => h.new = 0

RebuildInv ==
    /\ h.orig.contract
    /\ h.pc \in {"b_stop", "b_name"} => h.cid # 0
    /\ h.cid # 0 => h.cid = tasks[h.t].cid /\ h.cid \in There
    /\ h.pc \in {"b_wait", "b_save"} => Waiting(h.orig.port, {NoDep})
    /\ h.new # 0 => h.new # h.cid /\ Spare(h.new)

HandlerOK ==
    /\ up # "up" => h = Idle /\ scan = NoScan
    /\ h.pc # "idle" => h.t \in Tasks /\ tasks[h.t].st = "running"
    /\ h.pc = "idle" => h = Idle
    /\ h.pc \in BeginPc => h = [Idle EXCEPT !.t = h.t, !.pc = tasks[h.t].kind]
    /\ h.pc \in CreatePc => CreateInv
    /\ h.pc \in UpdatePc => UpdateInv
    /\ h.pc \in RecoverPc => RecoverInv
    /\ h.pc \in ActionPc => ActionInv
    /\ h.pc \in RebuildPc => ActionInv /\ RebuildInv
    /\ h.pc \in {"bench", "bench_end", "u_drop"} =>
          tasks[h.t].kind \in {"create", "update"} /\ h.d \in Deps
    /\ h.pc \in {"u_drop", "b_drop"} => Spare(h.cid)
    /\ h.pc = "b_drop" => /\ tasks[h.t].kind = "action" /\ h.d = tasks[h.t].d
                          /\ h.d \in Live => rows[h.d].status \notin Transient

BoxInv == \A c \in There : BoxOK(c)
RowInv == \A d \in Live : RowOK(d)
MarkInv == \A d \in Live : MarkOK(d)
TaskInv == \A t \in Tasks : TaskOK(t)

IInv ==
    /\ TypeOK /\ BoxInv /\ RowInv /\ MarkInv /\ TaskInv
    /\ CidsDiffer /\ PortsDiffer /\ ScanOK /\ HandlerOK
=============================================================================
