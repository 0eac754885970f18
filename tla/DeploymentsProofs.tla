------------------------- MODULE DeploymentsProofs -------------------------
(***************************************************************************)
(* The four properties of Deployments, for every set of specifications,    *)
(* names and ports and every bound.                                        *)
(***************************************************************************)
EXTENDS Deployments, WellFoundedInduction, TLAPS

(***************************************************************************)
(* Names, records and the absent values.                                   *)
(***************************************************************************)
(* The four kinds of container names differ.                               *)
LEMMA Names ==
    /\ \A n : deterministic_container_name(n) \notin {Foreign, <<>>}
    /\ \A d : backup_container_name(d) \notin {Foreign, <<>>}
    /\ \A n, d : deterministic_container_name(n) # backup_container_name(d)
    /\ \A d, e : backup_container_name(d) = backup_container_name(e) => d = e
  BY DEF deterministic_container_name, backup_container_name, Foreign

(* Their types.                                                            *)
LEMMA NameTypes ==
    /\ \A s \in Specs : /\ NameOf[s] \in Api
                        /\ deterministic_container_name(NameOf[s]) \in ContainerName
                        /\ DName(NameOf[s]) \in {DName(n) : n \in Api}
    /\ \A d \in Deps : backup_container_name(d) \in ContainerName
    /\ {Foreign, <<>>} \subseteq ContainerName /\ "foreign" \in Api
  BY DEF Api, ContainerName

(* The absent values are none of those they stand in for.                  *)
LEMMA Absent ==
    /\ NoRow \notin Row /\ OldRow \notin Row /\ NoRow # OldRow /\ NoBox \notin Box
    /\ NoSpec \notin Saved /\ NoDep \notin Deps /\ 0 \notin Tasks /\ 0 \notin Ports
    /\ 0 \notin Boxes /\ MaxBoxes \in Nat \ {0} /\ Ports \subseteq Nat /\ Tasks \subseteq Nat
    /\ 1 \in Boxes
  BY DeploymentsAssumption DEF Boxes

(* A resolved specification.                                               *)
LEMMA ResolvedType ==
    ASSUME NEW s \in Specs, NEW p \in Ports
    PROVE  /\ Resolved(s, p) \in Saved /\ Resolved(s, p) # NoSpec
           /\ Resolved(s, p).s = s /\ Resolved(s, p).port = p
  BY Absent DEF Resolved, Saved

(* The row of a new deployment.                                            *)
LEMMA NewRowType ==
    ASSUME NEW sp \in Saved, NEW c \in Boxes \cup {0}
    PROVE  /\ NewRow(sp, c) \in Row
           /\ NewRow(sp, c).cid = c /\ NewRow(sp, c).man = TRUE
           /\ NewRow(sp, c).spec = sp /\ NewRow(sp, c).port = sp.port
           /\ NewRow(sp, c).cname = deterministic_container_name(NameOf[sp.s])
           /\ NewRow(sp, c).contract = FALSE /\ NewRow(sp, c).status = "running"
<1>1. sp.s \in Specs /\ sp.port \in Ports
  BY DEF Saved
<1> QED BY <1>1, NameTypes DEF NewRow, Row

(* The container of a specification.                                       *)
LEMMA RunContainerType ==
    ASSUME NEW sp \in Saved, NEW t \in Tasks \cup {0}, NEW d \in Deps \cup {NoDep},
           NEW r \in Boxes \cup {0}
    PROVE  run_container(sp, t, d, r) \in Box
<1>1. sp.s \in Specs /\ sp.port \in Ports
  BY DEF Saved
<1> QED BY <1>1, NameTypes DEF run_container, Box

(* The idle handler, the empty task and the scan that does not run.        *)
LEMMA InitialTypes ==
    /\ Idle \in Handler /\ Idle.pc = "idle" /\ Idle.new = 0 /\ Idle.own = FALSE
    /\ Idle.d = NoDep
    /\ NoTask \in Task /\ NoTask.st = "none" /\ NoTask.kind = "none" /\ NoTask.act = "none"
    /\ NoScan \in Scan /\ NoScan.upd = {} /\ NoScan.ins = {}
<1>1. <<>> \in ContainerName
  BY NameTypes
<1>2. /\ Idle \in Handler /\ Idle.pc = "idle" /\ Idle.new = 0 /\ Idle.own = FALSE
      /\ Idle.d = NoDep
  BY <1>1 DEF Idle, Handler, Pc
<1>3. NoTask \in Task /\ NoTask.st = "none" /\ NoTask.kind = "none" /\ NoTask.act = "none"
  BY <1>1 DEF NoTask, Task
<1>4. NoScan \in Scan /\ NoScan.upd = {} /\ NoScan.ins = {}
  BY DEF NoScan, Scan
<1> QED BY <1>2, <1>3, <1>4

(***************************************************************************)
(* Ports.                                                                  *)
(***************************************************************************)
(* Lowest returns a port that is not taken, or 0.                          *)
LEMMA LowestFree ==
    ASSUME NEW taken, Lowest(taken) # 0
    PROVE  Lowest(taken) \in Ports /\ Lowest(taken) \notin taken
<1>1. ~ (Ports \subseteq taken)
  BY DEF Lowest
<1> DEFINE S == Ports \ taken
<1>2. S # {} /\ S \subseteq Nat
  BY <1>1, Absent
<1>3. \E p \in S : \A q \in S : ~ (<<q, p>> \in OpToRel(<, Nat))
  <2> HIDE DEF S
  <2>1. IsWellFoundedOn(OpToRel(<, Nat), Nat)
    BY NatLessThanWellFounded
  <2>2. PICK R : R = OpToRel(<, Nat)
    OBVIOUS
  <2>3. \E p \in S : \A q \in S : ~ (<<q, p>> \in R)
    BY <1>2, <2>1, <2>2, WFMin
  <2> QED BY <2>2, <2>3
<1>4. PICK p \in S : \A q \in S : ~ (<<q, p>> \in OpToRel(<, Nat))
  BY <1>3
<1>5. \A q \in S : p <= q
  <2>1. OpToRel(<, Nat) = {r \in Nat \X Nat : r[1] < r[2]}
    BY Zenon DEF OpToRel
  <2>2. \A q \in S : <<q, p>> \notin {r \in Nat \X Nat : r[1] < r[2]}
    BY <1>4, <2>1
  <2> SUFFICES ASSUME NEW q \in S PROVE p <= q
    OBVIOUS
  <2>3. p \in Nat /\ q \in Nat
    BY <1>2
  <2>4. ~ (q < p)
    <3>1. <<q, p>> \in Nat \X Nat /\ <<q, p>>[1] = q /\ <<q, p>>[2] = p
      BY <2>3
    <3> QED BY <2>2, <3>1
  <2> QED BY <2>3, <2>4
<1>6. \E x \in S : \A q \in S : x <= q
  BY <1>5
<1>7. Lowest(taken) = CHOOSE x \in S : \A q \in S : x <= q
  BY <1>1 DEF Lowest
<1> HIDE DEF S
<1>8. Lowest(taken) \in S
  BY <1>6, <1>7
<1> QED BY <1>8 DEF S

(* The port prepare_spec_port returns is no other deployment's, or 0.      *)
LEMMA PrepareFree ==
    ASSUME NEW s \in Specs, NEW ex, NEW p, p = prepare_spec_port(s, ex), p # 0
    PROVE  p \in Ports /\ p \notin db_reserved_ports(ex)
<1>1. PortOf[s] \in Ports \cup {AutoPort}
  BY DeploymentsAssumption
<1>2. PICK taken : taken = db_reserved_ports(ex)
  OBVIOUS
<1>3. Lowest(taken) = 0 \/ (Lowest(taken) \in Ports /\ Lowest(taken) \notin taken)
  BY LowestFree
<1> QED BY <1>1, <1>2, <1>3 DEF prepare_spec_port

(* The port that preflight accepts is no other deployment's.               *)
LEMMA PreflightFree ==
    ASSUME NEW s \in Specs, NEW ex, preflight(s, ex) # 0
    PROVE  preflight(s, ex) \in Ports /\ preflight(s, ex) \notin db_reserved_ports(ex)
<1>1. PICK p : p = prepare_spec_port(s, ex)
  OBVIOUS
<1>2. PICK taken : taken = db_reserved_ports(ex)
  OBVIOUS
<1>3. PICK all : all = deployment_reserved_ports(ex)
  OBVIOUS
<1>4. p = 0 \/ (p \in Ports /\ p \notin taken)
  BY <1>1, <1>2, PrepareFree
<1>5. taken \subseteq all
  BY <1>2, <1>3 DEF deployment_reserved_ports
<1>6. CASE p \notin all
  BY <1>1, <1>2, <1>3, <1>4, <1>6 DEF preflight
<1>7. CASE p \in all
  <2>1. Lowest(all) = 0 \/ (Lowest(all) \in Ports /\ Lowest(all) \notin all)
    BY LowestFree
  <2> QED BY <1>1, <1>2, <1>3, <1>5, <1>7, <2>1 DEF preflight, allocate_deployment_port
<1> QED BY <1>6, <1>7

(***************************************************************************)
(* What the steps leave as it was.                                         *)
(***************************************************************************)
(* Two states of one container: only name, state and drift may differ.     *)
Alike(b, c) ==
    /\ b.man <=> c.man
    /\ b.port = c.port /\ b.dep = c.dep /\ b.task = c.task /\ b.spec = c.spec
    /\ b.repl = c.repl

(* Two states of one row: its binding, port and specification are kept.    *)
Same(r, q) ==
    /\ (r.man <=> q.man) /\ (r.contract <=> q.contract)
    /\ r.cid = q.cid /\ r.cname = q.cname /\ r.port = q.port /\ r.spec = q.spec

(* Containers keep their labels; at most one is new.                       *)
BoxStep ==
    /\ made' \in {made, made + 1} /\ gone \subseteq gone'
    /\ \A c \in There' : \/ c \in There /\ Alike(box[c], box'[c])
                         \/ c = made + 1 /\ made' = made + 1

(* A container that changes its name gets one its row may have.            *)
Renames ==
    \A c \in There \cap There' :
       box'[c].name = box[c].name
         \/ /\ box[c].man /\ box'[c].name \notin {Foreign, <<>>}
            /\ \A d \in Live, e \in Deps :
                 rows[d].spec # NoSpec /\ rows[d].cid = c
                   /\ box'[c].name = backup_container_name(e) => e = d

Distinct == \A c, e \in There : c # e => box[c].name # box[e].name

(* No row with a specification loses its container.                        *)
Loses == \A c \in There \ There' : Spare(c) \/ c \in gone'

(* No row appears, and those that stay keep their binding.                 *)
RowStep ==
    /\ \A d \in Deps : rows[d] # NoRow => rows'[d] # NoRow
    /\ Live' \subseteq Live /\ \A d \in Live' : Same(rows[d], rows'[d])

(* The weaker condition that commits keep as well.                         *)
ManStep ==
    \A d \in Deps : rows[d] # NoRow =>
       rows'[d] # NoRow /\ (d \in Live' => d \in Live /\ (rows'[d].man <=> rows[d].man))

(* A task that was created keeps its kind.                                 *)
TaskStep == \A t \in Tasks : tasks[t].st # "none" => tasks'[t].kind = tasks[t].kind

(* No row is marked that was not, or for another container.                *)
MarkStep ==
    \A d \in Live' : rows'[d].man /\ rows'[d].status \in Transient =>
       /\ d \in Live /\ rows[d].man /\ rows[d].status \in Transient
       /\ rows'[d].cid = rows[d].cid /\ rows'[d].cname = rows[d].cname

(* The types of what a live row and a container refer to.                  *)
LEMMA Types ==
    ASSUME TypeOK
    PROVE  /\ \A d \in Live : d \in Deps /\ rows[d] \in Row
           /\ \A c \in There : c \in Boxes /\ box[c] \in Box
           /\ \A t \in Tasks : tasks[t] \in Task
           /\ \A d \in Deps : rows[d] \in Row => d \in Live
  BY Absent DEF TypeOK, Live, There

(* A row may point to another container that was made before.              *)
LEMMA BoundKept ==
    ASSUME IInv, TypeOK', BoxStep, NEW r \in Row, NEW d, Bound(r, d)
    PROVE  Bound(r, d)'
<1>1. r.cid \in Boxes \cup {0} /\ made \in Nat /\ r.cid <= made
  BY DEF Row, Bound, IInv, TypeOK
<1>2. r.cid <= made' /\ made' \in Nat /\ made <= made'
  BY <1>1 DEF BoxStep, Boxes
<1>3. r.cid \in There' => r.cid \in There /\ Alike(box[r.cid], box'[r.cid])
  BY <1>1 DEF BoxStep, Boxes
<1> QED BY <1>1, <1>2, <1>3 DEF Bound, Alike

(* The containers and what a running scan will write.                      *)
LEMMA FrameBox ==
    ASSUME IInv, TypeOK', ManStep, BoxStep, Renames, Distinct', TaskStep,
           \A c \in There' \ There : BoxOK(c)'
    PROVE  BoxInv'
<1> SUFFICES ASSUME NEW c \in There', c \in There PROVE BoxOK(c)'
  BY DEF BoxInv
<1>1. /\ box[c] \in Box /\ box'[c] \in Box /\ c \in Boxes /\ made \in Nat /\ BoxOK(c)
      /\ made' \in Nat /\ made <= made'
  BY Types DEF IInv, BoxInv, TypeOK, There, BoxStep
<1>2. Alike(box[c], box'[c])
  BY <1>1 DEF BoxStep, BoxOK
<1>3. /\ c <= made' /\ box'[c].repl # c
      /\ \A e \in There' \ {c} : box'[e].name # box'[c].name
  BY <1>1, <1>2 DEF BoxOK, Alike, Distinct, Boxes
<1>4. box'[c].man <=> box'[c].name \notin {Foreign, <<>>}
  BY <1>1, <1>2 DEF BoxOK, Alike, Renames
<1>5. /\ ~ box'[c].man => box'[c].dep = NoDep /\ box'[c].repl = 0
      /\ box'[c].spec # NoSpec => box'[c].spec.port = box'[c].port
  BY <1>1, <1>2 DEF BoxOK, Alike
<1>6. box'[c].dep # NoDep => /\ rows'[box'[c].dep] # NoRow
                             /\ box'[c].dep \in Live' => rows'[box'[c].dep].man
  BY <1>1, <1>2 DEF BoxOK, Alike, ManStep, Box
<1>7. box'[c].task # 0 => /\ tasks'[box'[c].task].kind \in {"create", "update"}
                          /\ tasks'[box'[c].task].kind = "create" => box'[c].dep = NoDep
  <2>1. box[c].task # 0 => box[c].task \in Tasks /\ tasks[box[c].task].st # "none"
    BY <1>1 DEF BoxOK, Box, IInv, TaskInv, TaskOK
  <2> QED BY <1>1, <1>2, <2>1 DEF BoxOK, Alike, TaskStep
<1> QED BY <1>3, <1>4, <1>5, <1>6, <1>7 DEF BoxOK

(* What a scan has read stays right while others commit.                   *)
LEMMA FrameScan ==
    ASSUME IInv, TypeOK', ManStep, BoxStep, scan' = scan
    PROVE  ScanOK'
<1>1. scan \in Scan
  BY DEF IInv, TypeOK
<1>2. ASSUME NEW x \in scan.upd PROVE UpdOK(x)'
  <2>1. UpdOK(x) /\ x.d \in Deps /\ x.now \in Row
    BY <1>1 DEF IInv, ScanOK, Scan
  <2>2. Bound(x.now, x.d) => Bound(x.now, x.d)'
    BY <2>1, BoundKept
  <2>3. rows'[x.d] # NoRow /\ (x.d \in Live' => (rows'[x.d].man <=> x.was.man))
    BY <2>1 DEF UpdOK, ManStep
  <2> QED BY <2>1, <2>2, <2>3 DEF UpdOK
<1>3. ASSUME NEW x \in scan.ins PROVE InsOK(x)'
  <2>1. InsOK(x) /\ x.now \in Row
    BY <1>1 DEF IInv, ScanOK, Scan
  <2>2. \A d \in Deps : Bound(x.now, d) => Bound(x.now, d)'
    BY <2>1, BoundKept
  <2> QED BY <2>1, <2>2 DEF InsOK
<1> QED BY <1>2, <1>3 DEF ScanOK

(* The rows.                                                               *)
LEMMA FrameRows ==
    ASSUME IInv, TypeOK', RowStep, BoxStep, Renames, Loses
    PROVE  RowInv' /\ CidsDiffer' /\ PortsDiffer'
<1>1. ASSUME NEW d \in Live' PROVE RowOK(d)'
  <2>1. /\ d \in Live /\ d \in Deps /\ rows[d] \in Row /\ rows'[d] \in Row
        /\ RowOK(d) /\ Same(rows[d], rows'[d])
    BY Types DEF IInv, RowInv, RowStep, TypeOK, Live
  <2>2. Bound(rows[d], d)'
    <3>1. PICK r : r = rows[d]
      OBVIOUS
    <3>2. Bound(r, d)'
      BY <2>1, <3>1, BoundKept DEF RowOK
    <3> QED BY <2>1, <3>1, <3>2 DEF Bound, Same
  <2>3. rows'[d].contract => rows'[d].spec # NoSpec
    BY <2>1 DEF RowOK, Same
  <2>4. ASSUME rows'[d].spec # NoSpec
        PROVE  /\ rows'[d].spec.port = rows'[d].port
               /\ rows'[d].cid \in There' \cup gone'
               /\ \A e \in Deps : rows'[d].cname = backup_container_name(e) => e = d
               /\ \A e \in Deps : rows'[d].cid \in There'
                     /\ box'[rows'[d].cid].name = backup_container_name(e) => e = d
    <3>1. PICK c : c = rows[d].cid
      OBVIOUS
    <3>2. /\ rows[d].spec # NoSpec /\ rows[d].spec.port = rows[d].port
          /\ c \in There \cup gone /\ rows'[d].cid = c
          /\ \A e \in Deps : rows[d].cname = backup_container_name(e) => e = d
          /\ \A e \in Deps : c \in There /\ box[c].name = backup_container_name(e) => e = d
      BY <2>1, <2>4, <3>1 DEF RowOK, Same
    <3>3. c \in There' \cup gone'
      BY <2>1, <3>1, <3>2 DEF Loses, Spare, BoxStep
    <3>4. c \in There' => c \in There
      <4>1. c <= made /\ made \in Nat /\ c \in Boxes \cup {0}
        BY <2>1, <3>1 DEF RowOK, Bound, Row, IInv, TypeOK
      <4> QED BY <4>1 DEF BoxStep, Boxes
    <3> QED BY <2>1, <3>1, <3>2, <3>3, <3>4 DEF Same, Renames
  <2> QED BY <2>2, <2>3, <2>4 DEF RowOK
<1>2. CidsDiffer' /\ PortsDiffer'
  BY DEF IInv, CidsDiffer, PortsDiffer, RowStep, Same
<1> QED BY <1>1, <1>2 DEF RowInv

(* A step that keeps labels and bindings.                                  *)
LEMMA Frame ==
    ASSUME IInv, TypeOK', RowStep, BoxStep, Renames, Distinct', Loses, TaskStep,
           \A c \in There' \ There : BoxOK(c)', scan' = scan
    PROVE  BoxInv' /\ RowInv' /\ CidsDiffer' /\ PortsDiffer' /\ ScanOK'
<1>1. ManStep
  BY DEF RowStep, ManStep, Same
<1> QED BY <1>1, FrameBox, FrameRows, FrameScan

(* Marks outlive a step that keeps their tasks.                            *)
LEMMA FrameMark ==
    ASSUME IInv, TypeOK', MarkStep,
           \A t \in Tasks, d \in Live' :
              /\ rows'[d].man /\ rows'[d].status \in Transient
              /\ tasks[t].kind = "action" /\ tasks[t].d = d
              /\ tasks[t].cid = rows'[d].cid /\ tasks[t].cname = rows'[d].cname
              /\ tasks[t].st \in {"queued", "running", "paused", "cancelled"}
              => /\ tasks'[t].kind = "action" /\ tasks'[t].d = d
                 /\ tasks'[t].cid = tasks[t].cid /\ tasks'[t].cname = tasks[t].cname
                 /\ tasks'[t].st \in {"queued", "running", "paused", "cancelled"}
    PROVE  MarkInv'
<1> SUFFICES ASSUME NEW d \in Live', rows'[d].man, rows'[d].status \in Transient
             PROVE  MarkOK(d)'
  BY DEF MarkInv, MarkOK
<1>1. /\ d \in Live /\ rows[d].man /\ rows[d].status \in Transient
      /\ rows'[d].cid = rows[d].cid /\ rows'[d].cname = rows[d].cname
  BY DEF MarkStep
<1>2. PICK t \in Tasks : /\ tasks[t].kind = "action" /\ tasks[t].d = d
                         /\ tasks[t].cid = rows[d].cid /\ tasks[t].cname = rows[d].cname
                         /\ tasks[t].st \in {"queued", "running", "paused", "cancelled"}
  BY <1>1 DEF IInv, MarkInv, MarkOK
<1>3. /\ tasks'[t].kind = "action" /\ tasks'[t].d = d
      /\ tasks'[t].cid = rows'[d].cid /\ tasks'[t].cname = rows'[d].cname
      /\ tasks'[t].st \in {"queued", "running", "paused", "cancelled"}
  BY <1>1, <1>2
<1> QED BY <1>3 DEF MarkOK

(***************************************************************************)
(* Where the handler is.                                                   *)
(***************************************************************************)
(* The handler is idle.                                                    *)
LEMMA AtIdle ==
    ASSUME h' = Idle, up' = "up" \/ scan' = NoScan
    PROVE  HandlerOK'
  BY InitialTypes DEF HandlerOK, BeginPc, CreatePc, UpdatePc, RecoverPc, ActionPc, RebuildPc

(* The handler is in a create.                                             *)
LEMMA AtCreate ==
    ASSUME up' = "up", h'.t \in Tasks, tasks'[h'.t].st = "running", h'.pc \in CreatePc,
           CreateInv'
    PROVE  HandlerOK'
  BY DEF HandlerOK, BeginPc, CreatePc, UpdatePc, RecoverPc, ActionPc, RebuildPc

(* The handler is in an update.                                            *)
LEMMA AtUpdate ==
    ASSUME up' = "up", h'.t \in Tasks, tasks'[h'.t].st = "running", h'.pc \in UpdatePc,
           UpdateInv'
    PROVE  HandlerOK'
  BY DEF HandlerOK, BeginPc, CreatePc, UpdatePc, RecoverPc, ActionPc, RebuildPc

(* The handler is in a recovery.                                           *)
LEMMA AtRecover ==
    ASSUME up' = "up", h'.t \in Tasks, tasks'[h'.t].st = "running", h'.pc \in RecoverPc,
           RecoverInv'
    PROVE  HandlerOK'
  BY DEF HandlerOK, BeginPc, CreatePc, UpdatePc, RecoverPc, ActionPc, RebuildPc

(* The handler is in an action.                                            *)
LEMMA AtAction ==
    ASSUME up' = "up", h'.t \in Tasks, tasks'[h'.t].st = "running", h'.pc \in ActionPc,
           ActionInv'
    PROVE  HandlerOK'
  BY DEF HandlerOK, BeginPc, CreatePc, UpdatePc, RecoverPc, ActionPc, RebuildPc

(* The handler is in a rebuild.                                            *)
LEMMA AtRebuild ==
    ASSUME up' = "up", h'.t \in Tasks, tasks'[h'.t].st = "running", h'.pc \in RebuildPc,
           ActionInv', RebuildInv'
    PROVE  HandlerOK'
  BY DEF HandlerOK, BeginPc, CreatePc, UpdatePc, RecoverPc, ActionPc, RebuildPc

(* The handler is past the commit of a create or an update.                *)
LEMMA AtBench ==
    ASSUME up' = "up", h'.t \in Tasks, tasks'[h'.t].st = "running",
           h'.pc \in {"bench", "bench_end", "u_drop"},
           tasks'[h'.t].kind \in {"create", "update"}, h'.d \in Deps,
           h'.pc = "u_drop" => Spare(h.cid)'
    PROVE  HandlerOK'
  BY DEF HandlerOK, BeginPc, CreatePc, UpdatePc, RecoverPc, ActionPc, RebuildPc

(* What is known of the task of a running handler.                         *)
LEMMA Running1 ==
    ASSUME IInv, h.pc # "idle"
    PROVE  /\ up = "up" /\ h.t \in Tasks /\ tasks[h.t] \in Task /\ h \in Handler
           /\ tasks[h.t].st = "running" /\ TaskOK(h.t) /\ tasks[h.t].kind # "none"
<1>1. up = "up" /\ h.t \in Tasks /\ tasks[h.t].st = "running"
  BY InitialTypes DEF IInv, HandlerOK
<1> QED BY <1>1 DEF IInv, TypeOK, TaskInv, TaskOK

(* The handler's task ends.                                                *)
LEMMA Finished ==
    ASSUME IInv, h.pc # "idle", NEW st \in {"failed", "succeeded", "cancelled", "paused"},
           Finish(st), up' = up
    PROVE  /\ tasks' \in [Tasks -> Task] /\ h' \in Handler
           /\ TaskStep /\ TaskInv' /\ HandlerOK'
           /\ \A t \in Tasks : t # h.t => tasks'[t] = tasks[t]
           /\ tasks'[h.t].kind = tasks[h.t].kind /\ tasks'[h.t].d = tasks[h.t].d
           /\ tasks'[h.t].cid = tasks[h.t].cid /\ tasks'[h.t].cname = tasks[h.t].cname
           /\ tasks'[h.t].st = st
<1>1. h.t \in Tasks /\ tasks[h.t] \in Task /\ tasks[h.t].st = "running" /\ TaskOK(h.t)
      /\ up = "up"
  BY Running1
<1>2. PICK new : new = [tasks[h.t] EXCEPT !.st = st, !.ctl = "none"]
  OBVIOUS
<1>3. tasks \in [Tasks -> Task]
  BY DEF IInv, TypeOK
<1>4. tasks' = [tasks EXCEPT ![h.t] = new]
  BY <1>1, <1>2, <1>3 DEF Finish, Task
<1>5. /\ new \in Task /\ new.st = st /\ new.kind = tasks[h.t].kind /\ new.d = tasks[h.t].d
      /\ new.cid = tasks[h.t].cid /\ new.cname = tasks[h.t].cname /\ new.s = tasks[h.t].s
      /\ new.act = tasks[h.t].act
  BY <1>1, <1>2 DEF Task, TaskStatus
<1>6. tasks' \in [Tasks -> Task] /\ tasks'[h.t] = new
      /\ \A t \in Tasks : t # h.t => tasks'[t] = tasks[t]
  BY <1>1, <1>3, <1>4, <1>5
<1>7. TaskStep
  BY <1>5, <1>6 DEF TaskStep
<1>8. TaskInv'
  <2> SUFFICES ASSUME NEW t \in Tasks PROVE TaskOK(t)'
    BY DEF TaskInv
  <2>1. CASE t = h.t
    BY <1>1, <1>5, <1>6, <2>1 DEF TaskOK
  <2>2. CASE t # h.t
    BY <1>6, <2>2 DEF TaskOK, IInv, TaskInv
  <2> QED BY <2>1, <2>2
<1>9. h' \in Handler /\ HandlerOK'
  BY <1>1, AtIdle, InitialTypes DEF Finish
<1> QED BY <1>5, <1>6, <1>7, <1>8, <1>9

(* Nothing depends on a handler that ends, but the mark of an action.      *)
LEMMA FinishedMark ==
    ASSUME IInv, h.pc # "idle", NEW st \in {"failed", "succeeded", "cancelled", "paused"},
           Finish(st), up' = up, TypeOK', MarkStep,
           \/ tasks[h.t].kind # "action"
           \/ st \in {"cancelled", "paused"}
           \/ \A d \in Live' : /\ d = tasks[h.t].d
                               /\ rows'[d].man /\ rows'[d].status \in Transient
                               => \/ rows'[d].cid # tasks[h.t].cid
                                  \/ rows'[d].cname # tasks[h.t].cname
    PROVE  MarkInv'
<1>1. /\ \A t \in Tasks : t # h.t => tasks'[t] = tasks[t]
      /\ tasks'[h.t].kind = tasks[h.t].kind /\ tasks'[h.t].d = tasks[h.t].d
      /\ tasks'[h.t].cid = tasks[h.t].cid /\ tasks'[h.t].cname = tasks[h.t].cname
      /\ tasks'[h.t].st = st
  BY Finished
<1>2. \A t \in Tasks, d \in Live' :
              /\ rows'[d].man /\ rows'[d].status \in Transient
              /\ tasks[t].kind = "action" /\ tasks[t].d = d
              /\ tasks[t].cid = rows'[d].cid /\ tasks[t].cname = rows'[d].cname
              /\ tasks[t].st \in {"queued", "running", "paused", "cancelled"}
              => /\ tasks'[t].kind = "action" /\ tasks'[t].d = d
                 /\ tasks'[t].cid = tasks[t].cid /\ tasks'[t].cname = tasks[t].cname
                 /\ tasks'[t].st \in {"queued", "running", "paused", "cancelled"}
  BY <1>1
<1> QED BY <1>2, FrameMark

(* Nothing but the tasks and the handler changes.                          *)
Quiet == UNCHANGED <<rows, box, made, gone, scan>>

(* What such a step leaves as it was.                                      *)
LEMMA QuietFrame ==
    ASSUME IInv, TypeOK', Quiet, TaskStep
    PROVE  /\ BoxInv' /\ RowInv' /\ CidsDiffer' /\ PortsDiffer' /\ ScanOK'
           /\ MarkStep /\ There' = There /\ Live' = Live
<1>1. There' = There /\ Live' = Live /\ MarkStep
  BY DEF Quiet, There, Live, MarkStep
<1>2. RowStep /\ BoxStep /\ Renames /\ Loses
  BY <1>1 DEF Quiet, RowStep, Same, BoxStep, Alike, Renames, Loses
<1>3. Distinct'
  BY <1>1 DEF Quiet, Distinct, IInv, BoxInv, BoxOK
<1> QED BY <1>1, <1>2, <1>3, Frame DEF Quiet

(* A handler that ends without having changed anything.                    *)
LEMMA Ends ==
    ASSUME IInv, h.pc # "idle", NEW st \in {"failed", "succeeded", "cancelled", "paused"},
           Finish(st), Quiet, up' = up,
           \/ tasks[h.t].kind # "action"
           \/ st \in {"cancelled", "paused"}
           \/ \A d \in Live : /\ d = tasks[h.t].d
                              /\ rows[d].man /\ rows[d].status \in Transient
                              => \/ rows[d].cid # tasks[h.t].cid
                                 \/ rows[d].cname # tasks[h.t].cname
    PROVE  IInv'
<1>1. /\ tasks' \in [Tasks -> Task] /\ h' \in Handler
      /\ TaskStep /\ TaskInv' /\ HandlerOK'
  BY Finished
<1>2. TypeOK'
  BY <1>1 DEF IInv, TypeOK, Quiet
<1>3. /\ BoxInv' /\ RowInv' /\ CidsDiffer' /\ PortsDiffer' /\ ScanOK'
      /\ MarkStep /\ There' = There /\ Live' = Live
  BY <1>1, <1>2, QuietFrame
<1>4. \/ tasks[h.t].kind # "action"
      \/ st \in {"cancelled", "paused"}
      \/ \A d \in Live' : /\ d = tasks[h.t].d
                          /\ rows'[d].man /\ rows'[d].status \in Transient
                          => \/ rows'[d].cid # tasks[h.t].cid
                             \/ rows'[d].cname # tasks[h.t].cname
  BY <1>3 DEF Quiet
<1>5. MarkInv'
  BY <1>2, <1>3, <1>4, FinishedMark
<1> QED BY <1>1, <1>2, <1>3, <1>5 DEF IInv

(* A handler that goes on without having changed anything.                 *)
LEMMA Moves ==
    ASSUME IInv, Quiet, up' = up, tasks' = tasks, h' \in Handler, HandlerOK'
    PROVE  IInv'
<1>1. TypeOK' /\ TaskStep
  BY DEF IInv, TypeOK, Quiet, TaskStep
<1>2. /\ BoxInv' /\ RowInv' /\ CidsDiffer' /\ PortsDiffer' /\ ScanOK'
      /\ MarkStep /\ There' = There /\ Live' = Live
  BY <1>1, QuietFrame
<1>3. MarkInv' /\ TaskInv'
  BY <1>2 DEF IInv, MarkInv, MarkOK, Quiet, TaskInv, TaskOK
<1> QED BY <1>1, <1>2, <1>3 DEF IInv

(***************************************************************************)
(* What Docker's calls do.                                                 *)
(***************************************************************************)
Docker ==
    /\ box' \in [Boxes -> Box \cup {NoBox}] /\ made' \in 0 .. MaxBoxes
    /\ BoxStep /\ Renames /\ Distinct' /\ Loses
Stays(c) == c \in There' /\ box'[c].name = box[c].name /\ Alike(box[c], box'[c])

(* Nothing happens.                                                        *)
LEMMA NoneStep ==
    ASSUME IInv, box' = box, made' = made, gone' = gone
    PROVE  Docker /\ There' = There /\ \A x \in There : Stays(x)
<1>1. There' = There
  BY DEF There
<1>2. box' \in [Boxes -> Box \cup {NoBox}] /\ made' \in 0 .. MaxBoxes
  BY DEF IInv, TypeOK
<1>3. \A x \in There : Stays(x)
  BY <1>1 DEF Stays, Alike
<1>4. BoxStep /\ Renames /\ Loses
  BY <1>1 DEF BoxStep, Alike, Renames, Loses
<1>5. Distinct'
  BY <1>1 DEF Distinct, IInv, BoxInv, BoxOK
<1> QED BY <1>1, <1>2, <1>3, <1>4, <1>5 DEF Docker

(* A container is started or stopped.                                      *)
LEMMA RunningStep ==
    ASSUME IInv, NEW c \in There, NEW r \in BOOLEAN, box' = Running(box, c, r),
           made' = made, gone' = gone
    PROVE  Docker /\ There' = There /\ \A x \in There : Stays(x)
<1>1. box \in [Boxes -> Box \cup {NoBox}] /\ c \in Boxes /\ box[c] \in Box /\ made \in 0 .. MaxBoxes
  BY Types DEF IInv, TypeOK
<1>2. PICK b : b = [box[c] EXCEPT !.run = r]
  OBVIOUS
<1>3. b \in Box /\ b.name = box[c].name /\ Alike(box[c], b)
  BY <1>1, <1>2 DEF Box, Alike
<1>4. box' = [box EXCEPT ![c] = b]
  BY <1>1, <1>2 DEF Running
<1>5. box' \in [Boxes -> Box \cup {NoBox}] /\ box'[c] = b
      /\ \A x \in Boxes : x # c => box'[x] = box[x]
  BY <1>1, <1>3, <1>4
<1>6. There' = There
  BY <1>3, <1>5, Absent DEF There
<1>7. \A x \in There : Stays(x)
  BY <1>3, <1>5, <1>6 DEF Stays, Alike, There
<1>8. BoxStep /\ Renames /\ Loses
  BY <1>6, <1>7 DEF BoxStep, Stays, Renames, Loses
<1>9. Distinct'
  BY <1>6, <1>7 DEF Distinct, Stays, IInv, BoxInv, BoxOK
<1> QED BY <1>1, <1>5, <1>6, <1>7, <1>8, <1>9 DEF Docker

(* A container gets another name.                                          *)
LEMMA RenameStep ==
    ASSUME IInv, NEW c \in There, NEW n \in ContainerName \ {Foreign, <<>>}, box' = Rename(c, n),
           made' = made, gone' = gone, box[c].man,
           \A x \in There \ {c} : box[x].name # n,
           \A d \in Live, e \in Deps : rows[d].spec # NoSpec /\ rows[d].cid = c
                                         /\ n = backup_container_name(e) => e = d
    PROVE  /\ Docker /\ There' = There /\ \A x \in There \ {c} : Stays(x)
           /\ box'[c].name = n /\ Alike(box[c], box'[c])
<1>1. box \in [Boxes -> Box \cup {NoBox}] /\ c \in Boxes /\ box[c] \in Box /\ made \in 0 .. MaxBoxes
  BY Types DEF IInv, TypeOK
<1>2. PICK b : b = [box[c] EXCEPT !.name = n]
  OBVIOUS
<1>3. b \in Box /\ b.name = n /\ Alike(box[c], b)
  BY <1>1, <1>2 DEF Box, Alike
<1>4. box' = [box EXCEPT ![c] = b]
  BY <1>1, <1>2 DEF Rename
<1>5. box' \in [Boxes -> Box \cup {NoBox}] /\ box'[c] = b
      /\ \A x \in Boxes : x # c => box'[x] = box[x]
  BY <1>1, <1>3, <1>4
<1>6. There' = There
  BY <1>3, <1>5, Absent DEF There
<1>7. \A x \in There \ {c} : Stays(x)
  BY <1>3, <1>5, <1>6 DEF Stays, Alike, There
<1>8. BoxStep /\ Renames /\ Loses
  BY <1>3, <1>5, <1>6, <1>7 DEF BoxStep, Stays, Renames, Loses
<1>9. Distinct'
  BY <1>3, <1>5, <1>6, <1>7 DEF Distinct, Stays, IInv, BoxInv, BoxOK
<1> QED BY <1>1, <1>3, <1>5, <1>6, <1>7, <1>8, <1>9 DEF Docker

(* A container is removed.                                                 *)
LEMMA RemoveStep ==
    ASSUME IInv, NEW c \in Boxes, box' = Remove(box, c), made' = made, gone \subseteq gone',
           Spare(c) \/ c \in gone'
    PROVE  Docker /\ There' = There \ {c} /\ \A x \in There \ {c} : Stays(x)
<1>1. box \in [Boxes -> Box \cup {NoBox}] /\ made \in 0 .. MaxBoxes
  BY DEF IInv, TypeOK
<1>2. box' \in [Boxes -> Box \cup {NoBox}] /\ box'[c] = NoBox
      /\ \A x \in Boxes : x # c => box'[x] = box[x]
  BY <1>1 DEF Remove
<1>3. There' = There \ {c}
  BY <1>2 DEF There
<1>4. \A x \in There \ {c} : Stays(x)
  BY <1>2, <1>3 DEF Stays, Alike, There
<1>5. BoxStep /\ Renames /\ Loses
  BY <1>3, <1>4 DEF BoxStep, Stays, Renames, Loses
<1>6. Distinct'
  BY <1>3, <1>4 DEF Distinct, Stays, IInv, BoxInv, BoxOK
<1> QED BY <1>1, <1>2, <1>3, <1>4, <1>5, <1>6 DEF Docker

(* A container is created.                                                 *)
LEMMA NewStep ==
    ASSUME IInv, NEW new \in Box, made < MaxBoxes, Named(new.name) = {},
           box' = [box EXCEPT ![made + 1] = new], made' = made + 1, gone' = gone
    PROVE  /\ Docker /\ There' = There \cup {made + 1} /\ \A x \in There : Stays(x)
           /\ box'[made + 1] = new /\ made + 1 \notin There /\ made + 1 \in Boxes
           /\ Spare(made + 1)
<1>1. box \in [Boxes -> Box \cup {NoBox}] /\ made \in 0 .. MaxBoxes /\ MaxBoxes \in Nat
  BY Absent DEF IInv, TypeOK
<1>2. made + 1 \in Boxes
  BY <1>1 DEF Boxes
<1>3. made + 1 \notin There
  BY <1>1 DEF IInv, BoxInv, BoxOK
<1>4. box' \in [Boxes -> Box \cup {NoBox}] /\ box'[made + 1] = new
      /\ \A x \in Boxes : x # made + 1 => box'[x] = box[x]
  BY <1>1, <1>2
<1>5. There' = There \cup {made + 1}
  BY <1>2, <1>3, <1>4, Absent DEF There
<1>6. \A x \in There : Stays(x)
  BY <1>3, <1>4, <1>5 DEF Stays, Alike, There
<1>7. BoxStep /\ Renames /\ Loses
  BY <1>3, <1>4, <1>5, <1>6 DEF BoxStep, Stays, Renames, Loses
<1>8. Distinct'
  <2>1. \A x \in There : box'[x].name = box[x].name /\ box[x].name # new.name
    BY <1>6 DEF Stays, Named
  <2> QED BY <1>4, <1>5, <2>1 DEF Distinct, IInv, BoxInv, BoxOK
<1>9. Spare(made + 1)
  <2>1. \A d \in Live : rows[d].cid <= made /\ rows[d].cid \in Boxes \cup {0}
    BY Types DEF IInv, RowInv, RowOK, Bound, Row
  <2> QED BY <1>1, <2>1 DEF Spare, Boxes
<1>10. made' \in 0 .. MaxBoxes
  BY <1>1
<1> QED BY <1>2, <1>3, <1>4, <1>5, <1>6, <1>7, <1>8, <1>9, <1>10 DEF Docker

(* A step of the handler that changes containers, or none.                 *)
LEMMA DockerMoves ==
    ASSUME IInv, Docker, rows' = rows, tasks' = tasks, scan' = scan, up' = up,
           h' \in Handler, HandlerOK', \A c \in There' \ There : BoxOK(c)'
    PROVE  IInv'
<1>1. TypeOK' /\ TaskStep
  BY DEF IInv, TypeOK, TaskStep, Docker
<1>2. RowStep /\ MarkStep /\ Live' = Live
  BY DEF RowStep, Same, MarkStep, Live
<1>3. BoxInv' /\ RowInv' /\ CidsDiffer' /\ PortsDiffer' /\ ScanOK'
  BY <1>1, <1>2, Frame DEF Docker
<1>4. MarkInv' /\ TaskInv'
  BY <1>2 DEF IInv, MarkInv, MarkOK, TaskInv, TaskOK
<1> QED BY <1>1, <1>3, <1>4 DEF IInv

(* The last step of a handler, which may change containers and marks.      *)
LEMMA DockerEnds ==
    ASSUME IInv, h.pc # "idle", NEW st \in {"failed", "succeeded", "cancelled", "paused"},
           Finish(st), Docker, There' \subseteq There, RowStep, MarkStep,
           rows' \in [Deps -> Row \cup {NoRow, OldRow}], scan' = scan, up' = up,
           \/ tasks[h.t].kind # "action"
           \/ st \in {"cancelled", "paused"}
           \/ \A d \in Live' : /\ d = tasks[h.t].d
                               /\ rows'[d].man /\ rows'[d].status \in Transient
                               => \/ rows'[d].cid # tasks[h.t].cid
                                  \/ rows'[d].cname # tasks[h.t].cname
    PROVE  IInv'
<1>1. /\ tasks' \in [Tasks -> Task] /\ h' \in Handler
      /\ TaskStep /\ TaskInv' /\ HandlerOK'
  BY Finished
<1>2. TypeOK'
  BY <1>1 DEF IInv, TypeOK, Docker
<1>3. BoxInv' /\ RowInv' /\ CidsDiffer' /\ PortsDiffer' /\ ScanOK'
  BY <1>1, <1>2, Frame DEF Docker
<1>4. MarkInv'
  BY <1>2, FinishedMark
<1> QED BY <1>1, <1>2, <1>3, <1>4 DEF IInv

(* A row is written that is bound and not marked.                          *)
LEMMA RowCommit ==
    ASSUME IInv, NEW d \in Deps, NEW r \in Row, rows' = [rows EXCEPT ![d] = r],
           UNCHANGED <<box, made, gone, scan, up, tasks>>, h' \in Handler, HandlerOK',
           r.man, d \in Live => rows[d].man, rows[d] # OldRow,
           r.status \notin Transient, RowOK(d)',
           \A e \in Live \ {d} : rows[e].cid # r.cid,
           r.spec # NoSpec =>
             \A e \in Live \ {d} : rows[e].spec # NoSpec => rows[e].port # r.port
    PROVE  IInv'
<1>1. rows \in [Deps -> Row \cup {NoRow, OldRow}]
  BY DEF IInv, TypeOK
<1>2. /\ rows' \in [Deps -> Row \cup {NoRow, OldRow}] /\ rows'[d] = r
      /\ \A e \in Deps : e # d => rows'[e] = rows[e]
  BY <1>1
<1>3. TypeOK' /\ TaskStep
  BY <1>2 DEF IInv, TypeOK, TaskStep
<1>4. Live' = Live \cup {d}
  BY <1>2, Absent DEF Live
<1>5. ManStep
  BY <1>1, <1>2, <1>4, Absent DEF ManStep, Live
<1>6. Docker /\ There' = There /\ \A x \in There : Stays(x)
  BY NoneStep
<1>7. BoxInv' /\ ScanOK'
  BY <1>3, <1>5, <1>6, FrameBox, FrameScan DEF Docker
<1>8. RowInv'
  <2> SUFFICES ASSUME NEW e \in Live' PROVE RowOK(e)'
    BY DEF RowInv
  <2>1. CASE e = d
    BY <2>1
  <2>2. CASE e # d
    <3>1. e \in Live /\ rows'[e] = rows[e] /\ RowOK(e)
      BY <1>2, <1>4, <2>2 DEF IInv, RowInv, Live
    <3> QED BY <1>6, <3>1 DEF RowOK, Bound
  <2> QED BY <2>1, <2>2
<1>9. CidsDiffer' /\ PortsDiffer'
  BY <1>2, <1>4, Types DEF IInv, CidsDiffer, PortsDiffer, Live
<1>10. MarkInv' /\ TaskInv'
  <2>1. MarkInv'
    BY <1>2, <1>4 DEF IInv, MarkInv, MarkOK, Live
  <2> QED BY <2>1 DEF IInv, TaskInv, TaskOK
<1> QED BY <1>3, <1>7, <1>8, <1>9, <1>10 DEF IInv

(***************************************************************************)
(* Steps of the handlers.                                                  *)
(***************************************************************************)
Moved(pc) ==
    /\ h' \in Handler /\ h'.pc = pc /\ h'.t = h.t /\ h'.d = h.d /\ h'.sp = h.sp
    /\ h'.orig = h.orig /\ h'.cid = h.cid /\ h'.new = h.new /\ (h'.own <=> h.own)

(* The steps of the handlers.                                              *)
LEMMA Steps ==
    /\ {"idle", "bench", "bench_end", "u_drop", "b_drop"} \subseteq Pc
    /\ {"create", "update", "action"} \subseteq Pc
    /\ {"c_get", "c_wait", "c_save", "c_undo"} \subseteq Pc
    /\ {"u_get", "u_stop", "u_name", "u_run", "u_wait", "u_save", "u_back"} \subseteq Pc
    /\ {"v_start", "v_wait", "v_sync", "v_drop", "v_stop"} \subseteq Pc
    /\ {"a_get", "a_do", "a_wait", "a_end", "a_fail", "a_stale"} \subseteq Pc
    /\ {"b_stop", "b_name", "b_run", "b_wait", "b_save", "b_back"} \subseteq Pc
  BY DEF Pc, BeginPc, CreatePc, UpdatePc, RecoverPc, ActionPc, RebuildPc

(* Goto, Raise and Stopped change the step and the result alone.           *)
LEMMA MovedBy ==
    ASSUME h \in Handler, NEW pc \in Pc, NEW r \in {"failed", "cancelled", "paused"},
           \/ Goto(pc)
           \/ Raise(pc)
           \/ h' = [h EXCEPT !.pc = pc, !.res = r]
    PROVE  Moved(pc)
<1>1. CASE Goto(pc)
  BY <1>1 DEF Goto, Moved, Handler
<1>2. CASE Raise(pc)
  BY <1>2 DEF Raise, Moved, Handler
<1>3. CASE h' = [h EXCEPT !.pc = pc, !.res = r]
  BY <1>3 DEF Moved, Handler
<1> QED BY <1>1, <1>2, <1>3

(* The steps a wait may lead to.                                           *)
LEMMA WaitMoves ==
    ASSUME h \in Handler, NEW port, NEW then \in Pc, NEW else \in Pc, Wait(port, then, else)
    PROVE  /\ Moved(then) \/ Moved(else)
           /\ UNCHANGED <<rows, box, made, gone, tasks>>
<1>1. PICK r \in wait_for_health(port) :
         IF r = "healthy" THEN Goto(then) /\ UNCHANGED tasks ELSE Stopped(else, r)
  BY DEF Wait
<1>2. r = "healthy" \/ r \in {"failed", "cancelled", "paused"}
  BY DEF wait_for_health
<1>3. Moved(then) \/ Moved(else)
  <2>1. CASE r = "healthy"
    BY <1>1, <2>1, MovedBy
  <2>2. CASE r # "healthy"
    BY <1>1, <1>2, <2>2, MovedBy DEF Stopped
  <2> QED BY <2>1, <2>2
<1>4. UNCHANGED <<rows, box, made, gone, tasks>>
  BY <1>1 DEF Wait, Stopped
<1> QED BY <1>3, <1>4

(* A handler that has just been claimed.                                   *)
LEMMA AtBegin ==
    ASSUME IInv, h.pc \in BeginPc
    PROVE  /\ h.pc = tasks[h.t].kind /\ h.new = 0 /\ ~ h.own /\ h.d = NoDep
           /\ tasks[h.t].kind \in {"create", "update"} => tasks[h.t].s \in Specs
           /\ tasks[h.t].kind = "action" => tasks[h.t].d \in Deps /\ tasks[h.t].act \in Action
           /\ h.pc # "idle"
<1>1. h.pc # "idle"
  BY DEF BeginPc
<1>2. h = [Idle EXCEPT !.t = h.t, !.pc = tasks[h.t].kind]
  BY DEF IInv, HandlerOK
<1>3. h.pc = tasks[h.t].kind /\ h.new = 0 /\ ~ h.own /\ h.d = NoDep
  BY <1>2 DEF Idle
<1> QED BY <1>1, <1>3, Running1 DEF TaskOK

(* A container the invariant allows to be created.                         *)
Sound(b) ==
    /\ b \in Box /\ b.man /\ b.name \notin {Foreign, <<>>} /\ b.repl # made + 1
    /\ b.spec # NoSpec => b.spec.port = b.port
    /\ b.dep # NoDep => b.dep \in Live /\ rows[b.dep].man
    /\ b.task # 0 => /\ tasks[b.task].kind \in {"create", "update"}
                     /\ tasks[b.task].kind = "create" => b.dep = NoDep

(* What containers.run leaves: the new container, with or without its      *)
(* object, or what there was.                                              *)
LEMMA RunEffect ==
    ASSUME IInv, h \in Handler, NEW new, Sound(new), NEW then \in Pc, NEW else \in Pc,
           Run(new, then, else), UNCHANGED <<rows, tasks, gone>>
    PROVE  /\ Docker /\ There \subseteq There' /\ \A x \in There : Stays(x)
           /\ \A c \in There' \ There : BoxOK(c)'
           /\ \/ /\ h' \in Handler /\ h'.pc = then /\ h'.t = h.t /\ h'.d = h.d /\ h'.sp = h.sp
                 /\ h'.orig = h.orig /\ h'.cid = h.cid /\ h'.new = made + 1 /\ h'.own
                 /\ made + 1 \in There' /\ made + 1 \notin There /\ Spare(made + 1)
                 /\ box'[made + 1] = new /\ made + 1 \in Boxes
              \/ Moved(else)
<1>1. new \in Box /\ made \in Nat
  BY DEF Sound, IInv, TypeOK
<1>2. ASSUME NEW b \in Box, b.name = new.name, Alike(new, b), made < MaxBoxes,
             Named(new.name) = {}, box' = [box EXCEPT ![made + 1] = b], made' = made + 1
      PROVE  /\ Docker /\ There \subseteq There' /\ \A x \in There : Stays(x)
             /\ \A c \in There' \ There : BoxOK(c)'
             /\ made + 1 \in There' /\ made + 1 \notin There /\ Spare(made + 1)
             /\ box'[made + 1] = b /\ made + 1 \in Boxes
  <2>1. /\ Docker /\ There' = There \cup {made + 1} /\ \A x \in There : Stays(x)
        /\ box'[made + 1] = b /\ made + 1 \notin There /\ made + 1 \in Boxes
        /\ Spare(made + 1)
    BY <1>2, NewStep
  <2>2. ASSUME NEW k, k = made + 1 PROVE BoxOK(k)'
    <3>1. k = made + 1
      BY <2>2
    <3>2. /\ b.man /\ b.name \notin {Foreign, <<>>} /\ b.repl # k /\ b.repl = new.repl
          /\ b.spec # NoSpec => b.spec.port = b.port
      BY <1>2, <3>1 DEF Sound, Alike
    <3>3. b.dep # NoDep => rows'[b.dep] # NoRow /\ (b.dep \in Live' => rows'[b.dep].man)
      BY <1>2 DEF Sound, Alike, Live
    <3>4. b.task # 0 => /\ tasks'[b.task].kind \in {"create", "update"}
                        /\ tasks'[b.task].kind = "create" => b.dep = NoDep
      BY <1>2 DEF Sound, Alike
    <3>5. \A e \in There' \ {k} : box'[e].name # b.name
      BY <2>1, <3>1 DEF Docker, Distinct
    <3>6. BoxOK(k)'
      BY <1>1, <1>2, <2>1, <3>1, <3>2, <3>3, <3>4, <3>5 DEF BoxOK
    <3> QED BY <3>6
  <2> QED BY <2>1, <2>2
<1>3. \/ /\ Named(new.name) = {} /\ made < MaxBoxes
         /\ box' = [box EXCEPT ![made + 1] = new] /\ made' = made + 1
         /\ h' = [h EXCEPT !.pc = then, !.new = made + 1, !.own = TRUE]
      \/ /\ Named(new.name) = {} /\ made < MaxBoxes
         /\ box' = [box EXCEPT ![made + 1] = [new EXCEPT !.run = FALSE]] /\ made' = made + 1
         /\ Raise(else)
      \/ UNCHANGED <<box, made>> /\ Raise(else)
  BY DEF Run
<1>4. CASE /\ Named(new.name) = {} /\ made < MaxBoxes
           /\ box' = [box EXCEPT ![made + 1] = new] /\ made' = made + 1
           /\ h' = [h EXCEPT !.pc = then, !.new = made + 1, !.own = TRUE]
  <2>1. Alike(new, new)
    BY DEF Alike
  <2>2. made + 1 \in Boxes
    BY <1>1, <1>2, <1>4, <2>1
  <2>3. /\ h' \in Handler /\ h'.pc = then /\ h'.t = h.t /\ h'.d = h.d /\ h'.sp = h.sp
        /\ h'.orig = h.orig /\ h'.cid = h.cid /\ h'.new = made + 1 /\ h'.own
    BY <1>4, <2>2 DEF Handler
  <2> QED BY <1>1, <1>2, <1>4, <2>1, <2>3
<1>5. CASE /\ Named(new.name) = {} /\ made < MaxBoxes
           /\ box' = [box EXCEPT ![made + 1] = [new EXCEPT !.run = FALSE]] /\ made' = made + 1
           /\ Raise(else)
  <2>1. PICK b : b = [new EXCEPT !.run = FALSE]
    OBVIOUS
  <2>2. b \in Box /\ b.name = new.name /\ Alike(new, b)
    BY <1>1, <2>1 DEF Box, Alike
  <2>3. Moved(else)
    BY <1>5, MovedBy
  <2> QED BY <1>2, <1>5, <2>1, <2>2, <2>3
<1>6. CASE UNCHANGED <<box, made>> /\ Raise(else)
  <2>1. Docker /\ There' = There /\ \A x \in There : Stays(x)
    BY <1>6, NoneStep
  <2>2. Moved(else)
    BY <1>6, MovedBy
  <2> QED BY <2>1, <2>2
<1> QED BY <1>3, <1>4, <1>5, <1>6

(***************************************************************************)
(* deployment.create                                                       *)
(***************************************************************************)
(* CreateBegin preserves the invariant.                                    *)
LEMMA CreateBeginInv == ASSUME IInv, CreateBegin PROVE IInv'
<1> DEFINE s == tasks[h.t].s
           m == Matches(s)
           spd(d) == Resolved(s, IF PortOf[s] = AutoPort THEN rows[d].port ELSE PortOf[s])
<1>1. /\ h.pc = "create" /\ up = "up" /\ h.pc \in BeginPc /\ h.pc # "idle"
      /\ UNCHANGED <<scan, up, calls, crashes>>
  BY DEF CreateBegin, Only, At, BeginPc
<1>2. /\ h \in Handler /\ h.t \in Tasks /\ tasks[h.t].st = "running" /\ s \in Specs
      /\ tasks[h.t].kind = "create" /\ h.new = 0 /\ ~ h.own /\ h.d = NoDep
  BY <1>1, Running1, AtBegin
<1>3. \/ \E d \in m :
            /\ deployment_matches_spec(rows[d], spd(d))
            /\ h' = [h EXCEPT !.pc = "v_start", !.d = d, !.sp = spd(d), !.cid = rows[d].cid,
                              !.orig = rows[d], !.own = FALSE]
            /\ UNCHANGED <<world, tasks>>
      \/ Fail
      \/ /\ m = {} /\ preflight(s, NoDep) # 0
         /\ h' = [h EXCEPT !.pc = "c_get", !.sp = Resolved(s, preflight(s, NoDep))]
         /\ UNCHANGED <<world, tasks>>
  BY DEF CreateBegin, Only
<1>4. CASE Fail
  BY <1>1, <1>2, <1>4, Ends DEF Fail, Quiet
<1>5. ASSUME NEW d \in m, deployment_matches_spec(rows[d], spd(d)),
             h' = [h EXCEPT !.pc = "v_start", !.d = d, !.sp = spd(d), !.cid = rows[d].cid,
                            !.orig = rows[d], !.own = FALSE],
             UNCHANGED <<world, tasks>>
      PROVE  IInv'
  <2>1. d \in Live /\ d \in Deps /\ rows[d] \in Row /\ rows[d].cid \in Boxes \cup {0}
        /\ rows[d].port \in Ports
    BY Types DEF Matches, IInv, Row
  <2>2. PortOf[s] \in Ports \cup {AutoPort}
    BY <1>2, DeploymentsAssumption
  <2>3. spd(d) \in Saved /\ spd(d) # NoSpec
    BY <1>2, <2>1, <2>2, ResolvedType
  <2>4. PICK sp \in Saved : sp = spd(d) /\ sp # NoSpec
    BY <2>3
  <2>5. /\ h' \in Handler /\ h'.pc = "v_start" /\ h'.t = h.t /\ h'.d = d /\ h'.orig = rows[d]
        /\ h'.cid = rows[d].cid
    <3>1. h' = [h EXCEPT !.pc = "v_start", !.d = d, !.sp = sp, !.cid = rows[d].cid,
                         !.orig = rows[d], !.own = FALSE]
      BY <1>5, <2>4
    <3> QED BY <1>2, <2>1, <2>4, <3>1, Steps, ZenonT(60) DEF Handler
  <2>6. rows[d].spec # NoSpec
    BY <1>5, <2>4 DEF deployment_matches_spec
  <2>7. RecoverInv'
    BY <1>2, <1>5, <2>1, <2>5, <2>6 DEF RecoverInv, world, Live
  <2>8. HandlerOK'
    BY <1>1, <1>2, <1>5, <2>5, <2>7, AtRecover DEF RecoverPc
  <2> QED BY <1>1, <1>5, <2>5, <2>8, Moves DEF Quiet, world
<1>6. ASSUME m = {}, preflight(s, NoDep) # 0,
             h' = [h EXCEPT !.pc = "c_get", !.sp = Resolved(s, preflight(s, NoDep))],
             UNCHANGED <<world, tasks>>
      PROVE  IInv'
  <2>1. PICK p : p = preflight(s, NoDep)
    OBVIOUS
  <2>2. p \in Ports /\ p \notin db_reserved_ports(NoDep)
    BY <1>2, <1>6, <2>1, PreflightFree
  <2>3. PICK sp \in Saved : sp = Resolved(s, p) /\ sp.port = p
    BY <1>2, <2>2, ResolvedType
  <2>4. /\ h' \in Handler /\ h'.pc = "c_get" /\ h'.t = h.t /\ h'.d = NoDep /\ h'.sp = sp
        /\ h'.new = 0 /\ ~ h'.own
    <3>1. h' = [h EXCEPT !.pc = "c_get", !.sp = sp]
      BY <1>6, <2>1, <2>3
    <3> QED BY <1>2, <2>3, <3>1, Steps DEF Handler
  <2>5. OwnPort'
    BY <1>6, <2>2, <2>3, <2>4 DEF OwnPort, db_reserved_ports, world, Live
  <2>6. CreateInv'
    BY <1>2, <1>6, <2>4, <2>5 DEF CreateInv
  <2>7. HandlerOK'
    BY <1>1, <1>2, <1>6, <2>4, <2>6, AtCreate DEF CreatePc
  <2> QED BY <1>1, <1>6, <2>4, <2>7, Moves DEF Quiet, world
<1> QED BY <1>3, <1>4, <1>5, <1>6

(* CreateContainer preserves the invariant.                                *)
LEMMA CreateContainerInv == ASSUME IInv, CreateContainer PROVE IInv'
<1>1. /\ h.pc = "c_get" /\ up = "up" /\ h.pc # "idle" /\ UNCHANGED <<scan, up>>
      /\ UNCHANGED <<rows, gone, tasks>>
  BY DEF CreateContainer, Only, At
<1>2. h \in Handler /\ h.t \in Tasks /\ tasks[h.t].st = "running" /\ 0 \notin Tasks
  BY <1>1, Running1, Absent
<1>3. CreateInv
  BY <1>1 DEF IInv, HandlerOK, CreatePc
<1>4. /\ tasks[h.t].kind = "create" /\ h.d = NoDep /\ h.sp \in Saved /\ OwnPort /\ ~ h.own
      /\ h.sp # NoSpec /\ h.sp.s \in Specs
  BY <1>1, <1>3, Absent DEF CreateInv, Saved
<1>5. Live' = Live
  BY <1>1 DEF Live
<1> DEFINE n == deterministic_container_name(NameOf[h.sp.s])
<1>6. CASE Named(n) = {}
  <2>1. Run(run_container(h.sp, h.t, NoDep, 0), "c_wait", "c_undo")
    BY <1>6 DEF CreateContainer, Only
  <2>2. PICK new : new = run_container(h.sp, h.t, NoDep, 0)
    OBVIOUS
  <2>3. /\ new \in Box /\ new.man /\ new.task = h.t /\ new.spec = h.sp /\ new.dep = NoDep
        /\ new.repl = 0 /\ new.port = h.sp.port /\ new.name = n
    <3>1. new \in Box
      BY <1>2, <1>4, <2>2, RunContainerType
    <3> QED BY <2>2, <3>1 DEF run_container
  <2>4. Sound(new)
    BY <1>2, <1>4, <2>3, Names DEF Sound, IInv, TypeOK
  <2>5. /\ Docker /\ There \subseteq There' /\ \A x \in There : Stays(x)
        /\ \A c \in There' \ There : BoxOK(c)'
        /\ \/ /\ h' \in Handler /\ h'.pc = "c_wait" /\ h'.t = h.t /\ h'.d = h.d /\ h'.sp = h.sp
              /\ h'.orig = h.orig /\ h'.cid = h.cid /\ h'.new = made + 1 /\ h'.own
              /\ made + 1 \in There' /\ made + 1 \notin There /\ Spare(made + 1)
              /\ box'[made + 1] = new /\ made + 1 \in Boxes
           \/ Moved("c_undo")
    BY <1>1, <1>2, <2>1, <2>2, <2>4, Steps, RunEffect
  <2>6. CASE Moved("c_undo")
    <3>1. CreateInv'
      BY <1>1, <1>4, <2>6 DEF CreateInv, Moved
    <3> QED BY <1>1, <1>2, <2>5, <2>6, <3>1, AtCreate, DockerMoves DEF Moved, CreatePc
  <2>7. CASE /\ h' \in Handler /\ h'.pc = "c_wait" /\ h'.t = h.t /\ h'.d = h.d /\ h'.sp = h.sp
             /\ h'.new = made + 1 /\ h'.own
             /\ made + 1 \in There' /\ Spare(made + 1) /\ box'[made + 1] = new
    <3>1. Waiting(h.sp.port, {NoDep})'
      BY <2>3, <2>7, Names DEF Waiting
    <3>2. OwnPort'
      BY <1>1, <1>4, <1>5, <2>7 DEF OwnPort
    <3>3. Spare(h.new)'
      BY <1>1, <1>5, <2>7 DEF Spare
    <3>4. CreateInv'
      BY <1>1, <1>4, <2>7, <3>1, <3>2, <3>3 DEF CreateInv
    <3> QED BY <1>1, <1>2, <2>5, <2>7, <3>4, AtCreate, DockerMoves DEF CreatePc
  <2> QED BY <2>5, <2>6, <2>7
<1>7. CASE Named(n) # {}
  <2>1. PICK c \in Named(n) : c = CHOOSE x \in Named(n) : TRUE
    BY <1>7
  <2>2. PICK ok \in BOOLEAN : ok <=> /\ validate_container_labels(c, h.t, h.sp, NoDep, 0)
                                     /\ box[c].run \/ PortFree(c)
    OBVIOUS
  <2>3. /\ IF ok THEN h' = [h EXCEPT !.pc = "c_wait", !.new = c] ELSE Raise("c_undo")
        /\ box' = IF ok THEN Running(box, c, TRUE) ELSE box
        /\ made' = made
    BY <1>7, <2>1, <2>2 DEF CreateContainer, Only
  <2>4. c \in There /\ c \in Boxes /\ box[c] \in Box /\ BoxOK(c) /\ box[c].name = n
    BY Types DEF Named, IInv, BoxInv
  <2>5. CASE ~ ok
    <3>1. Moved("c_undo")
      BY <1>2, <2>3, <2>5, Steps, MovedBy
    <3>2. CreateInv'
      BY <1>1, <1>4, <3>1 DEF CreateInv, Moved
    <3> QED BY <1>1, <1>2, <2>3, <2>5, <3>1, <3>2, AtCreate, Moves DEF Moved, CreatePc, Quiet
  <2>6. CASE ok
    <3>1. Docker /\ There' = There /\ \A x \in There : Stays(x)
      BY <1>1, <2>3, <2>4, <2>6, RunningStep
    <3>2. box[c].man /\ box[c].task = h.t /\ box[c].spec = h.sp
      BY <2>2, <2>6 DEF validate_container_labels
    <3>3. box[c].dep = NoDep /\ box[c].port = h.sp.port
      BY <1>2, <1>4, <2>4, <3>2 DEF BoxOK
    <3>4. /\ h' \in Handler /\ h'.pc = "c_wait" /\ h'.t = h.t /\ h'.d = h.d /\ h'.sp = h.sp
          /\ h'.new = c /\ ~ h'.own
      BY <1>2, <1>4, <2>3, <2>4, <2>6, Steps, ZenonT(60) DEF Handler
    <3>5. Waiting(h.sp.port, {NoDep})'
      BY <2>4, <3>1, <3>2, <3>3, <3>4, Names DEF Waiting, Stays, Alike
    <3>6. OwnPort'
      BY <1>1, <1>4, <1>5, <3>4 DEF OwnPort
    <3>7. CreateInv'
      BY <1>1, <1>4, <3>4, <3>5, <3>6 DEF CreateInv
    <3> QED BY <1>1, <1>2, <3>1, <3>4, <3>7, AtCreate, DockerMoves DEF CreatePc
  <2> QED BY <2>5, <2>6
<1> QED BY <1>6, <1>7

(* CreateWait preserves the invariant.                                     *)
LEMMA CreateWaitInv == ASSUME IInv, CreateWait PROVE IInv'
<1>1. /\ h.pc = "c_wait" /\ up = "up" /\ h.pc # "idle" /\ UNCHANGED <<scan, up>>
      /\ Wait(h.sp.port, "c_save", "c_undo")
  BY DEF CreateWait, Only, At
<1>2. h \in Handler /\ h.t \in Tasks /\ tasks[h.t].st = "running"
  BY <1>1, Running1
<1>3. CreateInv
  BY <1>1 DEF IInv, HandlerOK, CreatePc
<1>4. Moved("c_save") \/ Moved("c_undo")
  BY <1>1, <1>2, Steps, WaitMoves
<1>5. UNCHANGED <<rows, box, made, gone, tasks>>
  BY <1>1, <1>2, Steps, WaitMoves
<1>6. CreateInv'
  BY <1>1, <1>3, <1>4, <1>5 DEF CreateInv, Moved, OwnPort, Waiting, Spare, Live, There
<1> QED BY <1>1, <1>2, <1>4, <1>5, <1>6, AtCreate, Moves DEF Moved, CreatePc, Quiet

(* CreateCommit preserves the invariant.                                   *)
LEMMA CreateCommitInv == ASSUME IInv, CreateCommit PROVE IInv'
<1>1. /\ h.pc = "c_save" /\ up = "up" /\ h.pc # "idle" /\ UNCHANGED <<scan, up>>
      /\ UNCHANGED <<box, made, gone, tasks>>
  BY DEF CreateCommit, Only, At
<1>2. h \in Handler /\ h.t \in Tasks /\ tasks[h.t].st = "running"
  BY <1>1, Running1
<1>3. CreateInv
  BY <1>1 DEF IInv, HandlerOK, CreatePc
<1>4. CASE ~ Unique(NewRow(h.sp, h.new), NoDep)
  <2>1. Raise("c_undo") /\ rows' = rows
    BY <1>4 DEF CreateCommit, Only
  <2>2. Moved("c_undo")
    BY <1>2, <2>1, Steps, MovedBy
  <2>3. CreateInv'
    BY <1>1, <1>3, <2>1, <2>2 DEF CreateInv, Moved, Spare, Live
  <2> QED BY <1>1, <1>2, <2>1, <2>2, <2>3, AtCreate, Moves DEF Moved, CreatePc, Quiet
<1>5. CASE Unique(NewRow(h.sp, h.new), NoDep)
  <2>1. PICK r : r = NewRow(h.sp, h.new)
    OBVIOUS
  <2>2. PICK d : d = Fresh
    OBVIOUS
  <2>3. /\ \E x \in Deps : rows[x] = NoRow
        /\ rows' = [rows EXCEPT ![d] = r] /\ h' = [h EXCEPT !.pc = "bench", !.d = d]
    BY <1>5, <2>1, <2>2 DEF CreateCommit, Only
  <2>4. d \in Deps /\ rows[d] = NoRow
    BY <2>2, <2>3 DEF Fresh
  <2>5. /\ tasks[h.t].kind = "create" /\ h.d = NoDep /\ h.sp \in Saved /\ OwnPort
        /\ h.new \in There /\ box[h.new].man /\ box[h.new].port = h.sp.port
        /\ box[h.new].dep = NoDep
        /\ \A e \in Deps : box[h.new].name # backup_container_name(e)
    BY <1>1, <1>3, Absent DEF CreateInv, Waiting
  <2>6. h.new \in Boxes /\ BoxOK(h.new)
    BY <2>5, Types DEF IInv, BoxInv
  <2>7. /\ r \in Row /\ r.cid = h.new /\ r.man = TRUE /\ r.spec = h.sp /\ r.port = h.sp.port
        /\ r.cname = deterministic_container_name(NameOf[h.sp.s])
        /\ r.contract = FALSE /\ r.status = "running"
    <3>1. r \in Row
      BY <2>1, <2>5, <2>6, NewRowType
    <3> QED BY <2>1, <3>1 DEF NewRow
  <2>8. \A e \in Live \ {d} : rows[e].cid # r.cid
    BY <1>5, <2>1, <2>6, <2>7, Types, Absent DEF Unique, Collide, IInv
  <2>9. \A e \in Live \ {d} : rows[e].spec # NoSpec => rows[e].port # r.port
    BY <2>5, <2>7, Types, Absent DEF OwnPort, IInv
  <2>10. There' = There /\ rows'[d] = r
    BY <1>1, <2>3, <2>4 DEF There, IInv, TypeOK
  <2>11. RowOK(d)'
    <3>1. Bound(rows[d], d)'
      BY <1>1, <2>5, <2>6, <2>7, <2>10, Names, Absent DEF Bound, BoxOK
    <3>2. r.spec.port = r.port /\ r.cid \in There /\ r.cname = deterministic_container_name(NameOf[h.sp.s])
      BY <2>5, <2>7
    <3> QED BY <1>1, <2>5, <2>7, <2>10, <3>1, <3>2, Names DEF RowOK
  <2>12. /\ h' \in Handler /\ h'.pc = "bench" /\ h'.t = h.t /\ h'.d = d
    BY <1>2, <2>3, <2>4, Steps DEF Handler
  <2>13. HandlerOK'
    BY <1>1, <1>2, <2>4, <2>5, <2>12, AtBench
  <2>14. d \notin Live /\ rows[d] # OldRow
    BY <2>4, Absent DEF Live
  <2>15. r.status \notin Transient
    BY <2>7 DEF Transient
  <2> QED BY <1>1, <2>3, <2>4, <2>7, <2>8, <2>9, <2>11, <2>12, <2>13, <2>14, <2>15, RowCommit
<1> QED BY <1>4, <1>5

(* A step that leaves the table alone.                                     *)
LEMMA RowsStay ==
    ASSUME IInv, rows' = rows
    PROVE  RowStep /\ MarkStep /\ Live' = Live /\ rows' \in [Deps -> Row \cup {NoRow, OldRow}]
  BY DEF RowStep, Same, MarkStep, Live, IInv, TypeOK

(* CreateUndo preserves the invariant.                                     *)
LEMMA CreateUndoInv == ASSUME IInv, CreateUndo PROVE IInv'
<1>1. /\ h.pc = "c_undo" /\ up = "up" /\ h.pc # "idle" /\ UNCHANGED <<scan, up>>
      /\ UNCHANGED <<rows, made, gone>> /\ Finish(h.res)
      /\ box' = box \/ (h.own /\ h.new # 0 /\ box' = Remove(box, h.new))
  BY DEF CreateUndo, Only, At
<1>2. h \in Handler
  BY <1>1, Running1
<1>3. CreateInv
  BY <1>1 DEF IInv, HandlerOK, CreatePc
<1>4. Docker /\ There' \subseteq There
  <2>1. CASE box' = box
    BY <1>1, <2>1, NoneStep
  <2>2. CASE h.own /\ h.new # 0 /\ box' = Remove(box, h.new)
    <3>1. PICK c \in Boxes : c = h.new /\ Spare(c)
      BY <1>2, <1>3, <2>2 DEF Handler, CreateInv
    <3> QED BY <1>1, <2>2, <3>1, RemoveStep
  <2> QED BY <1>1, <2>1, <2>2
<1>5. PICK st \in {"failed", "cancelled", "paused"} : st = h.res
  BY <1>2 DEF Handler
<1>6. tasks[h.t].kind # "action"
  BY <1>3 DEF CreateInv
<1> QED BY <1>1, <1>4, <1>5, <1>6, RowsStay, DockerEnds

(* The benchmark column of a row.                                          *)
LEMMA BenchColumn ==
    ASSUME IInv, NEW d \in Live, NEW b \in {"running", "succeeded", "failed"},
           rows' = [rows EXCEPT ![d].bench = b]
    PROVE  RowStep /\ MarkStep /\ Live' = Live /\ rows' \in [Deps -> Row \cup {NoRow, OldRow}]
<1>1. rows \in [Deps -> Row \cup {NoRow, OldRow}] /\ d \in Deps /\ rows[d] \in Row
  BY Types DEF IInv, TypeOK
<1>2. PICK r : r = [rows[d] EXCEPT !.bench = b]
  OBVIOUS
<1>3. r \in Row /\ Same(rows[d], r) /\ r.status = rows[d].status
  BY <1>1, <1>2 DEF Row, Same
<1>4. rows' = [rows EXCEPT ![d] = r]
  BY <1>1, <1>2
<1>5. /\ rows' \in [Deps -> Row \cup {NoRow, OldRow}] /\ rows'[d] = r
      /\ \A e \in Deps : e # d => rows'[e] = rows[e]
  BY <1>1, <1>3, <1>4
<1>6. Live' = Live
  BY <1>1, <1>3, <1>5, Absent DEF Live
<1>7. RowStep
  BY <1>1, <1>3, <1>5, <1>6, Absent DEF RowStep, Live, Same
<1>8. MarkStep
  BY <1>1, <1>3, <1>5, <1>6 DEF MarkStep, Live, Same
<1> QED BY <1>5, <1>6, <1>7, <1>8

(* A step of the handler that changes columns without a binding.           *)
LEMMA RowMoves ==
    ASSUME IInv, RowStep, MarkStep, rows' \in [Deps -> Row \cup {NoRow, OldRow}],
           UNCHANGED <<box, made, gone, tasks, scan, up>>, h' \in Handler, HandlerOK'
    PROVE  IInv'
<1>1. TypeOK' /\ TaskStep
  BY DEF IInv, TypeOK, TaskStep
<1>2. Docker /\ There' = There
  BY NoneStep
<1>3. BoxInv' /\ RowInv' /\ CidsDiffer' /\ PortsDiffer' /\ ScanOK'
  BY <1>1, <1>2, Frame DEF Docker
<1>4. MarkInv' /\ TaskInv'
  <2>1. MarkInv'
    BY <1>1, FrameMark
  <2> QED BY <2>1 DEF IInv, TaskInv, TaskOK
<1> QED BY <1>1, <1>3, <1>4 DEF IInv

(* BenchmarkStart preserves the invariant.                                 *)
LEMMA BenchmarkStartInv == ASSUME IInv, BenchmarkStart PROVE IInv'
<1>1. /\ h.pc = "bench" /\ up = "up" /\ h.pc # "idle" /\ UNCHANGED <<scan, up>>
      /\ UNCHANGED <<box, made, gone>>
      /\ \/ /\ h.d \in Live /\ rows' = [rows EXCEPT ![h.d].bench = "running"]
            /\ Goto("bench_end") /\ tasks' = tasks
         \/ Finish("succeeded") /\ rows' = rows
  BY DEF BenchmarkStart, Only, At
<1>2. /\ h \in Handler /\ h.t \in Tasks /\ tasks[h.t].st = "running"
      /\ tasks[h.t].kind \in {"create", "update"} /\ h.d \in Deps
  BY <1>1, Running1 DEF IInv, HandlerOK
<1>3. CASE Finish("succeeded") /\ rows' = rows
  BY <1>1, <1>2, <1>3, Ends DEF Quiet
<1>4. CASE /\ h.d \in Live /\ rows' = [rows EXCEPT ![h.d].bench = "running"]
           /\ Goto("bench_end") /\ tasks' = tasks
  <2>1. PICK d \in Live : d = h.d
    BY <1>4
  <2>2. RowStep /\ MarkStep /\ rows' \in [Deps -> Row \cup {NoRow, OldRow}]
    BY <1>4, <2>1, BenchColumn
  <2>3. Moved("bench_end")
    BY <1>2, <1>4, Steps, MovedBy
  <2>4. HandlerOK'
    BY <1>1, <1>2, <1>4, <2>3, AtBench DEF Moved
  <2> QED BY <1>1, <1>4, <2>2, <2>3, <2>4, RowMoves DEF Moved
<1> QED BY <1>1, <1>3, <1>4

(* BenchmarkEnd preserves the invariant.                                   *)
LEMMA BenchmarkEndInv == ASSUME IInv, BenchmarkEnd PROVE IInv'
<1>1. PICK b \in {"succeeded", "failed"} :
      /\ h.pc = "bench_end" /\ up = "up" /\ h.pc # "idle" /\ UNCHANGED <<scan, up>>
      /\ UNCHANGED <<box, made, gone>> /\ Finish("succeeded")
      /\ rows' = IF h.d \in Live THEN [rows EXCEPT ![h.d].bench = b] ELSE rows
  BY DEF BenchmarkEnd, Only, At
<1>2. tasks[h.t].kind # "action"
  BY <1>1 DEF IInv, HandlerOK
<1>3. RowStep /\ MarkStep /\ rows' \in [Deps -> Row \cup {NoRow, OldRow}]
  <2>1. CASE h.d \in Live
    <3>1. PICK d \in Live : d = h.d
      BY <2>1
    <3> QED BY <1>1, <2>1, <3>1, BenchColumn
  <2>2. CASE h.d \notin Live
    BY <1>1, <2>2, RowsStay
  <2> QED BY <2>1, <2>2
<1>4. Docker /\ There' = There
  BY <1>1, NoneStep
<1> QED BY <1>1, <1>2, <1>3, <1>4, DockerEnds

(***************************************************************************)
(* deployment.update                                                       *)
(***************************************************************************)
(* UpdateBegin preserves the invariant.                                    *)
LEMMA UpdateBeginInv == ASSUME IInv, UpdateBegin PROVE IInv'
<1>1. /\ h.pc = "update" /\ up = "up" /\ h.pc \in BeginPc /\ h.pc # "idle"
      /\ UNCHANGED <<scan, up>>
  BY DEF UpdateBegin, Only, At, BeginPc
<1>2. PICK s, d : s = tasks[h.t].s /\ d = tasks[h.t].d
  OBVIOUS
<1>3. /\ h \in Handler /\ h.t \in Tasks /\ tasks[h.t].st = "running" /\ s \in Specs
      /\ tasks[h.t].kind = "update" /\ h.new = 0
  BY <1>1, <1>2, Running1, AtBegin
<1>4. PICK p, q : p = prepare_spec_port(s, d) /\ q = preflight(s, d)
  OBVIOUS
<1>5. \/ /\ d \in Live /\ p # 0 /\ deployment_matches_spec(rows[d], Resolved(s, p))
         /\ h' = [h EXCEPT !.pc = "v_start", !.d = d, !.sp = Resolved(s, p),
                           !.cid = rows[d].cid, !.orig = rows[d]]
         /\ UNCHANGED <<world, tasks>>
      \/ /\ d \in Live /\ rows[d].man /\ q # 0
         /\ h' = [h EXCEPT !.pc = "u_get", !.d = d, !.sp = Resolved(s, q),
                           !.cid = rows[d].cid, !.orig = rows[d],
                           !.was = rows[d].status = "running"]
         /\ UNCHANGED <<world, tasks>>
      \/ Fail
  BY <1>2, <1>4 DEF UpdateBegin, Only, Resolved
<1>6. CASE Fail
  BY <1>1, <1>3, <1>6, Ends DEF Fail, Quiet
<1>7. ASSUME d \in Live, p # 0, deployment_matches_spec(rows[d], Resolved(s, p)),
             h' = [h EXCEPT !.pc = "v_start", !.d = d, !.sp = Resolved(s, p),
                            !.cid = rows[d].cid, !.orig = rows[d]],
             UNCHANGED <<world, tasks>>
      PROVE  IInv'
  <2>1. d \in Deps /\ rows[d] \in Row /\ rows[d].cid \in Boxes \cup {0}
    BY <1>7, Types DEF IInv, Row
  <2>2. PICK sp \in Saved : sp = Resolved(s, p) /\ sp # NoSpec
    BY <1>3, <1>4, <1>7, PrepareFree, ResolvedType
  <2>3. /\ h' \in Handler /\ h'.pc = "v_start" /\ h'.t = h.t /\ h'.d = d /\ h'.orig = rows[d]
        /\ h'.cid = rows[d].cid
    <3>1. h' = [h EXCEPT !.pc = "v_start", !.d = d, !.sp = sp, !.cid = rows[d].cid,
                         !.orig = rows[d]]
      BY <1>7, <2>2
    <3> QED BY <1>3, <2>1, <3>1, Steps DEF Handler
  <2>4. rows[d].spec # NoSpec
    BY <1>7, <2>2 DEF deployment_matches_spec
  <2>5. RecoverInv'
    BY <1>3, <1>7, <2>1, <2>3, <2>4 DEF RecoverInv, world, Live
  <2>6. HandlerOK'
    BY <1>1, <1>3, <1>7, <2>3, <2>5, AtRecover DEF RecoverPc
  <2> QED BY <1>1, <1>7, <2>3, <2>6, Moves DEF Quiet, world
<1>8. ASSUME d \in Live, rows[d].man, q # 0,
             h' = [h EXCEPT !.pc = "u_get", !.d = d, !.sp = Resolved(s, q),
                            !.cid = rows[d].cid, !.orig = rows[d],
                            !.was = rows[d].status = "running"],
             UNCHANGED <<world, tasks>>
      PROVE  IInv'
  <2>1. d \in Deps /\ rows[d] \in Row /\ rows[d].cid \in Boxes \cup {0}
    BY <1>8, Types DEF IInv, Row
  <2>2. q \in Ports /\ q \notin db_reserved_ports(d)
    BY <1>3, <1>4, <1>8, PreflightFree
  <2>3. PICK sp \in Saved : sp = Resolved(s, q) /\ sp.port = q
    BY <1>3, <2>2, ResolvedType
  <2>4. PICK w \in BOOLEAN : w <=> rows[d].status = "running"
    OBVIOUS
  <2>5. /\ h' \in Handler /\ h'.pc = "u_get" /\ h'.t = h.t /\ h'.d = d /\ h'.orig = rows[d]
        /\ h'.cid = rows[d].cid /\ h'.sp = sp /\ h'.new = 0
    <3>1. h' = [h EXCEPT !.pc = "u_get", !.d = d, !.sp = sp, !.cid = rows[d].cid,
                         !.orig = rows[d], !.was = w]
      BY <1>8, <2>3, <2>4
    <3> QED BY <1>3, <2>1, <2>3, <3>1, Steps, ZenonT(60) DEF Handler
  <2>6. OwnPort'
    BY <1>8, <2>2, <2>3, <2>5 DEF OwnPort, db_reserved_ports, world, Live
  <2>7. UpdateInv'
    BY <1>3, <1>8, <2>1, <2>5, <2>6 DEF UpdateInv, world, Live
  <2>8. HandlerOK'
    BY <1>1, <1>3, <1>8, <2>5, <2>7, AtUpdate DEF UpdatePc
  <2> QED BY <1>1, <1>8, <2>5, <2>8, Moves DEF Quiet, world
<1> QED BY <1>5, <1>6, <1>7, <1>8

(* The container of an update exists, and no other row has it.             *)
LEMMA UpdateFacts ==
    ASSUME IInv, h.pc \in UpdatePc
    PROVE  /\ h.pc # "idle" /\ up = "up" /\ h \in Handler /\ h.t \in Tasks
           /\ tasks[h.t].st = "running" /\ tasks[h.t].kind = "update" /\ UpdateInv
           /\ h.d \in Live /\ h.d \in Deps /\ h.cid \in Boxes /\ h.orig.cname \in ContainerName
           /\ h.orig.cname \notin {Foreign, <<>>}
           /\ h.cid \in There => box[h.cid].man
           /\ \A d \in Live : rows[d].cid = h.cid => d = h.d
           /\ \A e \in Deps : rows[h.d].spec # NoSpec
                                /\ h.orig.cname = backup_container_name(e) => e = h.d
<1>1. UpdateInv /\ h.pc # "idle"
  BY DEF IInv, HandlerOK, UpdatePc
<1>2. /\ h \in Handler /\ h.t \in Tasks /\ tasks[h.t].st = "running" /\ up = "up"
  BY <1>1, Running1
<1>3. h.d \in Live /\ rows[h.d].man /\ rows[h.d].cid = h.cid /\ rows[h.d].cname = h.orig.cname
      /\ tasks[h.t].kind = "update" /\ h.orig \in Row
  BY <1>1 DEF UpdateInv
<1>4. RowOK(h.d) /\ h.d \in Deps
  BY <1>3, Types DEF IInv, RowInv
<1>5. h.cid # 0 /\ h.cid \in Boxes /\ (h.cid \in There => box[h.cid].man)
      /\ h.orig.cname \notin {Foreign, <<>>}
  BY <1>2, <1>3, <1>4 DEF RowOK, Bound, Handler
<1>6. \A d \in Live : rows[d].cid = h.cid => d = h.d
  BY <1>3, <1>5 DEF IInv, CidsDiffer
<1>7. /\ h.orig.cname \in ContainerName
      /\ \A e \in Deps : rows[h.d].spec # NoSpec
                           /\ h.orig.cname = backup_container_name(e) => e = h.d
  BY <1>3, <1>4 DEF RowOK, Row
<1> QED BY <1>1, <1>2, <1>3, <1>4, <1>5, <1>6, <1>7

(* UpdateGet preserves the invariant.                                      *)
LEMMA UpdateGetInv == ASSUME IInv, UpdateGet PROVE IInv'
<1>1. h.pc = "u_get" /\ h.pc \in UpdatePc /\ UNCHANGED <<scan, up, world>>
  BY DEF UpdateGet, Only, At, UpdatePc
<1>2. /\ h.pc # "idle" /\ up = "up" /\ h \in Handler /\ h.t \in Tasks
      /\ tasks[h.t].st = "running" /\ tasks[h.t].kind = "update" /\ UpdateInv
      /\ h.cid \in Boxes
  BY <1>1, UpdateFacts
<1> DEFINE left == Named(deterministic_container_name(NameOf[h.sp.s])) \ {h.cid}
           bad == \E c \in left : ~ validate_container_labels(c, h.t, h.sp, h.d, h.cid)
<1>3. PICK k : k = IF bad THEN "u_back"
                   ELSE IF box[h.cid].name = h.orig.cname THEN "u_stop"
                   ELSE IF box[h.cid].name = backup_container_name(h.d) THEN "u_run"
                   ELSE "u_back"
  OBVIOUS
<1>4. k \in {"u_back", "u_stop", "u_run"} /\ (k # "u_back" => ~ bad)
  BY <1>3
<1>5. \/ box[h.cid] = NoBox /\ Finish("failed")
      \/ /\ box[h.cid] # NoBox /\ tasks' = tasks
         /\ h' = [h EXCEPT !.name = box[h.cid].name, !.run = box[h.cid].run,
                           !.own = (left = {}), !.pc = k]
  BY <1>3 DEF UpdateGet, Only
<1>6. CASE box[h.cid] = NoBox /\ Finish("failed")
  BY <1>1, <1>2, <1>6, Ends DEF Quiet, world
<1>7. CASE /\ box[h.cid] # NoBox /\ tasks' = tasks
           /\ h' = [h EXCEPT !.name = box[h.cid].name, !.run = box[h.cid].run,
                             !.own = (left = {}), !.pc = k]
  <2>1. h.cid \in There /\ box[h.cid] \in Box
    BY <1>2, <1>7, Types DEF There, IInv
  <2>2. box[h.cid].name \in ContainerName /\ box[h.cid].run \in BOOLEAN
    BY <2>1 DEF Box
  <2>3. PICK w \in BOOLEAN : w <=> left = {}
    OBVIOUS
  <2>4. /\ h' \in Handler /\ h'.pc = k /\ h'.t = h.t /\ h'.d = h.d /\ h'.orig = h.orig
        /\ h'.cid = h.cid /\ h'.sp = h.sp /\ h'.new = h.new /\ (h'.own <=> left = {})
    <3>1. h' = [h EXCEPT !.name = box[h.cid].name, !.run = box[h.cid].run, !.own = w, !.pc = k]
      BY <1>7, <2>3
    <3>2. k \in Pc
      BY <1>4, Steps
    <3>3. /\ h' \in Handler /\ h'.pc = k /\ h'.t = h.t /\ h'.d = h.d /\ h'.orig = h.orig
          /\ h'.cid = h.cid /\ h'.sp = h.sp /\ h'.new = h.new /\ (h'.own <=> w)
      BY <1>2, <2>2, <3>1, <3>2 DEF Handler
    <3> QED BY <2>3, <3>3
  <2>5. There' = There /\ Live' = Live /\ box' = box /\ rows' = rows
    BY <1>1 DEF world, There, Live
  <2>6. k \in {"u_stop", "u_run"} /\ ~ h'.own =>
          \E c \in Named(deterministic_container_name(NameOf[h.sp.s])) :
             c # h.cid /\ validate_container_labels(c, h.t, h.sp, h.d, h.cid)
    BY <1>4, <2>4
  <2>7. (\E c \in Named(deterministic_container_name(NameOf[h.sp.s])) :
             c # h.cid /\ validate_container_labels(c, h.t, h.sp, h.d, h.cid)) =>
        (\E c \in Named(deterministic_container_name(NameOf[h.sp.s])) :
             c # h.cid /\ validate_container_labels(c, h.t, h.sp, h.d, h.cid))'
    BY <1>7, <2>4, <2>5 DEF Named, validate_container_labels
  <2>8. OwnPort'
    BY <1>2, <2>4, <2>5 DEF OwnPort, UpdateInv
  <2>9. UpdateInv'
    <3> HIDE DEF left, bad
    <3> QED BY <1>1, <1>2, <1>4, <1>7, <2>1, <2>4, <2>5, <2>6, <2>7, <2>8 DEF UpdateInv
  <2>10. HandlerOK'
    BY <1>1, <1>2, <1>4, <1>7, <2>4, <2>9, AtUpdate DEF UpdatePc
  <2> QED BY <1>1, <1>7, <2>4, <2>10, Moves DEF Quiet, world
<1> QED BY <1>5, <1>6, <1>7

(* The update goes on: at most its old container has changed.              *)
LEMMA UpdateKept ==
    ASSUME IInv, h.pc \in UpdatePc, NEW k \in UpdatePc, Moved(k), k # "u_get", up' = up,
           h.cid \in There, h.cid \in There', UNCHANGED <<rows, tasks>>,
           \A x \in There \ {h.cid} : Stays(x),
           k \in {"u_stop", "u_name", "u_run"} => h.pc \in {"u_stop", "u_name", "u_run"},
           k \in {"u_wait", "u_save"} => h.pc \in {"u_wait", "u_save"}
    PROVE  h' \in Handler /\ HandlerOK'
<1>1. /\ h.pc # "idle" /\ up = "up" /\ h \in Handler /\ h.t \in Tasks
      /\ tasks[h.t].st = "running" /\ tasks[h.t].kind = "update" /\ UpdateInv
  BY UpdateFacts
<1>2. /\ h' \in Handler /\ h'.pc = k /\ h'.t = h.t /\ h'.d = h.d /\ h'.orig = h.orig
      /\ h'.cid = h.cid /\ h'.sp = h.sp /\ h'.new = h.new /\ (h'.own <=> h.own)
  BY DEF Moved
<1>3. Live' = Live
  BY DEF Live
<1>4. k \in {"u_stop", "u_name", "u_run"} /\ ~ h'.own =>
        (\E c \in Named(deterministic_container_name(NameOf[h.sp.s])) :
             c # h.cid /\ validate_container_labels(c, h.t, h.sp, h.d, h.cid))'
  <2> SUFFICES ASSUME k \in {"u_stop", "u_name", "u_run"}, ~ h'.own
               PROVE  (\E c \in Named(deterministic_container_name(NameOf[h.sp.s])) :
                          c # h.cid /\ validate_container_labels(c, h.t, h.sp, h.d, h.cid))'
    OBVIOUS
  <2>1. PICK c \in Named(deterministic_container_name(NameOf[h.sp.s])) :
             c # h.cid /\ validate_container_labels(c, h.t, h.sp, h.d, h.cid)
    BY <1>1, <1>2 DEF UpdateInv
  <2>2. Stays(c) /\ c \in There
    BY <2>1 DEF Named
  <2> QED BY <1>2, <2>1, <2>2 DEF Named, validate_container_labels, Stays, Alike
<1>5. k \in {"u_wait", "u_save"} => Waiting(h.sp.port, {h.d})'
  <2> SUFFICES ASSUME k \in {"u_wait", "u_save"} PROVE Waiting(h.sp.port, {h.d})'
    OBVIOUS
  <2>1. Waiting(h.sp.port, {h.d}) /\ h.new \in There
    BY <1>1 DEF UpdateInv, Waiting
  <2>2. h.new # 0
    BY <2>1, Absent DEF There
  <2>3. h.new # h.cid
    BY <1>1, <2>2 DEF UpdateInv
  <2>4. Stays(h.new)
    BY <2>1, <2>3
  <2> QED BY <1>2, <2>1, <2>4 DEF Waiting, Stays, Alike
<1>6. h.new # 0 => h.new \in There' \ {h.cid} /\ box'[h.new].dep = h.d
  BY <1>1 DEF UpdateInv, Stays, Alike
<1>7. OwnPort'
  BY <1>1, <1>2, <1>3 DEF OwnPort, UpdateInv
<1>8. k \in {"u_stop", "u_name", "u_run"} => h.new = 0
  BY <1>1 DEF UpdateInv
<1>9. UpdateInv'
  BY <1>1, <1>2, <1>3, <1>4, <1>5, <1>6, <1>7, <1>8 DEF UpdateInv
<1> QED BY <1>1, <1>2, <1>9, AtUpdate

(* UpdateStop preserves the invariant.                                     *)
LEMMA UpdateStopInv == ASSUME IInv, UpdateStop PROVE IInv'
<1>1. /\ h.pc = "u_stop" /\ h.pc \in UpdatePc /\ UNCHANGED <<scan, up>>
      /\ UNCHANGED <<rows, made, gone, tasks>>
      /\ \/ box' = Running(box, h.cid, FALSE) /\ Goto("u_name")
         \/ box' = box /\ Raise("u_back")
  BY DEF UpdateStop, Only, At, UpdatePc
<1>2. h \in Handler /\ UpdateInv
  BY <1>1, UpdateFacts
<1>3. PICK c \in There : c = h.cid
  BY <1>1, <1>2 DEF UpdateInv
<1>4. Docker /\ There' = There /\ \A x \in There : Stays(x)
  BY <1>1, <1>3, RunningStep, NoneStep
<1>5. Moved("u_name") \/ Moved("u_back")
  BY <1>1, <1>2, Steps, MovedBy
<1>6. {"u_name", "u_back"} \subseteq UpdatePc
  BY DEF UpdatePc
<1>7. h' \in Handler /\ HandlerOK'
  BY <1>1, <1>3, <1>4, <1>5, <1>6, UpdateKept
<1> QED BY <1>1, <1>4, <1>7, DockerMoves

(* UpdateRename preserves the invariant.                                   *)
LEMMA UpdateRenameInv == ASSUME IInv, UpdateRename PROVE IInv'
<1>1. /\ h.pc = "u_name" /\ h.pc \in UpdatePc /\ UNCHANGED <<scan, up>>
      /\ UNCHANGED <<rows, made, gone, tasks>>
      /\ \/ /\ Named(backup_container_name(h.d)) = {}
            /\ box' = Rename(h.cid, backup_container_name(h.d)) /\ Goto("u_run")
         \/ box' = box /\ Raise("u_back")
  BY DEF UpdateRename, Only, At, UpdatePc
<1>2. /\ h \in Handler /\ UpdateInv /\ h.d \in Deps
      /\ \A d \in Live : rows[d].cid = h.cid => d = h.d
      /\ h.cid \in There => box[h.cid].man
  BY <1>1, UpdateFacts
<1>3. PICK c \in There : c = h.cid
  BY <1>1, <1>2 DEF UpdateInv
<1>4. Docker /\ There' = There /\ \A x \in There \ {c} : Stays(x)
  <2>1. CASE box' = box
    BY <1>1, <2>1, NoneStep
  <2>2. CASE /\ Named(backup_container_name(h.d)) = {}
             /\ box' = Rename(h.cid, backup_container_name(h.d))
    <3>1. PICK n \in ContainerName \ {Foreign, <<>>} : n = backup_container_name(h.d)
      BY <1>2, Names, NameTypes
    <3>2. \A x \in There \ {c} : box[x].name # n
      BY <2>2, <3>1 DEF Named
    <3>3. \A d \in Live, e \in Deps : rows[d].spec # NoSpec /\ rows[d].cid = c
                                        /\ n = backup_container_name(e) => e = d
      BY <1>2, <1>3, <3>1, Names
    <3>4. box' = Rename(c, n) /\ box[c].man
      BY <1>2, <1>3, <2>2, <3>1
    <3> QED BY <1>1, <3>2, <3>3, <3>4, RenameStep
  <2> QED BY <1>1, <2>1, <2>2
<1>5. Moved("u_run") \/ Moved("u_back")
  BY <1>1, <1>2, Steps, MovedBy
<1>6. {"u_run", "u_back"} \subseteq UpdatePc
  BY DEF UpdatePc
<1>7. h' \in Handler /\ HandlerOK'
  BY <1>1, <1>3, <1>4, <1>5, <1>6, UpdateKept
<1> QED BY <1>1, <1>4, <1>7, DockerMoves

(* UpdateWait preserves the invariant.                                     *)
LEMMA UpdateWaitInv == ASSUME IInv, UpdateWait PROVE IInv'
<1>1. /\ h.pc = "u_wait" /\ h.pc \in UpdatePc /\ UNCHANGED <<scan, up>>
      /\ Wait(h.sp.port, "u_save", "u_back")
  BY DEF UpdateWait, Only, At, UpdatePc
<1>2. h \in Handler /\ UpdateInv
  BY <1>1, UpdateFacts
<1>3. h.cid \in There
  BY <1>1, <1>2 DEF UpdateInv
<1>4. Moved("u_save") \/ Moved("u_back")
  BY <1>1, <1>2, Steps, WaitMoves
<1>5. UNCHANGED <<rows, box, made, gone, tasks>>
  BY <1>1, <1>2, Steps, WaitMoves
<1>6. Docker /\ There' = There /\ \A x \in There : Stays(x)
  BY <1>5, NoneStep
<1>7. {"u_save", "u_back"} \subseteq UpdatePc
  BY DEF UpdatePc
<1>8. h' \in Handler /\ HandlerOK'
  BY <1>1, <1>3, <1>4, <1>5, <1>6, <1>7, UpdateKept
<1> QED BY <1>1, <1>5, <1>8, Moves DEF Quiet

(* UpdateRun preserves the invariant.                                      *)
LEMMA UpdateRunInv == ASSUME IInv, UpdateRun PROVE IInv'
<1>1. /\ h.pc = "u_run" /\ h.pc \in UpdatePc /\ UNCHANGED <<scan, up>>
      /\ UNCHANGED <<rows, gone, tasks>>
  BY DEF UpdateRun, Only, At, UpdatePc
<1>2. /\ h.pc # "idle" /\ up = "up" /\ h \in Handler /\ h.t \in Tasks
      /\ tasks[h.t].st = "running" /\ tasks[h.t].kind = "update" /\ UpdateInv
      /\ h.d \in Live /\ h.d \in Deps /\ h.cid \in Boxes
  BY <1>1, UpdateFacts
<1>3. /\ h.cid \in There /\ h.new = 0 /\ h.sp \in Saved /\ OwnPort /\ h.orig \in Row
      /\ rows[h.d].man /\ rows[h.d].cid = h.cid /\ rows[h.d].cname = h.orig.cname
  BY <1>1, <1>2 DEF UpdateInv
<1>4. Live' = Live /\ NoDep \notin Deps /\ 0 \notin Tasks /\ h.sp.s \in Specs /\ h.sp # NoSpec
  BY <1>1, <1>3, Absent DEF Live, Saved
<1> DEFINE n == deterministic_container_name(NameOf[h.sp.s])
<1>5. ASSUME NEW k \in There', k # h.cid, k # 0, h.cid \in There',
             h' \in Handler, h'.pc \in {"u_wait", "u_back"}, h'.t = h.t, h'.d = h.d,
             h'.orig = h.orig, h'.cid = h.cid, h'.sp = h.sp, h'.new = k, box'[k].man,
             box'[k].port = h.sp.port, box'[k].dep = h.d, box'[k].name = n
      PROVE  HandlerOK'
  <2>1. Waiting(h.sp.port, {h.d})'
    BY <1>5, Names DEF Waiting
  <2>2. OwnPort'
    BY <1>1, <1>3, <1>4, <1>5 DEF OwnPort
  <2>3. UpdateInv'
    BY <1>1, <1>2, <1>3, <1>4, <1>5, <2>1, <2>2 DEF UpdateInv
  <2> QED BY <1>1, <1>2, <1>5, <2>3, AtUpdate DEF UpdatePc
<1>6. CASE h.own
  <2>1. Run(run_container(h.sp, h.t, h.d, h.cid), "u_wait", "u_back")
    BY <1>6 DEF UpdateRun, Only
  <2>2. PICK new : new = run_container(h.sp, h.t, h.d, h.cid)
    OBVIOUS
  <2>3. /\ new \in Box /\ new.man /\ new.task = h.t /\ new.spec = h.sp /\ new.dep = h.d
        /\ new.repl = h.cid /\ new.port = h.sp.port /\ new.name = n
    <3>1. new \in Box
      BY <1>2, <1>3, <2>2, RunContainerType
    <3> QED BY <2>2, <3>1 DEF run_container
  <2>4. h.cid <= made /\ made \in Nat
    BY <1>3 DEF IInv, BoxInv, BoxOK, TypeOK
  <2>5. Sound(new)
    BY <1>2, <1>3, <1>4, <2>3, <2>4, Names DEF Sound
  <2>6. /\ Docker /\ There \subseteq There' /\ \A x \in There : Stays(x)
        /\ \A c \in There' \ There : BoxOK(c)'
        /\ \/ /\ h' \in Handler /\ h'.pc = "u_wait" /\ h'.t = h.t /\ h'.d = h.d /\ h'.sp = h.sp
              /\ h'.orig = h.orig /\ h'.cid = h.cid /\ h'.new = made + 1 /\ h'.own
              /\ made + 1 \in There' /\ made + 1 \notin There /\ Spare(made + 1)
              /\ box'[made + 1] = new /\ made + 1 \in Boxes
           \/ Moved("u_back")
    BY <1>1, <1>2, <2>1, <2>2, <2>5, Steps, RunEffect
  <2>7. CASE Moved("u_back")
    <3>1. "u_back" \in UpdatePc
      BY DEF UpdatePc
    <3>2. h' \in Handler /\ HandlerOK'
      BY <1>1, <1>3, <2>6, <2>7, <3>1, UpdateKept
    <3> QED BY <1>1, <2>6, <3>2, DockerMoves
  <2>8. CASE /\ h' \in Handler /\ h'.pc = "u_wait" /\ h'.t = h.t /\ h'.d = h.d /\ h'.sp = h.sp
             /\ h'.orig = h.orig /\ h'.cid = h.cid /\ h'.new = made + 1 /\ h'.own
             /\ made + 1 \in There' /\ made + 1 \notin There
             /\ box'[made + 1] = new /\ made + 1 \in Boxes
    <3>1. PICK k : k = made + 1
      OBVIOUS
    <3>2. k # h.cid /\ k # 0 /\ h.cid \in There'
      BY <1>3, <2>4, <2>6, <2>8, <3>1
    <3>3. HandlerOK'
      BY <1>5, <2>3, <2>8, <3>1, <3>2
    <3> QED BY <1>1, <2>6, <2>8, <3>3, DockerMoves
  <2> QED BY <2>6, <2>7, <2>8
<1>7. CASE ~ h.own
  <2>1. PICK w \in Named(n) :
             w # h.cid /\ validate_container_labels(w, h.t, h.sp, h.d, h.cid)
    BY <1>1, <1>2, <1>7 DEF UpdateInv
  <2>2. PICK c \in Named(n) : c = CHOOSE x \in Named(n) : TRUE
    BY <2>1
  <2>3. c = w /\ c \in There
    BY <2>1, <2>2 DEF Named, IInv, BoxInv, BoxOK
  <2>4. PICK r \in BOOLEAN : r <=> box[c].run \/ PortFree(c)
    OBVIOUS
  <2>5. /\ h' = [h EXCEPT !.new = c, !.pc = IF box[c].run \/ PortFree(c) THEN "u_wait" ELSE "u_back"]
        /\ box' = Running(box, c, box[c].run \/ PortFree(c)) /\ made' = made
    BY <1>7, <2>2 DEF UpdateRun, Only
  <2>6. box' = Running(box, c, r)
    <3>1. box[c].run \in BOOLEAN
      BY <2>3, Types DEF IInv, Box
    <3>2. (box[c].run \/ PortFree(c)) = r
      BY <2>4, <3>1
    <3> QED BY <2>5, <3>2
  <2>7. Docker /\ There' = There /\ \A x \in There : Stays(x)
    BY <1>1, <2>3, <2>5, <2>6, RunningStep
  <2>8. c \in Boxes /\ BoxOK(c)
    BY <2>3, Types DEF IInv, BoxInv
  <2>9. /\ h' \in Handler /\ h'.pc \in {"u_wait", "u_back"} /\ h'.t = h.t /\ h'.d = h.d
        /\ h'.orig = h.orig /\ h'.cid = h.cid /\ h'.sp = h.sp /\ h'.new = c
    <3>1. PICK k \in {"u_wait", "u_back"} : h' = [h EXCEPT !.new = c, !.pc = k]
      BY <2>5
    <3>2. k \in Pc
      BY Steps
    <3> QED BY <1>2, <2>8, <3>1, <3>2 DEF Handler
  <2>10. /\ box[c].man /\ box[c].spec = h.sp /\ box[c].dep = h.d /\ box[c].name = n
         /\ box[c].port = h.sp.port
    BY <1>2, <1>4, <2>1, <2>3, <2>8 DEF validate_container_labels, BoxOK, Named
  <2>11. HandlerOK'
    BY <1>3, <1>5, <2>1, <2>3, <2>7, <2>8, <2>9, <2>10, Absent DEF Stays, Alike
  <2> QED BY <1>1, <2>7, <2>9, <2>11, DockerMoves
<1> QED BY <1>6, <1>7

(* UpdateCommit preserves the invariant.                                   *)
LEMMA UpdateCommitInv == ASSUME IInv, UpdateCommit PROVE IInv'
<1>1. /\ h.pc = "u_save" /\ h.pc \in UpdatePc /\ UNCHANGED <<scan, up>>
      /\ UNCHANGED <<box, made, gone, tasks>>
  BY DEF UpdateCommit, Only, At, UpdatePc
<1>2. /\ h.pc # "idle" /\ up = "up" /\ h \in Handler /\ h.t \in Tasks
      /\ tasks[h.t].st = "running" /\ tasks[h.t].kind = "update" /\ UpdateInv
      /\ h.d \in Live /\ h.d \in Deps /\ h.cid \in Boxes
      /\ \A d \in Live : rows[d].cid = h.cid => d = h.d
  BY <1>1, UpdateFacts
<1>3. /\ h.cid \in There /\ h.sp \in Saved /\ OwnPort /\ rows[h.d].man
      /\ h.new \in There /\ box[h.new].man /\ box[h.new].port = h.sp.port
      /\ box[h.new].dep = h.d
      /\ \A e \in Deps : box[h.new].name = backup_container_name(e) => e = h.d
  BY <1>1, <1>2 DEF UpdateInv, Waiting
<1>4. h.new \in Boxes /\ h.new # 0 /\ h.new # h.cid /\ BoxOK(h.new)
  <2>1. h.new \in Boxes /\ h.new # 0 /\ BoxOK(h.new)
    BY <1>3, Types, Absent DEF IInv, BoxInv
  <2> QED BY <1>2, <2>1 DEF UpdateInv
<1>5. PICK r : r = [NewRow(h.sp, h.new) EXCEPT !.bench = rows[h.d].bench]
  OBVIOUS
<1>6. rows[h.d] \in Row /\ rows[h.d].bench \in {"none", "pending", "running", "succeeded", "failed"}
  BY <1>2, Types DEF IInv, Row
<1>7. /\ r \in Row /\ r.cid = h.new /\ r.man = TRUE /\ r.spec = h.sp /\ r.port = h.sp.port
      /\ r.cname = deterministic_container_name(NameOf[h.sp.s])
      /\ r.contract = FALSE /\ r.status = "running"
  <2>1. NewRow(h.sp, h.new) \in Row
    BY <1>3, <1>4, NewRowType
  <2>2. r \in Row
    BY <1>5, <1>6, <2>1 DEF Row
  <2> QED BY <1>5, <2>2 DEF NewRow
<1>8. CASE ~ (h.d \in Live /\ Unique(r, h.d))
  <2>1. Raise("u_back") /\ rows' = rows
    BY <1>5, <1>8 DEF UpdateCommit, Only
  <2>2. Moved("u_back")
    BY <1>2, <2>1, Steps, MovedBy
  <2>3. Docker /\ There' = There /\ \A x \in There : Stays(x)
    BY <1>1, NoneStep
  <2>4. "u_back" \in UpdatePc
    BY DEF UpdatePc
  <2>5. h' \in Handler /\ HandlerOK'
    BY <1>1, <1>3, <2>1, <2>2, <2>3, <2>4, UpdateKept
  <2> QED BY <1>1, <2>1, <2>5, Moves DEF Quiet
<1>9. CASE h.d \in Live /\ Unique(r, h.d)
  <2>1. rows' = [rows EXCEPT ![h.d] = r] /\ Goto("u_drop")
    BY <1>5, <1>9 DEF UpdateCommit, Only
  <2>2. PICK d \in Deps : d = h.d
    BY <1>2
  <2>3. \A e \in Live \ {d} : rows[e].cid # r.cid
    BY <1>4, <1>7, <1>9, <2>2 DEF Unique, Collide
  <2>4. \A e \in Live \ {d} : rows[e].spec # NoSpec => rows[e].port # r.port
    BY <1>3, <1>7, <2>2 DEF OwnPort
  <2>5. There' = There /\ rows'[d] = r /\ \A e \in Deps : e # d => rows'[e] = rows[e]
    BY <1>1, <2>1, <2>2 DEF There, IInv, TypeOK
  <2>6. RowOK(d)'
    <3>1. Bound(rows[d], d)'
      BY <1>1, <1>3, <1>4, <1>7, <2>2, <2>5, Names DEF Bound, BoxOK
    <3>2. r.spec.port = r.port /\ r.cid \in There /\ r.cname = deterministic_container_name(NameOf[h.sp.s])
      BY <1>3, <1>7
    <3> QED BY <1>1, <1>3, <1>7, <2>2, <2>5, <3>1, <3>2, Names DEF RowOK
  <2>7. Moved("u_drop")
    BY <1>2, <2>1, Steps, MovedBy
  <2>8. Spare(h.cid)'
    <3>1. \A e \in Live' : rows'[e].cid # h.cid
      BY <1>2, <1>4, <1>7, <2>2, <2>5 DEF Live
    <3> QED BY <2>7, <3>1 DEF Spare, Moved
  <2>9. HandlerOK'
    BY <1>1, <1>2, <2>7, <2>8, AtBench DEF Moved
  <2>10. r.status \notin Transient /\ rows[d] # OldRow /\ rows[d].man
    BY <1>2, <1>3, <1>7, <2>2 DEF Transient, Live
  <2> QED BY <1>1, <1>7, <2>1, <2>2, <2>3, <2>4, <2>6, <2>7, <2>9, <2>10, RowCommit DEF Moved
<1> QED BY <1>8, <1>9

(* The old container of a committed update or rebuild is removed.          *)
LEMMA DropStep ==
    ASSUME IInv, h \in Handler, Spare(h.cid), UNCHANGED <<made, gone>>,
           box' = Remove(box, h.cid) \/ box' = box
    PROVE  Docker /\ There' \subseteq There
<1>1. CASE box' = box
  BY <1>1, NoneStep
<1>2. CASE box' # box
  <2>1. PICK c : c = h.cid
    OBVIOUS
  <2>2. box' = Remove(box, c) /\ Spare(c) /\ c \in Boxes \cup {0}
    BY <1>2, <2>1 DEF Handler
  <2>3. c \in Boxes
    BY <1>2, <2>2, Absent DEF Remove, IInv, TypeOK
  <2> QED BY <2>2, <2>3, RemoveStep
<1> QED BY <1>1, <1>2

(* UpdateDrop preserves the invariant.                                     *)
LEMMA UpdateDropInv == ASSUME IInv, UpdateDrop PROVE IInv'
<1>1. /\ h.pc = "u_drop" /\ h.pc # "idle" /\ UNCHANGED <<scan, up>>
      /\ UNCHANGED <<rows, made, gone, tasks>> /\ Goto("bench")
      /\ box' = Remove(box, h.cid) \/ box' = box
  BY DEF UpdateDrop, Only, At
<1>2. /\ h \in Handler /\ h.t \in Tasks /\ tasks[h.t].st = "running" /\ up = "up"
      /\ tasks[h.t].kind \in {"create", "update"} /\ h.d \in Deps /\ Spare(h.cid)
  BY <1>1, Running1 DEF IInv, HandlerOK
<1>3. Docker /\ There' \subseteq There
  BY <1>1, <1>2, DropStep
<1>4. Moved("bench")
  BY <1>1, <1>2, Steps, MovedBy
<1>5. HandlerOK'
  BY <1>1, <1>2, <1>4, AtBench DEF Moved
<1> QED BY <1>1, <1>3, <1>4, <1>5, DockerMoves DEF Moved

(* A rollback removes the replacement, or gives the old container a name   *)
(* its row may have.                                                       *)
LEMMA RollBackCallStep ==
    ASSUME IInv, h \in Handler, NEW n \in ContainerName, RollBackCall(n), UNCHANGED <<made, gone>>,
           h.new # 0 => h.new # h.cid /\ Spare(h.new),
           h.cid # 0 => /\ h.cid \in There /\ box[h.cid].man /\ n \notin {Foreign, <<>>}
                        /\ \A d \in Live, e \in Deps :
                             rows[d].spec # NoSpec /\ rows[d].cid = h.cid
                               /\ n = backup_container_name(e) => e = d
    PROVE  /\ Docker /\ There' \subseteq There /\ (h.cid # 0 => h.cid \in There')
           /\ h' \in Handler /\ h'.pc = h.pc /\ h'.t = h.t /\ h'.d = h.d /\ h'.sp = h.sp
           /\ h'.orig = h.orig /\ h'.cid = h.cid /\ h'.new = 0 /\ (h'.own <=> h.own)
<1>1. h.new \in Boxes \cup {0} /\ h.cid \in Boxes \cup {0}
  BY DEF Handler
<1>2. \/ h.new # 0 /\ h' = [h EXCEPT !.new = 0] /\ (box' = Remove(box, h.new) \/ box' = box)
      \/ /\ h.new = 0 /\ h.cid # 0 /\ Named(n) = {}
         /\ box' = Rename(h.cid, n) /\ h' = [h EXCEPT !.name = n]
  BY DEF RollBackCall
<1>3. /\ h' \in Handler /\ h'.pc = h.pc /\ h'.t = h.t /\ h'.d = h.d /\ h'.sp = h.sp
      /\ h'.orig = h.orig /\ h'.cid = h.cid /\ h'.new = 0 /\ (h'.own <=> h.own)
  BY <1>2 DEF Handler
<1>4. Docker /\ There' \subseteq There /\ (h.cid # 0 => h.cid \in There')
  <2>1. CASE box' = box
    BY <2>1, NoneStep
  <2>2. CASE h.new # 0 /\ box' = Remove(box, h.new)
    <3>1. PICK c \in Boxes : c = h.new /\ Spare(c)
      BY <1>1, <2>2
    <3>2. Docker /\ There' = There \ {c}
      BY <2>2, <3>1, RemoveStep
    <3> QED BY <2>2, <3>1, <3>2
  <2>3. CASE h.cid # 0 /\ Named(n) = {} /\ box' = Rename(h.cid, n)
    <3>1. PICK c \in There : c = h.cid /\ box[c].man
      BY <2>3
    <3>2. \A x \in There \ {c} : box[x].name # n
      BY <2>3 DEF Named
    <3>3. Docker /\ There' = There
      BY <2>3, <3>1, <3>2, RenameStep
    <3> QED BY <3>1, <3>3
  <2> QED BY <1>2, <2>1, <2>2, <2>3
<1> QED BY <1>3, <1>4

(* The last call of a rollback may start the old container.                *)
LEMMA RollBackLastStep ==
    ASSUME IInv, h \in Handler, NEW n, RollBackLast(n), UNCHANGED <<made, gone>>,
           h.cid # 0 => h.cid \in There
    PROVE  Docker /\ There' = There /\ h.new = 0
<1>1. PICK r : r = (box[h.cid].run \/ PortFree(h.cid))
  OBVIOUS
<1>2. /\ h.new = 0
      /\ box' = box \/ (h.cid # 0 /\ box' = Running(box, h.cid, r))
  BY <1>1 DEF RollBackLast
<1>3. CASE box' = box
  BY <1>2, <1>3, NoneStep
<1>4. CASE h.cid # 0 /\ box' = Running(box, h.cid, r)
  <2>1. PICK c \in There : c = h.cid
    BY <1>4
  <2>2. r \in BOOLEAN
    BY <1>1
  <2>3. Docker /\ There' = There
    BY <1>4, <2>1, <2>2, RunningStep
  <2> QED BY <1>2, <2>3
<1> QED BY <1>2, <1>3, <1>4

(* UpdateBack preserves the invariant: the container it removes is the     *)
(* replacement, which is no row's.                                         *)
LEMMA UpdateBackInv == ASSUME IInv, UpdateBack PROVE IInv'
<1>1. /\ h.pc = "u_back" /\ h.pc \in UpdatePc /\ UNCHANGED <<scan, up>>
      /\ UNCHANGED <<rows, made, gone>>
      /\ \/ RollBackCall(h.orig.cname) /\ tasks' = tasks
         \/ RollBackLast(h.orig.cname) /\ Finish(h.res)
  BY DEF UpdateBack, Only, At, UpdatePc
<1>2. /\ h.pc # "idle" /\ up = "up" /\ h \in Handler /\ tasks[h.t].kind = "update" /\ UpdateInv
      /\ h.d \in Live /\ h.d \in Deps /\ h.cid \in Boxes /\ h.orig.cname \in ContainerName
      /\ h.orig.cname \notin {Foreign, <<>>}
      /\ h.cid \in There => box[h.cid].man
      /\ \A d \in Live : rows[d].cid = h.cid => d = h.d
      /\ \A e \in Deps : rows[h.d].spec # NoSpec
                           /\ h.orig.cname = backup_container_name(e) => e = h.d
  BY <1>1, UpdateFacts
<1>3. h.cid \in There /\ rows[h.d].cid = h.cid
  BY <1>1, <1>2 DEF UpdateInv
<1>4. h.new # 0 => h.new # h.cid /\ Spare(h.new)
  <2> SUFFICES ASSUME h.new # 0 PROVE h.new # h.cid /\ Spare(h.new)
    OBVIOUS
  <2>1. h.new \in There /\ h.new # h.cid /\ box[h.new].dep = h.d
    BY <1>2 DEF UpdateInv
  <2>2. ASSUME NEW d \in Live, rows[d].spec # NoSpec, rows[d].cid = h.new PROVE FALSE
    <3>1. RowOK(d)
      BY DEF IInv, RowInv
    <3>2. box[h.new].dep \in {NoDep, d}
      BY <2>1, <2>2, <3>1 DEF RowOK, Bound
    <3> QED BY <1>2, <1>3, <2>1, <2>2, <3>2, Absent
  <2> QED BY <2>1, <2>2 DEF Spare
<1>5. PICK n \in ContainerName : n = h.orig.cname
  BY <1>2
<1>6. CASE RollBackCall(h.orig.cname) /\ tasks' = tasks
  <2>1. /\ Docker /\ There' \subseteq There /\ h.cid \in There'
        /\ h' \in Handler /\ h'.pc = h.pc /\ h'.t = h.t /\ h'.d = h.d /\ h'.sp = h.sp
        /\ h'.orig = h.orig /\ h'.cid = h.cid /\ h'.new = 0 /\ (h'.own <=> h.own)
    <3>1. h.cid # 0
      BY <1>2, Absent
    <3> QED BY <1>1, <1>2, <1>3, <1>4, <1>5, <1>6, <3>1, RollBackCallStep
  <2>2. Live' = Live
    BY <1>1 DEF Live
  <2>3. OwnPort'
    BY <1>1, <1>2, <2>1, <2>2 DEF OwnPort, UpdateInv
  <2>4. UpdateInv'
    BY <1>1, <1>2, <1>3, <1>6, <2>1, <2>2, <2>3 DEF UpdateInv
  <2>5. h.t \in Tasks /\ tasks[h.t].st = "running"
    BY <1>1, UpdateFacts
  <2>6. HandlerOK'
    BY <1>1, <1>2, <1>6, <2>1, <2>4, <2>5, AtUpdate
  <2> QED BY <1>1, <1>6, <2>1, <2>6, DockerMoves
<1>7. CASE RollBackLast(h.orig.cname) /\ Finish(h.res)
  <2>1. Docker /\ There' = There
    BY <1>1, <1>2, <1>3, <1>5, <1>7, RollBackLastStep
  <2>2. PICK st \in {"failed", "cancelled", "paused"} : st = h.res
    BY <1>2 DEF Handler
  <2> QED BY <1>1, <1>2, <1>7, <2>1, <2>2, RowsStay, DockerEnds
<1> QED BY <1>1, <1>6, <1>7

(***************************************************************************)
(* The recovery of a committed row.                                        *)
(***************************************************************************)
(* The row a recovery is about, and its container.                         *)
LEMMA RecoverFacts ==
    ASSUME IInv, h.pc \in RecoverPc
    PROVE  /\ h.pc # "idle" /\ up = "up" /\ h \in Handler /\ h.t \in Tasks
           /\ tasks[h.t].st = "running" /\ tasks[h.t].kind \in {"create", "update"}
           /\ h.d \in Live /\ h.d \in Deps /\ rows[h.d] \in Row /\ h.orig \in Row
           /\ rows[h.d].spec # NoSpec /\ rows[h.d].man /\ rows[h.d].cid = h.cid
           /\ h.cid \in Boxes /\ RowOK(h.d)
           /\ \A d \in Live : rows[d].cid = h.cid => d = h.d
           /\ h.pc # "v_start" => h.cid \in There
<1>1. RecoverInv /\ h.pc # "idle"
  BY DEF IInv, HandlerOK, RecoverPc
<1>2. /\ h \in Handler /\ h.t \in Tasks /\ tasks[h.t].st = "running" /\ up = "up"
  BY <1>1, Running1
<1>3. /\ tasks[h.t].kind \in {"create", "update"} /\ h.d \in Live /\ h.orig \in Row
      /\ rows[h.d].spec # NoSpec /\ rows[h.d].cid = h.cid
      /\ h.pc # "v_start" => h.cid \in There
  BY <1>1 DEF RecoverInv
<1>4. RowOK(h.d) /\ h.d \in Deps /\ rows[h.d] \in Row
  BY <1>3, Types DEF IInv, RowInv
<1>5. rows[h.d].man /\ h.cid # 0 /\ h.cid \in Boxes
  BY <1>2, <1>3, <1>4 DEF RowOK, Bound, Handler
<1>6. \A d \in Live : rows[d].cid = h.cid => d = h.d
  BY <1>3, <1>5 DEF IInv, CidsDiffer
<1> QED BY <1>1, <1>2, <1>3, <1>4, <1>5, <1>6

(* The recovery goes on.                                                   *)
LEMMA RecoverKept ==
    ASSUME IInv, h.pc \in RecoverPc, up' = up, UNCHANGED <<rows, tasks>>, h.cid \in There',
           h'.pc \in RecoverPc, h'.t = h.t, h'.d = h.d, h'.orig = h.orig, h'.cid = h.cid
    PROVE  HandlerOK'
<1>1. /\ h.pc # "idle" /\ up = "up" /\ h.t \in Tasks /\ tasks[h.t].st = "running"
      /\ tasks[h.t].kind \in {"create", "update"} /\ h.d \in Live /\ h.orig \in Row
      /\ rows[h.d].spec # NoSpec /\ rows[h.d].cid = h.cid
  BY RecoverFacts
<1>2. RecoverInv'
  BY <1>1 DEF RecoverInv, Live
<1> QED BY <1>1, <1>2, AtRecover

(* RecoverStart preserves the invariant.                                   *)
LEMMA RecoverStartInv == ASSUME IInv, RecoverStart PROVE IInv'
<1>1. /\ h.pc = "v_start" /\ h.pc \in RecoverPc /\ UNCHANGED <<scan, up>>
      /\ UNCHANGED <<rows, made, gone>>
  BY DEF RecoverStart, Only, At, RecoverPc
<1>2. /\ h.pc # "idle" /\ up = "up" /\ h \in Handler /\ h.t \in Tasks
      /\ tasks[h.t].kind \in {"create", "update"} /\ h.cid \in Boxes
  BY <1>1, RecoverFacts
<1>3. \/ Finish("failed") /\ box' = box
      \/ /\ box[h.cid] # NoBox /\ tasks' = tasks
         /\ box' = Running(box, h.cid, TRUE) \/ box' = box
         /\ \E k \in {"v_wait", "v_stop"} :
               h' = [h EXCEPT !.pc = k, !.own = ~ box[h.cid].run] \/ h' = [h EXCEPT !.pc = k, !.own = TRUE]
  BY DEF RecoverStart, Only
<1>4. CASE Finish("failed") /\ box' = box
  BY <1>1, <1>2, <1>4, Ends DEF Quiet
<1>5. CASE /\ box[h.cid] # NoBox /\ tasks' = tasks
           /\ box' = Running(box, h.cid, TRUE) \/ box' = box
           /\ \E k \in {"v_wait", "v_stop"} :
               h' = [h EXCEPT !.pc = k, !.own = ~ box[h.cid].run] \/ h' = [h EXCEPT !.pc = k, !.own = TRUE]
  <2>1. PICK c \in There : c = h.cid /\ box[c].run \in BOOLEAN
    BY <1>2, <1>5, Types DEF There, Box, IInv
  <2>2. Docker /\ There' = There
    BY <1>1, <1>5, <2>1, RunningStep, NoneStep
  <2>3. PICK k \in {"v_wait", "v_stop"}, w \in BOOLEAN : h' = [h EXCEPT !.pc = k, !.own = w]
    BY <1>5, <2>1
  <2>4. k \in Pc /\ k \in RecoverPc
    BY Steps DEF RecoverPc
  <2>5. h' \in Handler /\ h'.pc = k /\ h'.t = h.t /\ h'.d = h.d /\ h'.orig = h.orig /\ h'.cid = h.cid
    BY <1>2, <2>3, <2>4 DEF Handler
  <2>6. HandlerOK'
    BY <1>1, <1>5, <2>1, <2>2, <2>4, <2>5, RecoverKept
  <2> QED BY <1>1, <1>5, <2>2, <2>5, <2>6, DockerMoves
<1> QED BY <1>3, <1>4, <1>5

(* RecoverWait preserves the invariant.                                    *)
LEMMA RecoverWaitInv == ASSUME IInv, RecoverWait PROVE IInv'
<1>1. /\ h.pc = "v_wait" /\ h.pc \in RecoverPc /\ UNCHANGED <<scan, up>>
      /\ Wait(h.sp.port, "v_sync", "v_stop")
  BY DEF RecoverWait, Only, At, RecoverPc
<1>2. h \in Handler /\ h.cid \in There
  BY <1>1, RecoverFacts
<1>3. Moved("v_sync") \/ Moved("v_stop")
  BY <1>1, <1>2, Steps, WaitMoves
<1>4. UNCHANGED <<rows, box, made, gone, tasks>>
  BY <1>1, <1>2, Steps, WaitMoves
<1>5. There' = There
  BY <1>4 DEF There
<1>6. HandlerOK' /\ h' \in Handler
  BY <1>1, <1>2, <1>3, <1>4, <1>5, RecoverKept DEF Moved, RecoverPc
<1> QED BY <1>1, <1>4, <1>6, Moves DEF Quiet

(* RecoverSync preserves the invariant.                                    *)
LEMMA RecoverSyncInv == ASSUME IInv, RecoverSync PROVE IInv'
<1>1. /\ h.pc = "v_sync" /\ h.pc \in RecoverPc /\ UNCHANGED <<scan, up>>
      /\ UNCHANGED <<box, made, gone, tasks>>
  BY DEF RecoverSync, Only, At, RecoverPc
<1>2. /\ h.pc # "idle" /\ up = "up" /\ h \in Handler /\ h.t \in Tasks
      /\ tasks[h.t].st = "running" /\ tasks[h.t].kind \in {"create", "update"}
      /\ h.d \in Live /\ h.d \in Deps /\ rows[h.d] \in Row /\ h.orig \in Row
      /\ rows[h.d].spec # NoSpec /\ rows[h.d].man /\ rows[h.d].cid = h.cid
      /\ h.cid \in Boxes /\ RowOK(h.d) /\ h.cid \in There
      /\ \A d \in Live : rows[d].cid = h.cid => d = h.d
  BY <1>1, RecoverFacts
<1>3. /\ box[h.cid] \in Box /\ BoxOK(h.cid) /\ box[h.cid].man /\ box[h.cid].name \in ContainerName
  BY <1>2, Types DEF IInv, BoxInv, RowOK, Bound, Box
<1>4. PICK r : r = [rows[h.d] EXCEPT !.status = "running", !.health = "healthy",
                                     !.cname = box[h.cid].name]
  OBVIOUS
<1>5. /\ r \in Row /\ r.cid = h.cid /\ r.man /\ r.spec = rows[h.d].spec
      /\ r.port = rows[h.d].port /\ r.cname = box[h.cid].name /\ r.status = "running"
  BY <1>2, <1>3, <1>4 DEF Row
<1>6. \/ rows' = [rows EXCEPT ![h.d] = r] /\ Goto("v_drop")
      \/ rows' = rows /\ Raise("v_stop")
  BY <1>4 DEF RecoverSync, Only
<1>7. CASE rows' = rows /\ Raise("v_stop")
  <2>1. Moved("v_stop")
    BY <1>2, <1>7, Steps, MovedBy
  <2>2. There' = There
    BY <1>1 DEF There
  <2>3. HandlerOK' /\ h' \in Handler
    BY <1>1, <1>2, <1>7, <2>1, <2>2, RecoverKept DEF Moved, RecoverPc
  <2> QED BY <1>1, <1>7, <2>3, Moves DEF Quiet
<1>8. CASE rows' = [rows EXCEPT ![h.d] = r] /\ Goto("v_drop")
  <2>1. PICK d \in Deps : d = h.d
    BY <1>2
  <2>2. \A e \in Live \ {d} : rows[e].cid # r.cid
    BY <1>2, <1>5, <2>1
  <2>3. \A e \in Live \ {d} : rows[e].spec # NoSpec => rows[e].port # r.port
    BY <1>2, <1>5, <2>1 DEF IInv, PortsDiffer
  <2>4. There' = There /\ rows'[d] = r
    BY <1>1, <1>8, <2>1 DEF There, IInv, TypeOK
  <2>5. RowOK(d)'
    <3>1. Bound(rows[d], d)'
      BY <1>1, <1>2, <1>3, <1>5, <2>1, <2>4 DEF Bound, BoxOK, RowOK
    <3>2. /\ r.spec.port = r.port /\ r.cid \in There
          /\ \A e \in Deps : r.cname = backup_container_name(e) => e = d
          /\ \A e \in Deps : box[r.cid].name = backup_container_name(e) => e = d
      BY <1>2, <1>5, <2>1 DEF RowOK
    <3> QED BY <1>1, <1>2, <1>5, <2>1, <2>4, <3>1, <3>2 DEF RowOK
  <2>6. Moved("v_drop")
    BY <1>2, <1>8, Steps, MovedBy
  <2>7. RecoverInv'
    <3>1. d \in Live'
      BY <1>5, <2>1, <2>4, Absent DEF Live
    <3> QED BY <1>1, <1>2, <1>5, <2>1, <2>4, <2>6, <3>1 DEF RecoverInv, Moved
  <2>8. HandlerOK' /\ h' \in Handler
    BY <1>1, <1>2, <2>6, <2>7, AtRecover DEF Moved, RecoverPc
  <2>9. r.status \notin Transient /\ rows[d] # OldRow /\ rows[d].man
    BY <1>2, <1>5, <2>1 DEF Transient, Live
  <2> QED BY <1>1, <1>5, <1>8, <2>1, <2>2, <2>3, <2>5, <2>8, <2>9, RowCommit
<1> QED BY <1>6, <1>7, <1>8

(* RecoverClean preserves the invariant: what it removes has the backup    *)
(* name of the row and is not the row's container.                         *)
LEMMA RecoverCleanInv == ASSUME IInv, RecoverClean PROVE IInv'
<1> DEFINE old == {c \in Named(backup_container_name(h.d)) : box[c].man /\ box[h.cid].repl = c}
<1>1. /\ h.pc = "v_drop" /\ h.pc \in RecoverPc /\ UNCHANGED <<scan, up>>
      /\ UNCHANGED <<rows, made, gone>>
      /\ box' = box \/ box' = [c \in Boxes |-> IF c \in old THEN NoBox ELSE box[c]]
      /\ Finish("succeeded") \/ (Goto("bench") /\ tasks' = tasks)
  BY DEF RecoverClean, Only, At, RecoverPc
<1>2. /\ h.pc # "idle" /\ up = "up" /\ h \in Handler /\ h.t \in Tasks
      /\ tasks[h.t].st = "running" /\ tasks[h.t].kind \in {"create", "update"}
      /\ h.d \in Live /\ h.d \in Deps /\ rows[h.d].cid = h.cid /\ h.cid \in There
  BY <1>1, RecoverFacts
<1>3. \A c \in old : Spare(c)
  <2> SUFFICES ASSUME NEW c \in old, NEW d \in Live, rows[d].spec # NoSpec, rows[d].cid = c
               PROVE  FALSE
    BY DEF Spare
  <2>1. c \in There /\ box[c].name = backup_container_name(h.d) /\ box[h.cid].repl = c
    BY DEF Named
  <2>2. d = h.d
    BY <1>2, <2>1 DEF IInv, RowInv, RowOK
  <2>3. BoxOK(h.cid) /\ c # h.cid
    BY <1>2, <2>1 DEF IInv, BoxInv, BoxOK
  <2> QED BY <1>2, <2>2, <2>3
<1>4. Docker /\ There' \subseteq There
  <2>1. CASE box' = box
    BY <1>1, <2>1, NoneStep
  <2>2. CASE box' = [c \in Boxes |-> IF c \in old THEN NoBox ELSE box[c]]
    <3> HIDE DEF old
    <3>1. box \in [Boxes -> Box \cup {NoBox}] /\ made \in 0 .. MaxBoxes
      BY DEF IInv, TypeOK
    <3>2. box' \in [Boxes -> Box \cup {NoBox}]
      BY <2>2, <3>1
    <3>3. There' \subseteq There /\ (\A x \in There' : box'[x] = box[x])
          /\ \A x \in There \ There' : x \in old
      BY <2>2 DEF There
    <3>4. BoxStep /\ Renames /\ Loses /\ Distinct'
      BY <1>1, <1>3, <3>3 DEF BoxStep, Alike, Renames, Loses, Distinct, IInv, BoxInv, BoxOK
    <3> QED BY <1>1, <3>1, <3>2, <3>3, <3>4 DEF Docker
  <2> QED BY <1>1, <2>1, <2>2
<1> HIDE DEF old
<1>5. CASE Finish("succeeded")
  BY <1>1, <1>2, <1>4, <1>5, RowsStay, DockerEnds
<1>6. CASE Goto("bench") /\ tasks' = tasks
  <2>1. Moved("bench")
    BY <1>2, <1>6, Steps, MovedBy
  <2>2. HandlerOK'
    BY <1>1, <1>2, <1>6, <2>1, AtBench DEF Moved
  <2> QED BY <1>1, <1>4, <1>6, <2>1, <2>2, DockerMoves DEF Moved
<1> QED BY <1>1, <1>5, <1>6

(* RecoverStop preserves the invariant.                                    *)
LEMMA RecoverStopInv == ASSUME IInv, RecoverStop PROVE IInv'
<1>1. /\ h.pc = "v_stop" /\ h.pc \in RecoverPc /\ UNCHANGED <<scan, up>>
      /\ UNCHANGED <<rows, made, gone>> /\ Finish(h.res)
      /\ box' = box \/ box' = Running(box, h.cid, FALSE)
  BY DEF RecoverStop, Only, At, RecoverPc
<1>2. /\ h.pc # "idle" /\ h \in Handler /\ tasks[h.t].kind \in {"create", "update"}
      /\ h.cid \in There
  BY <1>1, RecoverFacts
<1>3. PICK c \in There : c = h.cid
  BY <1>2
<1>4. Docker /\ There' \subseteq There
  BY <1>1, <1>3, NoneStep, RunningStep
<1>5. PICK st \in {"failed", "cancelled", "paused"} : st = h.res
  BY <1>2 DEF Handler
<1> QED BY <1>1, <1>2, <1>4, <1>5, RowsStay, DockerEnds

(***************************************************************************)
(* deployment.action                                                       *)
(***************************************************************************)
(* The status an action marks its row with.                                *)
LEMMA TransientOfType == \A a \in Action : TransientOf[a] \in Transient
  BY DEF TransientOf, Transient, Action

(* The row an action is about.                                             *)
LEMMA ActionFacts ==
    ASSUME IInv, h.pc \in ActionPc \cup RebuildPc
    PROVE  /\ h.pc # "idle" /\ up = "up" /\ h \in Handler /\ h.t \in Tasks
           /\ tasks[h.t].st = "running" /\ tasks[h.t].kind = "action" /\ ActionInv
           /\ tasks[h.t] \in Task /\ h.d = tasks[h.t].d /\ h.d \in Live /\ h.d \in Deps
           /\ rows[h.d] \in Row /\ RowOK(h.d) /\ h.orig \in Row /\ Act \in Action
           /\ rows[h.d].man /\ rows[h.d].status \in Transient => Marked
<1>1. ActionInv /\ h.pc # "idle"
  BY DEF IInv, HandlerOK, ActionPc, RebuildPc
<1>2. /\ h \in Handler /\ h.t \in Tasks /\ tasks[h.t].st = "running" /\ up = "up"
      /\ tasks[h.t] \in Task /\ TaskOK(h.t)
  BY <1>1, Running1
<1>3. tasks[h.t].kind = "action" /\ h.d = tasks[h.t].d /\ h.d \in Live /\ h.orig \in Row
  BY <1>1 DEF ActionInv
<1>4. h.d \in Deps /\ rows[h.d] \in Row /\ RowOK(h.d)
  BY <1>3, Types DEF IInv, RowInv
<1>5. Act \in Action
  BY <1>2, <1>3 DEF TaskOK, Act
<1>6. rows[h.d].man /\ rows[h.d].status \in Transient => Marked
  BY <1>1, <1>3 DEF ActionInv, Marked, deployment_identity_filters
<1> QED BY <1>1, <1>2, <1>3, <1>4, <1>5, <1>6

(* The status and health of a row.                                         *)
LEMMA StatusColumns ==
    ASSUME IInv, NEW d \in Live, NEW st \in Transient \cup {"running", "exited", "unknown"},
           NEW hl \in {"healthy", "unhealthy", "unknown"},
           rows' = [rows EXCEPT ![d].status = st, ![d].health = hl]
    PROVE  /\ RowStep /\ Live' = Live /\ rows' \in [Deps -> Row \cup {NoRow, OldRow}]
           /\ rows'[d].status = st /\ Same(rows[d], rows'[d])
           /\ \A e \in Deps : e # d => rows'[e] = rows[e]
           /\ st \notin Transient => MarkStep
<1>1. rows \in [Deps -> Row \cup {NoRow, OldRow}] /\ d \in Deps /\ rows[d] \in Row
  BY Types DEF IInv, TypeOK
<1>2. PICK r : r = [rows[d] EXCEPT !.status = st, !.health = hl]
  OBVIOUS
<1>3. r \in Row /\ Same(rows[d], r) /\ r.status = st
  BY <1>1, <1>2 DEF Row, Same
<1>4. rows' = [rows EXCEPT ![d] = r]
  BY <1>1, <1>2 DEF Row
<1>5. /\ rows' \in [Deps -> Row \cup {NoRow, OldRow}] /\ rows'[d] = r
      /\ \A e \in Deps : e # d => rows'[e] = rows[e]
  BY <1>1, <1>3, <1>4
<1>6. Live' = Live
  BY <1>1, <1>3, <1>5, Absent DEF Live
<1>7. RowStep
  BY <1>1, <1>3, <1>5, <1>6, Absent DEF RowStep, Live, Same
<1>8. st \notin Transient => MarkStep
  BY <1>1, <1>3, <1>5, <1>6 DEF MarkStep, Live, Same
<1> QED BY <1>3, <1>5, <1>6, <1>7, <1>8

(* ActionBegin preserves the invariant.                                    *)
LEMMA ActionBeginInv == ASSUME IInv, ActionBegin PROVE IInv'
<1>1. /\ h.pc = "action" /\ h.pc \in BeginPc /\ h.pc # "idle" /\ UNCHANGED <<scan, up>>
      /\ UNCHANGED <<box, made, gone>>
  BY DEF ActionBegin, Only, At, BeginPc
<1>2. PICK t, d : t = tasks[h.t] /\ d = tasks[h.t].d
  OBVIOUS
<1>3. /\ h \in Handler /\ h.t \in Tasks /\ t.st = "running" /\ up = "up" /\ t \in Task
      /\ t.kind = "action" /\ h.new = 0 /\ d \in Deps /\ t.act \in Action
  BY <1>1, <1>2, Running1, AtBegin
<1>4. \/ /\ \/ d \notin Live
            \/ rows[d].cid # t.cid \/ rows[d].cname # t.cname
            \/ t.act # "delete" /\ t.cid = 0
         /\ Finish("failed") /\ rows' = rows
      \/ /\ d \in Live /\ rows[d].cid = t.cid /\ rows[d].cname = t.cname
         /\ t.act = "delete" \/ t.cid # 0
         /\ rows' = [rows EXCEPT ![d].status = TransientOf[t.act], ![d].health = "unknown"]
         /\ h' = [h EXCEPT !.d = d, !.orig = rows[d], !.cid = t.cid,
                           !.pc = IF t.cid = 0 THEN "a_stale" ELSE "a_get"]
         /\ tasks' = tasks
  BY <1>2 DEF ActionBegin, Only
<1>5. CASE /\ \/ d \notin Live
              \/ rows[d].cid # t.cid \/ rows[d].cname # t.cname
              \/ t.act # "delete" /\ t.cid = 0
           /\ Finish("failed") /\ rows' = rows
  <2>1. \A e \in Live : /\ e = tasks[h.t].d /\ rows[e].man /\ rows[e].status \in Transient
                        => rows[e].cid # tasks[h.t].cid \/ rows[e].cname # tasks[h.t].cname
    BY <1>2, <1>5 DEF IInv, RowInv, RowOK, Bound
  <2> QED BY <1>1, <1>5, <2>1, Ends DEF Quiet
<1>6. CASE /\ d \in Live /\ rows[d].cid = t.cid /\ rows[d].cname = t.cname
           /\ t.act = "delete" \/ t.cid # 0
           /\ rows' = [rows EXCEPT ![d].status = TransientOf[t.act], ![d].health = "unknown"]
           /\ h' = [h EXCEPT !.d = d, !.orig = rows[d], !.cid = t.cid,
                             !.pc = IF t.cid = 0 THEN "a_stale" ELSE "a_get"]
           /\ tasks' = tasks
  <2>1. PICK st \in Transient : st = TransientOf[t.act]
    BY <1>3, TransientOfType
  <2>2. /\ RowStep /\ Live' = Live /\ rows' \in [Deps -> Row \cup {NoRow, OldRow}]
        /\ rows'[d].status = st /\ Same(rows[d], rows'[d])
        /\ \A e \in Deps : e # d => rows'[e] = rows[e]
    BY <1>6, <2>1, StatusColumns
  <2>3. rows[d] \in Row /\ RowOK(d) /\ t.cid \in Boxes \cup {0}
    BY <1>3, <1>6, Types DEF IInv, RowInv, Task
  <2>4. PICK k \in {"a_stale", "a_get"} :
          k = (IF t.cid = 0 THEN "a_stale" ELSE "a_get") /\ k \in Pc
    BY Steps
  <2>5. /\ h' \in Handler /\ h'.pc = k /\ h'.t = h.t /\ h'.d = d /\ h'.orig = rows[d]
        /\ h'.cid = t.cid /\ h'.new = 0
    BY <1>3, <1>6, <2>3, <2>4, ZenonT(60) DEF Handler
  <2>6. ActionInv'
    <3>0. tasks'[h'.t] = t /\ d \in Live'
      BY <1>2, <1>6, <2>2, <2>5
    <3>1. tasks'[h'.t].kind = "action" /\ h'.d = tasks'[h'.t].d /\ h'.d \in Live'
          /\ h'.orig \in Row
      <4>1. t.d = d
        BY <1>2
      <4>2. h'.orig \in Row
        BY <2>3, <2>5
      <4> QED BY <1>3, <2>5, <3>0, <4>1, <4>2
    <3>2. rows'[h'.d].man =>
            /\ rows'[h'.d].cid = tasks'[h'.t].cid /\ rows'[h'.d].cname = tasks'[h'.t].cname
            /\ rows'[h'.d].status = TransientOf[Act']
      <4>1. Act' = t.act
        BY <3>0 DEF Act
      <4>2. rows'[d].cid = t.cid /\ rows'[d].cname = t.cname /\ rows'[d].status = TransientOf[t.act]
        BY <1>6, <2>1, <2>2 DEF Same
      <4> QED BY <2>5, <3>0, <4>1, <4>2
    <3>3. h'.orig.contract => /\ rows'[h'.d].spec # NoSpec /\ rows'[h'.d].port = h'.orig.port
                              /\ h'.orig.spec # NoSpec /\ h'.orig.spec.port = h'.orig.port
      <4>1. PICK r : r = rows[d]
        OBVIOUS
      <4>2. r.contract => r.spec # NoSpec /\ r.spec.port = r.port
        BY <2>3, <4>1 DEF RowOK
      <4>3. rows'[d].spec = r.spec /\ rows'[d].port = r.port
        BY <2>2, <4>1 DEF Same
      <4> QED BY <2>5, <4>1, <4>2, <4>3
    <3>4. h'.pc = "a_stale" => Act' = "delete"
      BY <1>2, <1>6, <2>4, <2>5 DEF Act
    <3>5. h'.new = 0 /\ (h'.pc \in {"a_get", "a_do"} => h'.cid # 0 /\ h'.cid = tasks'[h'.t].cid)
      <4>1. k = "a_get" => t.cid # 0
        BY <2>4
      <4> QED BY <2>4, <2>5, <3>0, <4>1
    <3> QED BY <3>1, <3>2, <3>3, <3>4, <3>5 DEF ActionInv
  <2>7. HandlerOK'
    BY <1>1, <1>2, <1>3, <1>6, <2>4, <2>5, <2>6, AtAction DEF ActionPc
  <2>8. TypeOK' /\ TaskStep
    BY <1>1, <1>6, <2>2, <2>5 DEF IInv, TypeOK, TaskStep
  <2>9. Docker /\ There' = There
    BY <1>1, NoneStep
  <2>10. BoxInv' /\ RowInv' /\ CidsDiffer' /\ PortsDiffer' /\ ScanOK'
    BY <1>1, <2>2, <2>8, <2>9, Frame DEF Docker
  <2>11. MarkInv'
    <3> SUFFICES ASSUME NEW e \in Live' PROVE MarkOK(e)'
      BY DEF MarkInv
    <3>1. CASE e = d
      <4>1. /\ tasks'[h.t].kind = "action" /\ tasks'[h.t].d = e
            /\ tasks'[h.t].cid = rows'[e].cid /\ tasks'[h.t].cname = rows'[e].cname
            /\ tasks'[h.t].st \in {"queued", "running", "paused", "cancelled"}
        BY <1>2, <1>3, <1>6, <2>2, <3>1 DEF Same
      <4> QED BY <1>3, <4>1 DEF MarkOK
    <3>2. CASE e # d
      <4>1. e \in Live /\ rows'[e] = rows[e] /\ MarkOK(e)
        BY <2>2, <3>2 DEF IInv, MarkInv, Live
      <4> QED BY <1>6, <4>1 DEF MarkOK
    <3> QED BY <3>1, <3>2
  <2>12. TaskInv'
    BY <1>6 DEF IInv, TaskInv, TaskOK
  <2> QED BY <2>7, <2>8, <2>10, <2>11, <2>12 DEF IInv
<1> QED BY <1>4, <1>5, <1>6

(* The action goes on.                                                     *)
LEMMA ActionKept ==
    ASSUME IInv, h.pc \in ActionPc \cup RebuildPc, UNCHANGED <<rows, tasks>>,
           h'.t = h.t, h'.d = h.d, h'.orig = h.orig,
           h'.pc \in {"a_get", "a_do"} => h'.cid # 0 /\ h'.cid = tasks[h.t].cid,
           h'.pc = "a_stale" => Act = "delete",
           h'.pc \in ActionPc \cup {"b_stop", "b_name", "b_run"} => h'.new = 0
    PROVE  ActionInv'
<1>1. ActionInv
  BY ActionFacts
<1>2. Live' = Live /\ Act' = Act
  BY DEF Live, Act
<1> QED BY <1>1, <1>2 DEF ActionInv

(* Docker has no such container.                                           *)
LEMMA NotFoundInv ==
    ASSUME IInv, h.pc \in {"a_get", "a_do"}, NotFound, Quiet, tasks' = tasks, up' = up
    PROVE  IInv'
<1>1. h.pc \in ActionPc
  BY DEF ActionPc
<1>2. /\ h.pc # "idle" /\ up = "up" /\ h \in Handler /\ h.t \in Tasks
      /\ tasks[h.t].st = "running" /\ ActionInv
  BY <1>1, ActionFacts
<1>3. PICK k \in {"b_run", "a_stale", "a_fail"} :
        /\ h' = [h EXCEPT !.pc = k, !.cid = 0]
        /\ k = "b_run" => h.orig.contract
        /\ k = "a_stale" => Act = "delete"
  BY DEF NotFound
<1>4. k \in Pc
  BY Steps
<1>5. /\ h' \in Handler /\ h'.pc = k /\ h'.t = h.t /\ h'.d = h.d /\ h'.orig = h.orig
      /\ h'.cid = 0 /\ h'.new = h.new
  BY <1>2, <1>3, <1>4 DEF Handler
<1>6. h.new = 0
  BY <1>1, <1>2 DEF ActionInv
<1>7. ActionInv'
  BY <1>1, <1>3, <1>5, <1>6, ActionKept DEF Quiet
<1>8. k = "b_run" => RebuildInv'
  BY <1>3, <1>5, <1>6 DEF RebuildInv
<1>9. HandlerOK'
  BY <1>2, <1>5, <1>7, <1>8, AtAction, AtRebuild DEF ActionPc, RebuildPc
<1> QED BY <1>5, <1>9, Moves

(* ActionGet preserves the invariant.                                      *)
LEMMA ActionGetInv == ASSUME IInv, ActionGet PROVE IInv'
<1>1. /\ h.pc = "a_get" /\ h.pc \in ActionPc /\ UNCHANGED <<scan, up, world, tasks>>
  BY DEF ActionGet, Only, At, ActionPc
<1>2. /\ h.pc # "idle" /\ up = "up" /\ h \in Handler /\ h.t \in Tasks
      /\ tasks[h.t].st = "running" /\ ActionInv
  BY <1>1, ActionFacts
<1>3. CASE NotFound
  BY <1>1, <1>3, NotFoundInv DEF Quiet, world
<1>4. ASSUME box[h.cid] # NoBox,
             \E k \in {"a_fail", "b_stop", "a_do"} :
                /\ h' = [h EXCEPT !.name = box[h.cid].name, !.run = box[h.cid].run,
                                  !.was = box[h.cid].run, !.pc = k]
                /\ k = "b_stop" => h.orig.contract
      PROVE  IInv'
  <2>1. h.cid # 0 /\ h.cid = tasks[h.t].cid /\ h.new = 0
    BY <1>1, <1>2 DEF ActionInv
  <2>2. h.cid \in There /\ box[h.cid] \in Box
    BY <1>2, <1>4, <2>1, Types DEF There, Handler, IInv
  <2>3. box[h.cid].name \in ContainerName /\ box[h.cid].run \in BOOLEAN
    BY <2>2 DEF Box
  <2>4. PICK k \in {"a_fail", "b_stop", "a_do"} :
          /\ h' = [h EXCEPT !.name = box[h.cid].name, !.run = box[h.cid].run,
                            !.was = box[h.cid].run, !.pc = k]
          /\ k = "b_stop" => h.orig.contract
    BY <1>4
  <2>5. k \in Pc
    BY Steps
  <2>6. /\ h' \in Handler /\ h'.pc = k /\ h'.t = h.t /\ h'.d = h.d /\ h'.orig = h.orig
        /\ h'.cid = h.cid /\ h'.new = h.new
    BY <1>2, <2>3, <2>4, <2>5 DEF Handler
  <2>7. ActionInv'
    BY <1>1, <2>1, <2>6, ActionKept DEF world
  <2>8. There' = There
    BY <1>1 DEF world, There
  <2>9. k = "b_stop" => RebuildInv'
    BY <1>1, <2>1, <2>2, <2>4, <2>6, <2>8 DEF RebuildInv
  <2>10. HandlerOK'
    BY <1>1, <1>2, <2>6, <2>7, <2>9, AtAction, AtRebuild DEF ActionPc, RebuildPc
  <2> QED BY <1>1, <2>6, <2>10, Moves DEF Quiet, world
<1>5. CASE h' = [h EXCEPT !.pc = "a_fail", !.cid = 0]
  <2>1. "a_fail" \in Pc /\ "a_fail" \in ActionPc /\ h.new = 0
    BY <1>1, <1>2, Steps DEF ActionPc, ActionInv
  <2>2. /\ h' \in Handler /\ h'.pc = "a_fail" /\ h'.t = h.t /\ h'.d = h.d /\ h'.orig = h.orig
        /\ h'.cid = 0 /\ h'.new = h.new
    BY <1>2, <1>5, <2>1 DEF Handler
  <2>3. ActionInv'
    BY <1>1, <2>1, <2>2, ActionKept DEF world
  <2>4. HandlerOK'
    BY <1>1, <1>2, <2>1, <2>2, <2>3, AtAction
  <2> QED BY <1>1, <2>2, <2>4, Moves DEF Quiet, world
<1>6. \/ NotFound
      \/ /\ box[h.cid] # NoBox
         /\ \E k \in {"a_fail", "b_stop", "a_do"} :
                /\ h' = [h EXCEPT !.name = box[h.cid].name, !.run = box[h.cid].run,
                                  !.was = box[h.cid].run, !.pc = k]
                /\ k = "b_stop" => h.orig.contract
      \/ h' = [h EXCEPT !.pc = "a_fail", !.cid = 0]
  BY DEF ActionGet, Only
<1> QED BY <1>3, <1>4, <1>5, <1>6

(* ActionDo preserves the invariant: what a delete removes is in gone.     *)
LEMMA ActionDoInv == ASSUME IInv, ActionDo PROVE IInv'
<1>1. /\ h.pc = "a_do" /\ h.pc \in ActionPc /\ UNCHANGED <<scan, up, rows, made, tasks>>
  BY DEF ActionDo, Only, At, ActionPc
<1>2. /\ h.pc # "idle" /\ up = "up" /\ h \in Handler /\ h.t \in Tasks
      /\ tasks[h.t].st = "running" /\ ActionInv
  BY <1>1, ActionFacts
<1>3. PICK c \in Boxes : c = h.cid /\ h.new = 0
  BY <1>1, <1>2 DEF ActionInv, Handler
<1>4. \/ NotFound /\ UNCHANGED <<box, gone>>
      \/ /\ box[c] # NoBox /\ box' = Remove(box, c) /\ gone' = gone \cup {c} /\ Goto("a_end")
      \/ /\ box[c] # NoBox /\ gone' = gone
         /\ box' = Running(box, c, FALSE) /\ (Goto("a_end") \/ Goto("a_do"))
      \/ /\ box[c] # NoBox /\ gone' = gone
         /\ box' = Running(box, c, TRUE) /\ Goto("a_wait")
      \/ UNCHANGED <<box, gone>> /\ Raise("a_fail")
  <2>1. h' = h => Goto("a_do")
    BY <1>1, <1>2 DEF Goto, Handler
  <2> QED BY <1>3, <2>1 DEF ActionDo, Only
<1>5. CASE NotFound /\ UNCHANGED <<box, gone>>
  BY <1>1, <1>5, NotFoundInv DEF Quiet
<1>6. ASSUME NEW k \in {"a_end", "a_wait", "a_fail", "a_do"}, Goto(k) \/ Raise(k), Docker,
             There' \subseteq There
      PROVE  IInv'
  <2>1. k \in Pc /\ k \in ActionPc
    BY Steps DEF ActionPc
  <2>2. Moved(k)
    BY <1>2, <1>6, <2>1, MovedBy
  <2>3. ActionInv'
    <3>1. h.cid # 0 /\ h.cid = tasks[h.t].cid
      BY <1>1, <1>2 DEF ActionInv
    <3> QED BY <1>1, <1>3, <2>2, <3>1, ActionKept DEF Moved
  <2>4. HandlerOK'
    BY <1>1, <1>2, <2>1, <2>2, <2>3, AtAction DEF Moved
  <2> QED BY <1>1, <1>6, <2>2, <2>4, DockerMoves DEF Moved
<1>7. CASE box[c] # NoBox /\ box' = Remove(box, c) /\ gone' = gone \cup {c} /\ Goto("a_end")
  BY <1>1, <1>6, <1>7, RemoveStep
<1>8. ASSUME NEW b \in BOOLEAN, box[c] # NoBox, gone' = gone, box' = Running(box, c, b),
             NEW k \in {"a_end", "a_wait", "a_do"}, Goto(k)
      PROVE  IInv'
  <2>1. c \in There
    BY <1>8 DEF There
  <2>2. Docker /\ There' = There
    BY <1>1, <1>8, <2>1, RunningStep
  <2> QED BY <1>6, <1>8, <2>2
<1>9. CASE UNCHANGED <<box, gone>> /\ Raise("a_fail")
  BY <1>1, <1>6, <1>9, NoneStep
<1> QED BY <1>4, <1>5, <1>7, <1>8, <1>9

(* ActionWait preserves the invariant.                                     *)
LEMMA ActionWaitInv == ASSUME IInv, ActionWait PROVE IInv'
<1>1. /\ h.pc = "a_wait" /\ h.pc \in ActionPc /\ UNCHANGED <<scan, up, rows, box, made, gone>>
      /\ \/ Goto("a_end") /\ tasks' = tasks
         \/ Raise("a_fail") /\ tasks' = tasks
         \/ \E r \in {"paused", "cancelled"} : Finish(r)
  BY DEF ActionWait, Only, At, ActionPc
<1>2. /\ h.pc # "idle" /\ up = "up" /\ h \in Handler /\ h.t \in Tasks
      /\ tasks[h.t].st = "running" /\ ActionInv
  BY <1>1, ActionFacts
<1>3. ASSUME NEW r \in {"paused", "cancelled"}, Finish(r) PROVE IInv'
  BY <1>1, <1>2, <1>3, Ends DEF Quiet
<1>4. ASSUME NEW k \in {"a_end", "a_fail"}, Goto(k) \/ Raise(k), tasks' = tasks PROVE IInv'
  <2>1. k \in Pc /\ k \in ActionPc
    BY Steps DEF ActionPc
  <2>2. Moved(k)
    BY <1>2, <1>4, <2>1, MovedBy
  <2>3. h.new = 0
    BY <1>1, <1>2 DEF ActionInv
  <2>4. ActionInv'
    BY <1>1, <1>4, <2>2, <2>3, ActionKept DEF Moved
  <2>5. HandlerOK'
    BY <1>1, <1>2, <1>4, <2>1, <2>2, <2>4, AtAction DEF Moved
  <2> QED BY <1>1, <1>4, <2>2, <2>5, Moves DEF Moved, Quiet
<1> QED BY <1>1, <1>3, <1>4

(* _recover_action_failure changes a status, and leaves no mark of this    *)
(* action.                                                                 *)
LEMMA RecoverRows ==
    ASSUME IInv, h.pc \in ActionPc \cup RebuildPc, NEW b, NEW c,
           rows' = recover_action_failure(b, c)
    PROVE  /\ Live' = Live /\ RowStep /\ MarkStep /\ rows' \in [Deps -> Row \cup {NoRow, OldRow}]
           /\ \A d \in Live' : /\ d = tasks[h.t].d
                               /\ rows'[d].man /\ rows'[d].status \in Transient
                               => \/ rows'[d].cid # tasks[h.t].cid
                                  \/ rows'[d].cname # tasks[h.t].cname
<1>1. /\ h.d = tasks[h.t].d /\ h.d \in Live
      /\ rows[h.d].man /\ rows[h.d].status \in Transient => Marked
  BY ActionFacts
<1>2. CASE ~ Marked
  <2>1. rows' = rows
    BY <1>2 DEF recover_action_failure
  <2>2. Live' = Live
    BY <2>1 DEF Live
  <2> QED BY <1>1, <1>2, <2>1, <2>2, RowsStay
<1>3. CASE Marked
  <2>1. PICK st \in {"running", "exited", "unknown"} :
           st = stable_container_status(b, c, h.orig.status)
    BY DEF stable_container_status
  <2>2. PICK d \in Live : d = h.d
    BY <1>1
  <2>3. rows' = [rows EXCEPT ![d].status = st, ![d].health = "unhealthy"]
    BY <1>3, <2>1, <2>2 DEF recover_action_failure
  <2>4. st \notin Transient /\ st \in Transient \cup {"running", "exited", "unknown"}
    BY DEF Transient
  <2>5. /\ RowStep /\ Live' = Live /\ rows' \in [Deps -> Row \cup {NoRow, OldRow}]
        /\ rows'[d].status = st /\ MarkStep
    BY <2>3, <2>4, StatusColumns
  <2> QED BY <1>1, <2>2, <2>4, <2>5
<1> QED BY <1>2, <1>3

(* The row of a delete goes.                                               *)
LEMMA DeletedRow ==
    ASSUME IInv, NEW d \in Live, rows' = [rows EXCEPT ![d] = OldRow]
    PROVE  /\ RowStep /\ MarkStep /\ rows' \in [Deps -> Row \cup {NoRow, OldRow}]
           /\ d \notin Live'
<1>1. rows \in [Deps -> Row \cup {NoRow, OldRow}] /\ d \in Deps
  BY DEF IInv, TypeOK, Live
<1>2. /\ rows' \in [Deps -> Row \cup {NoRow, OldRow}] /\ rows'[d] = OldRow
      /\ \A e \in Deps : e # d => rows'[e] = rows[e]
  BY <1>1
<1>3. d \notin Live' /\ Live' \subseteq Live
  BY <1>2 DEF Live
<1>4. RowStep
  BY <1>2, <1>3, Absent DEF RowStep, Same, Live
<1>5. MarkStep
  BY <1>2, <1>3 DEF MarkStep, Live
<1> QED BY <1>2, <1>3, <1>4, <1>5

(* ActionFail preserves the invariant.                                     *)
LEMMA ActionFailInv == ASSUME IInv, ActionFail PROVE IInv'
<1>1. /\ h.pc = "a_fail" /\ h.pc \in ActionPc /\ UNCHANGED <<scan, up, box, made, gone>>
      /\ rows' = recover_action_failure(box, h.cid) /\ Finish(h.res)
  BY DEF ActionFail, Only, At, ActionPc
<1>2. h.pc # "idle" /\ h \in Handler
  BY <1>1, ActionFacts
<1>3. PICK st \in {"failed", "cancelled", "paused"} : st = h.res
  BY <1>2 DEF Handler
<1>4. PICK b, c : b = box /\ c = h.cid
  OBVIOUS
<1>5. /\ RowStep /\ MarkStep /\ rows' \in [Deps -> Row \cup {NoRow, OldRow}]
      /\ \A d \in Live' : /\ d = tasks[h.t].d
                          /\ rows'[d].man /\ rows'[d].status \in Transient
                          => \/ rows'[d].cid # tasks[h.t].cid
                             \/ rows'[d].cname # tasks[h.t].cname
  BY <1>1, <1>4, RecoverRows
<1>6. Docker /\ There' = There
  BY <1>1, NoneStep
<1> QED BY <1>1, <1>2, <1>3, <1>5, <1>6, DockerEnds

(* ActionEnd preserves the invariant.                                      *)
LEMMA ActionEndInv == ASSUME IInv, ActionEnd PROVE IInv'
<1>1. /\ h.pc = "a_end" /\ h.pc \in ActionPc /\ UNCHANGED <<scan, up, box, made, gone>>
  BY DEF ActionEnd, Only, At, ActionPc
<1>2. /\ h.pc # "idle" /\ h \in Handler /\ h.d = tasks[h.t].d /\ h.d \in Live
      /\ rows[h.d].man /\ rows[h.d].status \in Transient => Marked
  BY <1>1, ActionFacts
<1>3. PICK d \in Live : d = h.d
  BY <1>2
<1>4. Docker /\ There' = There
  BY <1>1, NoneStep
<1>5. \/ ~ Marked /\ Finish("failed") /\ rows' = rows
      \/ Finish("succeeded") /\ rows' = [rows EXCEPT ![d] = OldRow]
      \/ /\ Finish("succeeded")
         /\ \E st \in {"exited", "running"}, hl \in {"unknown", "healthy"} :
               rows' = [rows EXCEPT ![d].status = st, ![d].health = hl]
  BY <1>3 DEF ActionEnd, Only
<1>6. CASE ~ Marked /\ Finish("failed") /\ rows' = rows
  BY <1>1, <1>2, <1>6, Ends DEF Quiet
<1>7. CASE Finish("succeeded") /\ rows' = [rows EXCEPT ![d] = OldRow]
  <2>1. /\ RowStep /\ MarkStep /\ rows' \in [Deps -> Row \cup {NoRow, OldRow}]
        /\ d \notin Live'
    BY <1>7, DeletedRow
  <2> QED BY <1>1, <1>2, <1>3, <1>4, <1>7, <2>1, DockerEnds
<1>8. ASSUME Finish("succeeded"), NEW st \in {"exited", "running"},
             NEW hl \in {"unknown", "healthy"},
             rows' = [rows EXCEPT ![d].status = st, ![d].health = hl]
      PROVE  IInv'
  <2>1. st \notin Transient /\ st \in Transient \cup {"running", "exited", "unknown"}
    BY DEF Transient
  <2>2. /\ RowStep /\ rows' \in [Deps -> Row \cup {NoRow, OldRow}]
        /\ rows'[d].status = st /\ MarkStep
    BY <1>8, <2>1, StatusColumns
  <2>3. \A e \in Live' : e = tasks[h.t].d => rows'[e].status \notin Transient
    BY <1>2, <1>3, <2>1, <2>2
  <2> QED BY <1>1, <1>2, <1>4, <1>8, <2>2, <2>3, DockerEnds
<1> QED BY <1>5, <1>6, <1>7, <1>8

(* ActionStale preserves the invariant.                                    *)
LEMMA ActionStaleInv == ASSUME IInv, ActionStale PROVE IInv'
<1>1. /\ h.pc = "a_stale" /\ h.pc \in ActionPc /\ UNCHANGED <<scan, up, box, made, gone>>
  BY DEF ActionStale, Only, At, ActionPc
<1>2. /\ h.pc # "idle" /\ h \in Handler /\ h.d = tasks[h.t].d /\ h.d \in Live
      /\ rows[h.d].man /\ rows[h.d].status \in Transient => Marked
  BY <1>1, ActionFacts
<1>3. PICK d \in Live : d = h.d
  BY <1>2
<1>4. Docker /\ There' = There
  BY <1>1, NoneStep
<1>5. CASE ~ Marked
  <2>1. Finish("failed") /\ rows' = rows
    BY <1>5 DEF ActionStale, Only
  <2> QED BY <1>1, <1>2, <1>5, <2>1, Ends DEF Quiet
<1>6. CASE Marked
  <2>1. Finish("succeeded") /\ rows' = [rows EXCEPT ![d] = OldRow]
    BY <1>3, <1>6 DEF ActionStale, Only
  <2>2. /\ RowStep /\ MarkStep /\ rows' \in [Deps -> Row \cup {NoRow, OldRow}]
        /\ d \notin Live'
    BY <2>1, DeletedRow
  <2> QED BY <1>1, <1>2, <1>3, <1>4, <2>1, <2>2, DockerEnds
<1> QED BY <1>5, <1>6

(***************************************************************************)
(* The rebuild of a container from its contract.                           *)
(***************************************************************************)
(* The row a rebuild is about: its binding is the task's snapshot.         *)
LEMMA RebuildFacts ==
    ASSUME IInv, h.pc \in RebuildPc
    PROVE  /\ RebuildInv /\ h.orig.contract /\ rows[h.d].spec # NoSpec /\ rows[h.d].man
           /\ rows[h.d].cid = tasks[h.t].cid /\ rows[h.d].cname = tasks[h.t].cname
           /\ rows[h.d].cid # 0 /\ tasks[h.t].cname \in ContainerName
           /\ tasks[h.t].cname \notin {Foreign, <<>>}
           /\ rows[h.d].port = h.orig.port
           /\ h.orig.spec # NoSpec /\ h.orig.spec.port = h.orig.port
           /\ h.cid \in Boxes \cup {0}
           /\ h.cid # 0 => h.cid = rows[h.d].cid /\ h.cid \in There /\ box[h.cid].man
           /\ \A d \in Live : rows[d].cid = rows[h.d].cid => d = h.d
           /\ \A e \in Deps : tasks[h.t].cname = backup_container_name(e) => e = h.d
<1>1. RebuildInv
  BY DEF IInv, HandlerOK, RebuildPc
<1>2. /\ h \in Handler /\ ActionInv /\ tasks[h.t] \in Task /\ h.d \in Live
      /\ rows[h.d] \in Row /\ RowOK(h.d)
  BY ActionFacts
<1>3. /\ h.orig.contract /\ rows[h.d].spec # NoSpec /\ rows[h.d].port = h.orig.port
      /\ h.orig.spec # NoSpec /\ h.orig.spec.port = h.orig.port
  BY <1>1, <1>2 DEF RebuildInv, ActionInv
<1>4. rows[h.d].man /\ rows[h.d].cid # 0 /\ rows[h.d].cname \notin {Foreign, <<>>}
  BY <1>2, <1>3 DEF RowOK, Bound
<1>5. /\ rows[h.d].cid = tasks[h.t].cid /\ rows[h.d].cname = tasks[h.t].cname
  BY <1>2, <1>4 DEF ActionInv
<1>6. tasks[h.t].cname \in ContainerName /\ h.cid \in Boxes \cup {0}
  BY <1>2 DEF Task, Handler
<1>7. h.cid # 0 => h.cid = rows[h.d].cid /\ h.cid \in There
  BY <1>1, <1>5 DEF RebuildInv
<1>8. h.cid # 0 => box[h.cid].man
  BY <1>2, <1>4, <1>7 DEF RowOK, Bound
<1>9. \A d \in Live : rows[d].cid = rows[h.d].cid => d = h.d
  BY <1>2, <1>4 DEF IInv, CidsDiffer
<1>10. \A e \in Deps : tasks[h.t].cname = backup_container_name(e) => e = h.d
  BY <1>2, <1>3, <1>5 DEF RowOK
<1> QED BY <1>1, <1>3, <1>4, <1>5, <1>6, <1>7, <1>8, <1>9, <1>10

(* The rebuild goes on.                                                    *)
LEMMA RebuildKept ==
    ASSUME IInv, h.pc \in RebuildPc, NEW k \in RebuildPc, Moved(k), up' = up,
           UNCHANGED <<rows, tasks>>, h.cid # 0 => h.cid \in There',
           \A x \in There \ {h.cid} : Stays(x),
           k \in {"b_stop", "b_name"} => h.pc \in {"b_stop", "b_name"},
           k = "b_run" => h.pc = "b_name",
           k \in {"b_wait", "b_save"} => h.pc \in {"b_wait", "b_save"}
    PROVE  h' \in Handler /\ HandlerOK'
<1>1. /\ up = "up" /\ h.t \in Tasks /\ tasks[h.t].st = "running" /\ ActionInv
  BY ActionFacts
<1>2. RebuildInv /\ h.orig.contract
  BY RebuildFacts
<1>3. /\ h' \in Handler /\ h'.pc = k /\ h'.t = h.t /\ h'.d = h.d /\ h'.orig = h.orig
      /\ h'.cid = h.cid /\ h'.new = h.new
  BY DEF Moved
<1>4. Live' = Live
  BY DEF Live
<1>5. k \in {"b_stop", "b_name", "b_run"} => h.new = 0
  BY <1>1 DEF ActionInv
<1>6. k \notin ActionPc
  BY DEF ActionPc, RebuildPc
<1>7. ActionInv'
  <2>1. k \notin {"a_get", "a_do", "a_stale"}
    BY <1>6 DEF ActionPc
  <2> QED BY <1>3, <1>5, <1>6, <2>1, ActionKept
<1>8. k \in {"b_wait", "b_save"} => Waiting(h.orig.port, {NoDep})'
  <2> SUFFICES ASSUME k \in {"b_wait", "b_save"} PROVE Waiting(h.orig.port, {NoDep})'
    OBVIOUS
  <2>1. Waiting(h.orig.port, {NoDep})
    BY <1>2 DEF RebuildInv
  <2>2. h.new \in There /\ h.new # 0
    BY <2>1, Absent DEF Waiting, There
  <2>3. Stays(h.new)
    BY <1>2, <2>2 DEF RebuildInv
  <2>4. /\ h.new \in There' /\ box'[h.new].man /\ box'[h.new].port = h.orig.port
        /\ box'[h.new].dep = NoDep /\ box'[h.new].name = box[h.new].name
    BY <2>1, <2>3 DEF Waiting, Stays, Alike
  <2> QED BY <1>3, <2>1, <2>4 DEF Waiting
<1>9. h.new # 0 => h.new # h.cid /\ Spare(h.new)'
  <2>1. PICK c : c = h.new
    OBVIOUS
  <2>2. Spare(c) => Spare(c)'
    BY <1>4 DEF Spare
  <2> QED BY <1>2, <1>3, <2>1, <2>2 DEF RebuildInv
<1>10. RebuildInv'
  <2>1. k \in {"b_stop", "b_name"} => h.cid # 0
    BY <1>2 DEF RebuildInv
  <2>2. h.cid # 0 => h.cid = tasks[h.t].cid
    BY <1>2 DEF RebuildInv
  <2> QED BY <1>2, <1>3, <1>8, <1>9, <2>1, <2>2 DEF RebuildInv
<1> QED BY <1>1, <1>3, <1>7, <1>10, AtRebuild

(* RebuildStop preserves the invariant.                                    *)
LEMMA RebuildStopInv == ASSUME IInv, RebuildStop PROVE IInv'
<1>1. /\ h.pc = "b_stop" /\ h.pc \in RebuildPc /\ UNCHANGED <<scan, up>>
      /\ UNCHANGED <<rows, made, gone, tasks>>
      /\ \/ box' = Running(box, h.cid, FALSE) /\ Goto("b_name")
         \/ box' = box /\ Raise("b_back")
  BY DEF RebuildStop, Only, At, RebuildPc
<1>2. h \in Handler /\ RebuildInv
  BY <1>1, ActionFacts, RebuildFacts
<1>3. PICK c \in There : c = h.cid
  BY <1>1, <1>2 DEF RebuildInv
<1>4. Docker /\ There' = There /\ \A x \in There : Stays(x)
  BY <1>1, <1>3, RunningStep, NoneStep
<1>5. PICK k \in {"b_name", "b_back"} : Goto(k) \/ Raise(k)
  BY <1>1
<1>6. k \in Pc /\ k \in RebuildPc
  BY Steps DEF RebuildPc
<1>7. Moved(k)
  BY <1>2, <1>5, <1>6, MovedBy
<1>8. h' \in Handler /\ HandlerOK'
  BY <1>1, <1>3, <1>4, <1>6, <1>7, RebuildKept
<1> QED BY <1>1, <1>4, <1>8, DockerMoves

(* RebuildRename preserves the invariant.                                  *)
LEMMA RebuildRenameInv == ASSUME IInv, RebuildRename PROVE IInv'
<1>1. /\ h.pc = "b_name" /\ h.pc \in RebuildPc /\ UNCHANGED <<scan, up>>
      /\ UNCHANGED <<rows, made, gone, tasks>>
      /\ \/ /\ Named(backup_container_name(h.d)) = {}
            /\ box' = Rename(h.cid, backup_container_name(h.d))
            /\ h' = [h EXCEPT !.pc = "b_run", !.name = backup_container_name(h.d), !.run = FALSE]
         \/ box' = box /\ Raise("b_back")
  BY DEF RebuildRename, Only, At, RebuildPc
<1>2. /\ h \in Handler /\ RebuildInv /\ h.d \in Deps
      /\ h.cid # 0 => h.cid = rows[h.d].cid /\ h.cid \in There /\ box[h.cid].man
      /\ \A d \in Live : rows[d].cid = rows[h.d].cid => d = h.d
  BY <1>1, ActionFacts, RebuildFacts
<1>3. PICK c \in There : c = h.cid /\ c = rows[h.d].cid /\ box[c].man
  BY <1>1, <1>2 DEF RebuildInv
<1>4. PICK n \in ContainerName \ {Foreign, <<>>} : n = backup_container_name(h.d)
  BY <1>2, Names, NameTypes
<1>5. CASE box' = box /\ Raise("b_back")
  <2>1. Docker /\ There' = There /\ \A x \in There : Stays(x)
    BY <1>1, <1>5, NoneStep
  <2>2. Moved("b_back")
    BY <1>2, <1>5, Steps, MovedBy
  <2>3. "b_back" \in RebuildPc
    BY DEF RebuildPc
  <2>4. h' \in Handler /\ HandlerOK'
    BY <1>1, <1>3, <2>1, <2>2, <2>3, RebuildKept
  <2> QED BY <1>1, <2>1, <2>4, DockerMoves
<1>6. CASE /\ Named(n) = {} /\ box' = Rename(c, n)
           /\ h' = [h EXCEPT !.pc = "b_run", !.name = n, !.run = FALSE]
  <2>1. \A x \in There \ {c} : box[x].name # n
    BY <1>6 DEF Named
  <2>2. \A d \in Live, e \in Deps : rows[d].spec # NoSpec /\ rows[d].cid = c
                                      /\ n = backup_container_name(e) => e = d
    BY <1>2, <1>3, <1>4, Names
  <2>3. Docker /\ There' = There /\ \A x \in There \ {c} : Stays(x)
    BY <1>1, <1>3, <1>6, <2>1, <2>2, RenameStep
  <2>4. Moved("b_run")
    BY <1>2, <1>6, Steps DEF Moved, Handler
  <2>5. "b_run" \in RebuildPc
    BY DEF RebuildPc
  <2>6. h' \in Handler /\ HandlerOK'
    BY <1>1, <1>3, <2>3, <2>4, <2>5, RebuildKept
  <2> QED BY <1>1, <2>3, <2>6, DockerMoves
<1> QED BY <1>1, <1>3, <1>4, <1>5, <1>6

(* RebuildRun preserves the invariant.                                     *)
LEMMA RebuildRunInv == ASSUME IInv, RebuildRun PROVE IInv'
<1>1. /\ h.pc = "b_run" /\ h.pc \in RebuildPc /\ UNCHANGED <<scan, up>>
      /\ UNCHANGED <<rows, gone, tasks>>
  BY DEF RebuildRun, Only, At, RebuildPc
<1>2. /\ up = "up" /\ h \in Handler /\ h.t \in Tasks /\ tasks[h.t].st = "running"
      /\ ActionInv /\ h.orig \in Row
  BY <1>1, ActionFacts
<1>3. /\ RebuildInv /\ h.orig.contract
      /\ tasks[h.t].cname \in ContainerName /\ tasks[h.t].cname \notin {Foreign, <<>>}
      /\ h.orig.spec # NoSpec /\ h.orig.spec.port = h.orig.port
      /\ h.cid # 0 => h.cid \in There /\ h.cid = tasks[h.t].cid
      /\ \A e \in Deps : tasks[h.t].cname = backup_container_name(e) => e = h.d
  BY <1>1, RebuildFacts
<1>4. PICK new : new = [name |-> tasks[h.t].cname, run |-> TRUE, man |-> TRUE, task |-> 0,
                   spec |-> h.orig.spec, dep |-> NoDep, repl |-> 0, port |-> h.orig.port,
                   api |-> h.orig.api, drift |-> FALSE]
  OBVIOUS
<1>5. Run(new, "b_wait", "b_back")
  BY <1>4 DEF RebuildRun, Only
<1>6. /\ new \in Box /\ new.man /\ new.task = 0 /\ new.spec = h.orig.spec /\ new.dep = NoDep
      /\ new.repl = 0 /\ new.port = h.orig.port /\ new.name = tasks[h.t].cname
  <2>1. h.orig.spec \in Saved \cup {NoSpec} /\ h.orig.port \in Ports /\ h.orig.api \in Api
    BY <1>2 DEF Row
  <2> QED BY <1>3, <1>4, <2>1 DEF Box
<1>7. Sound(new)
  BY <1>3, <1>6 DEF Sound, IInv, TypeOK
<1>8. /\ Docker /\ There \subseteq There' /\ \A x \in There : Stays(x)
      /\ \A c \in There' \ There : BoxOK(c)'
      /\ \/ /\ h' \in Handler /\ h'.pc = "b_wait" /\ h'.t = h.t /\ h'.d = h.d /\ h'.sp = h.sp
            /\ h'.orig = h.orig /\ h'.cid = h.cid /\ h'.new = made + 1 /\ h'.own
            /\ made + 1 \in There' /\ made + 1 \notin There /\ Spare(made + 1)
            /\ box'[made + 1] = new /\ made + 1 \in Boxes
         \/ Moved("b_back")
  BY <1>1, <1>2, <1>5, <1>7, Steps, RunEffect
<1>9. CASE Moved("b_back")
  <2>1. "b_back" \in RebuildPc
    BY DEF RebuildPc
  <2>2. h' \in Handler /\ HandlerOK'
    BY <1>1, <1>3, <1>8, <1>9, <2>1, RebuildKept
  <2> QED BY <1>1, <1>8, <2>2, DockerMoves
<1>10. CASE /\ h' \in Handler /\ h'.pc = "b_wait" /\ h'.t = h.t /\ h'.d = h.d
            /\ h'.orig = h.orig /\ h'.cid = h.cid /\ h'.new = made + 1
            /\ made + 1 \in There' /\ made + 1 \notin There /\ Spare(made + 1)
            /\ box'[made + 1] = new /\ made + 1 \in Boxes
  <2>1. PICK c \in Boxes : c = made + 1
    BY <1>10
  <2>2. Waiting(h.orig.port, {NoDep})'
    BY <1>3, <1>6, <1>10 DEF Waiting
  <2>3. Spare(c)'
    BY <1>1, <1>10, <2>1 DEF Spare, Live
  <2>4. h.cid # 0 => h.cid \in There' /\ h.cid # c
    BY <1>3, <1>8, <1>10, <2>1
  <2>5. h'.new = c /\ c # 0 /\ c # h.cid
    BY <1>10, <2>1, <2>4, Absent
  <2>6. RebuildInv'
    BY <1>1, <1>3, <1>10, <2>2, <2>3, <2>4, <2>5 DEF RebuildInv
  <2>7. ActionInv'
    BY <1>1, <1>10, ActionKept DEF ActionPc
  <2>8. HandlerOK'
    BY <1>1, <1>2, <1>10, <2>6, <2>7, AtRebuild DEF RebuildPc
  <2> QED BY <1>1, <1>8, <1>10, <2>8, DockerMoves
<1> QED BY <1>8, <1>9, <1>10

(* RebuildWait preserves the invariant.                                    *)
LEMMA RebuildWaitInv == ASSUME IInv, RebuildWait PROVE IInv'
<1>1. /\ h.pc = "b_wait" /\ h.pc \in RebuildPc /\ UNCHANGED <<scan, up>>
      /\ Wait(h.orig.port, "b_save", "b_back")
  BY DEF RebuildWait, Only, At, RebuildPc
<1>2. h \in Handler /\ (h.cid # 0 => h.cid \in There)
  BY <1>1, ActionFacts, RebuildFacts
<1>3. PICK p : p = h.orig.port
  OBVIOUS
<1>4. Moved("b_save") \/ Moved("b_back")
  BY <1>1, <1>2, <1>3, Steps, WaitMoves
<1>5. UNCHANGED <<rows, box, made, gone, tasks>>
  BY <1>1, <1>2, <1>3, Steps, WaitMoves
<1>6. Docker /\ There' = There /\ \A x \in There : Stays(x)
  BY <1>5, NoneStep
<1>7. {"b_save", "b_back"} \subseteq RebuildPc
  BY DEF RebuildPc
<1>8. h' \in Handler /\ HandlerOK'
  BY <1>1, <1>2, <1>4, <1>5, <1>6, <1>7, RebuildKept
<1> QED BY <1>1, <1>5, <1>8, Moves DEF Quiet

(* The rebuild is committed.                                               *)
LEMMA AtDrop ==
    ASSUME up' = "up", h'.t \in Tasks, tasks'[h'.t].st = "running", h'.pc = "b_drop",
           Spare(h.cid)', tasks'[h'.t].kind = "action", h'.d = tasks'[h'.t].d,
           h'.d \in Live' => rows'[h'.d].status \notin Transient
    PROVE  HandlerOK'
  BY DEF HandlerOK, BeginPc, CreatePc, UpdatePc, RecoverPc, ActionPc, RebuildPc

(* RebuildCommit preserves the invariant: the old container is nobody's.   *)
LEMMA RebuildCommitInv == ASSUME IInv, RebuildCommit PROVE IInv'
<1>1. /\ h.pc = "b_save" /\ h.pc \in RebuildPc /\ UNCHANGED <<scan, up>>
      /\ UNCHANGED <<box, made, gone, tasks>>
  BY DEF RebuildCommit, Only, At, RebuildPc
<1>2. /\ up = "up" /\ h \in Handler /\ h.t \in Tasks /\ tasks[h.t].st = "running"
      /\ tasks[h.t].kind = "action" /\ h.d = tasks[h.t].d
      /\ h.d \in Live /\ h.d \in Deps /\ rows[h.d] \in Row /\ RowOK(h.d)
  BY <1>1, ActionFacts
<1>3. /\ RebuildInv /\ rows[h.d].spec # NoSpec /\ rows[h.d].man
      /\ rows[h.d].port = h.orig.port
      /\ h.cid # 0 => h.cid = rows[h.d].cid /\ h.cid \in There
      /\ \A d \in Live : rows[d].cid = rows[h.d].cid => d = h.d
  BY <1>1, RebuildFacts
<1>4. There' = There
  BY <1>1 DEF There
<1>5. PICK r : r = [rows[h.d] EXCEPT !.cid = h.new, !.status = "running",
                                     !.health = "healthy", !.man = TRUE]
  OBVIOUS
<1>6. \/ Unique(r, h.d) /\ rows' = [rows EXCEPT ![h.d] = r] /\ Goto("b_drop")
      \/ rows' = rows /\ Raise("b_back")
  BY <1>5 DEF RebuildCommit, Only
<1>7. CASE rows' = rows /\ Raise("b_back")
  <2>1. Moved("b_back")
    BY <1>2, <1>7, Steps, MovedBy
  <2>2. "b_back" \in RebuildPc
    BY DEF RebuildPc
  <2>3. Docker /\ \A x \in There : Stays(x)
    BY <1>1, NoneStep
  <2>4. h' \in Handler /\ HandlerOK'
    BY <1>1, <1>3, <1>4, <1>7, <2>1, <2>2, <2>3, RebuildKept
  <2> QED BY <1>1, <1>7, <2>4, Moves DEF Quiet
<1>8. CASE Unique(r, h.d) /\ rows' = [rows EXCEPT ![h.d] = r] /\ Goto("b_drop")
  <2>1. PICK d \in Deps : d = h.d
    BY <1>2
  <2>2. PICK c \in There : c = h.new
    BY <1>1, <1>3 DEF RebuildInv, Waiting
  <2>3. /\ box[c] \in Box /\ BoxOK(c) /\ c \in Boxes /\ c # 0
    BY Types, Absent DEF IInv, BoxInv
  <2>4. /\ box[c].man /\ box[c].port = rows[d].port /\ box[c].dep = NoDep
        /\ \A e \in Deps : box[c].name = backup_container_name(e) => e = d
    BY <1>1, <1>3, <2>1, <2>2 DEF RebuildInv, Waiting
  <2>5. /\ r \in Row /\ r.cid = c /\ r.man /\ r.spec = rows[d].spec
        /\ r.port = rows[d].port /\ r.cname = rows[d].cname /\ r.status = "running"
    BY <1>2, <1>5, <2>1, <2>2, <2>3 DEF Row
  <2>6. \A e \in Live \ {d} : rows[e].cid # r.cid
    BY <1>8, <2>1, <2>3, <2>5 DEF Unique, Collide
  <2>7. \A e \in Live \ {d} : rows[e].spec # NoSpec => rows[e].port # r.port
    BY <1>2, <1>3, <2>1, <2>5 DEF IInv, PortsDiffer
  <2>8. rows'[d] = r /\ \A e \in Deps : e # d => rows'[e] = rows[e]
    BY <1>8, <2>1 DEF IInv, TypeOK
  <2>9. RowOK(d)'
    <3>1. Bound(rows[d], d)'
      <4>1. r.cid <= made' /\ (r.cname \notin {Foreign, <<>>})
        BY <1>1, <1>2, <1>3, <2>1, <2>3, <2>5 DEF BoxOK, RowOK, Bound
      <4> QED BY <1>1, <2>3, <2>4, <2>5, <2>8, <4>1 DEF Bound
    <3>2. /\ r.spec.port = r.port /\ r.cid \in There /\ r.spec # NoSpec
          /\ \A e \in Deps : r.cname = backup_container_name(e) => e = d
          /\ \A e \in Deps : box[r.cid].name = backup_container_name(e) => e = d
      BY <1>2, <1>3, <2>1, <2>4, <2>5 DEF RowOK
    <3> QED BY <1>1, <1>4, <2>8, <3>1, <3>2 DEF RowOK
  <2>10. Moved("b_drop")
    BY <1>2, <1>8, Steps, MovedBy
  <2>11. Spare(h.cid)'
    <3>1. h'.cid = h.cid /\ c # h.cid
      BY <1>3, <2>2, <2>3, <2>10 DEF Moved, RebuildInv
    <3> SUFFICES ASSUME NEW e \in Live', rows'[e].spec # NoSpec PROVE rows'[e].cid # h.cid
      BY <3>1 DEF Spare
    <3>2. CASE e = d
      BY <2>5, <2>8, <3>1, <3>2
    <3>3. CASE e # d
      <4>1. e \in Live /\ rows'[e] = rows[e]
        BY <2>8, <3>3 DEF Live
      <4>2. rows[e].man /\ rows[e].cid # 0
        BY <4>1 DEF IInv, RowInv, RowOK, Bound
      <4> QED BY <1>3, <2>1, <3>3, <4>1, <4>2
    <3> QED BY <3>2, <3>3
  <2>12. HandlerOK' /\ h' \in Handler
    <3>1. rows'[d].status \notin Transient
      BY <2>5, <2>8 DEF Transient
    <3> QED BY <1>1, <1>2, <2>1, <2>10, <2>11, <3>1, AtDrop DEF Moved
  <2>13. r.status \notin Transient /\ rows[d] # OldRow /\ rows[d].man
    BY <1>2, <1>3, <2>1, <2>5 DEF Transient, Live
  <2> QED BY <1>1, <1>8, <2>1, <2>5, <2>6, <2>7, <2>9, <2>12, <2>13, RowCommit
<1> QED BY <1>6, <1>7, <1>8

(* RebuildDrop preserves the invariant.                                    *)
LEMMA RebuildDropInv == ASSUME IInv, RebuildDrop PROVE IInv'
<1>1. /\ h.pc = "b_drop" /\ h.pc # "idle" /\ UNCHANGED <<scan, up>>
      /\ UNCHANGED <<rows, made, gone>> /\ Finish("succeeded")
      /\ box' = box \/ box' = Remove(box, h.cid)
  BY DEF RebuildDrop, Only, At
<1>2. h \in Handler
  BY <1>1, Running1
<1>3. /\ Spare(h.cid) /\ h.d = tasks[h.t].d
      /\ h.d \in Live => rows[h.d].status \notin Transient
  BY <1>1 DEF IInv, HandlerOK
<1>4. Docker /\ There' \subseteq There
  BY <1>1, <1>2, <1>3, DropStep
<1> QED BY <1>1, <1>3, <1>4, RowsStay, DockerEnds

(* RebuildBack preserves the invariant.                                    *)
LEMMA RebuildBackInv == ASSUME IInv, RebuildBack PROVE IInv'
<1>1. /\ h.pc = "b_back" /\ h.pc \in RebuildPc /\ UNCHANGED <<scan, up>>
      /\ UNCHANGED <<rows, made, gone, tasks>>
      /\ \/ RollBackCall(tasks[h.t].cname)
         \/ RollBackLast(tasks[h.t].cname) /\ Goto("a_fail")
  BY DEF RebuildBack, Only, At, RebuildPc
<1>2. /\ h.pc # "idle" /\ up = "up" /\ h \in Handler /\ h.t \in Tasks
      /\ tasks[h.t].st = "running" /\ ActionInv
  BY <1>1, ActionFacts
<1>3. /\ RebuildInv
      /\ tasks[h.t].cname \in ContainerName /\ tasks[h.t].cname \notin {Foreign, <<>>}
      /\ h.cid # 0 => h.cid = rows[h.d].cid /\ h.cid \in There /\ box[h.cid].man
      /\ \A d \in Live : rows[d].cid = rows[h.d].cid => d = h.d
      /\ \A e \in Deps : tasks[h.t].cname = backup_container_name(e) => e = h.d
  BY <1>1, RebuildFacts
<1>4. PICK n \in ContainerName : n = tasks[h.t].cname
  BY <1>3
<1>5. h.new # 0 => h.new # h.cid /\ Spare(h.new)
  BY <1>3 DEF RebuildInv
<1>6. h.pc \notin ActionPc /\ h.pc \notin {"b_stop", "b_name", "b_run", "b_wait", "b_save"}
  BY <1>1 DEF ActionPc
<1>7. CASE RollBackCall(tasks[h.t].cname)
  <2>1. /\ Docker /\ There' \subseteq There /\ (h.cid # 0 => h.cid \in There')
        /\ h' \in Handler /\ h'.pc = h.pc /\ h'.t = h.t /\ h'.d = h.d
        /\ h'.orig = h.orig /\ h'.cid = h.cid /\ h'.new = 0
    BY <1>1, <1>2, <1>3, <1>4, <1>5, <1>7, RollBackCallStep
  <2>2. ActionInv'
    BY <1>1, <1>6, <2>1, ActionKept
  <2>3. RebuildInv'
    BY <1>1, <1>3, <1>6, <2>1 DEF RebuildInv
  <2>4. HandlerOK'
    BY <1>1, <1>2, <2>1, <2>2, <2>3, AtRebuild
  <2> QED BY <1>1, <2>1, <2>4, DockerMoves
<1>8. CASE RollBackLast(tasks[h.t].cname) /\ Goto("a_fail")
  <2>1. Docker /\ There' = There /\ h.new = 0
    BY <1>1, <1>2, <1>3, <1>8, RollBackLastStep
  <2>2. "a_fail" \in Pc /\ "a_fail" \in ActionPc
    BY Steps DEF ActionPc
  <2>3. Moved("a_fail")
    BY <1>2, <1>8, <2>2, MovedBy
  <2>4. ActionInv'
    BY <1>1, <2>1, <2>3, ActionKept DEF Moved
  <2>5. HandlerOK'
    BY <1>1, <1>2, <2>2, <2>3, <2>4, AtAction DEF Moved
  <2> QED BY <1>1, <2>1, <2>3, <2>5, DockerMoves DEF Moved
<1> QED BY <1>1, <1>7, <1>8

(***************************************************************************)
(* Steps of others while a handler runs.                                   *)
(***************************************************************************)
(* What a scan may do to the rows: those there are keep what a handler     *)
(* relies on, and the new ones are not marked and have no specification.   *)
Undisturbed ==
    /\ \A d \in Live :
         /\ d \in Live' /\ (rows'[d].man <=> rows[d].man)
         /\ rows'[d].spec = NoSpec <=> rows[d].spec = NoSpec
         /\ rows[d].man => /\ rows'[d].cid = rows[d].cid /\ rows'[d].cname = rows[d].cname
                           /\ rows'[d].port = rows[d].port
         /\ rows'[d].status = rows[d].status \/ rows'[d].status \notin Transient
    /\ \A d \in Live' \ Live : rows'[d].spec = NoSpec /\ rows'[d].status \notin Transient

(* The task of the running handler may be told to pause or to cancel.      *)
TaskKept ==
    h.pc # "idle" =>
      /\ tasks'[h.t].st = tasks[h.t].st /\ tasks'[h.t].kind = tasks[h.t].kind
      /\ tasks'[h.t].d = tasks[h.t].d /\ tasks'[h.t].act = tasks[h.t].act
      /\ tasks'[h.t].cid = tasks[h.t].cid /\ tasks'[h.t].cname = tasks[h.t].cname

(* A container no deployment with a specification has stays so.            *)
LEMMA SpareKept ==
    ASSUME IInv, Undisturbed, NEW c, Spare(c)
    PROVE  Spare(c)'
<1> SUFFICES ASSUME NEW d \in Live', rows'[d].spec # NoSpec PROVE rows'[d].cid # c
  BY DEF Spare
<1>1. d \in Live /\ rows[d].spec # NoSpec
  BY DEF Undisturbed
<1>2. rows[d].man
  BY <1>1 DEF IInv, RowInv, RowOK, Bound
<1> QED BY <1>1, <1>2 DEF Undisturbed, Spare

(* The port of the running create or update stays its own.                 *)
LEMMA OwnPortKept ==
    ASSUME IInv, Undisturbed, h' = h, OwnPort
    PROVE  OwnPort'
<1> SUFFICES ASSUME NEW d \in Live', d # h.d, rows'[d].spec # NoSpec
             PROVE  rows'[d].port # h.sp.port
  BY DEF OwnPort
<1>1. d \in Live /\ rows[d].spec # NoSpec
  BY DEF Undisturbed
<1>2. rows[d].man
  BY <1>1 DEF IInv, RowInv, RowOK, Bound
<1> QED BY <1>1, <1>2 DEF Undisturbed, OwnPort

(* The container the handler waits for stays.                              *)
LEMMA WaitingKept ==
    ASSUME \A c \in There : box[c].man => Stays(c), h' = h, NEW p, NEW S, Waiting(p, S)
    PROVE  Waiting(p, S)'
<1>1. Stays(h.new) /\ h.new \in There
  BY DEF Waiting
<1> QED BY <1>1 DEF Waiting, Stays, Alike

(* What the handler relies on holds after a step of another.               *)
LEMMA HandlerKept ==
    ASSUME IInv, Undisturbed, TaskKept, \A c \in There : box[c].man => Stays(c),
           h' = h, up' = up, up = "up" \/ scan' = scan
    PROVE  HandlerOK'
<1>1. CASE h.pc = "idle"
  BY <1>1, AtIdle DEF IInv, HandlerOK
<1>2. ASSUME h.pc # "idle" PROVE HandlerOK'
  <2>1. /\ up = "up" /\ h.t \in Tasks /\ tasks[h.t].st = "running" /\ h \in Handler
    BY <1>2, Running1
  <2>2. PICK t : t = h.t
    OBVIOUS
  <2>3. /\ tasks'[h.t].st = "running" /\ tasks'[h.t].kind = tasks[h.t].kind
        /\ tasks'[h.t].d = tasks[h.t].d /\ tasks'[h.t].act = tasks[h.t].act
        /\ tasks'[h.t].cid = tasks[h.t].cid /\ tasks'[h.t].cname = tasks[h.t].cname
    BY <1>2, <2>1 DEF TaskKept
  <2>4. h.pc \in BeginPc \cup CreatePc \cup UpdatePc \cup RecoverPc \cup ActionPc \cup RebuildPc
          \cup {"bench", "bench_end", "u_drop", "b_drop"}
    BY <1>2, <2>1 DEF Handler, Pc
  <2>5. PICK p1, p2 : p1 = h.sp.port /\ p2 = h.orig.port
    OBVIOUS
  <2>6. CASE h.pc \in BeginPc
    <3>1. h = [Idle EXCEPT !.t = h.t, !.pc = tasks[h.t].kind]
      BY <2>6 DEF IInv, HandlerOK
    <3>2. h' = [Idle EXCEPT !.t = h'.t, !.pc = tasks'[h'.t].kind]
      BY <2>3, <3>1
    <3> QED BY <1>2, <2>1, <2>3, <2>6, <3>2
            DEF HandlerOK, BeginPc, CreatePc, UpdatePc, RecoverPc, ActionPc, RebuildPc
  <2>7. CASE h.pc \in CreatePc
    <3>1. CreateInv
      BY <2>7 DEF IInv, HandlerOK
    <3>2. OwnPort => OwnPort'
      BY OwnPortKept
    <3>3. Waiting(h.sp.port, {NoDep}) => Waiting(h.sp.port, {NoDep})'
      BY <2>5, WaitingKept
    <3>4. Spare(h.new) => Spare(h.new)'
      <4>1. PICK c : c = h.new
        OBVIOUS
      <4>2. Spare(c) => Spare(c)'
        BY SpareKept
      <4> QED BY <4>1, <4>2
    <3>5. CreateInv'
      BY <2>3, <3>1, <3>2, <3>3, <3>4 DEF CreateInv
    <3> QED BY <2>1, <2>3, <2>7, <3>5, AtCreate
  <2>8. CASE h.pc \in UpdatePc
    <3>1. UpdateInv /\ (h.cid \in There => box[h.cid].man)
      BY <2>8, UpdateFacts
    <3>2. OwnPort => OwnPort'
      BY OwnPortKept
    <3>3. Waiting(h.sp.port, {h.d}) => Waiting(h.sp.port, {h.d})'
      <4>1. PICK S : S = {h.d}
        OBVIOUS
      <4>2. Waiting(p1, S) => Waiting(p1, S)'
        BY WaitingKept
      <4> QED BY <2>5, <4>1, <4>2
    <3>4. h.cid \in There => h.cid \in There'
      BY <3>1 DEF Stays
    <3>5. /\ h.d \in Live' /\ rows'[h.d].man /\ rows'[h.d].cid = h.cid
          /\ rows'[h.d].cname = h.orig.cname
      BY <3>1 DEF UpdateInv, Undisturbed
    <3>6. h.new # 0 => h.new \in There' \ {h.cid} /\ box'[h.new].dep = h.d
      <4> SUFFICES ASSUME h.new # 0 PROVE h.new \in There' \ {h.cid} /\ box'[h.new].dep = h.d
        OBVIOUS
      <4>1. h.new \in There \ {h.cid} /\ box[h.new].dep = h.d /\ h.d \in Deps
        BY <3>1 DEF UpdateInv, Live
      <4>2. box[h.new].man
        BY <4>1, Absent DEF IInv, BoxInv, BoxOK
      <4> QED BY <4>1, <4>2 DEF Stays, Alike
    <3>7. PICK n : n = deterministic_container_name(NameOf[h.sp.s])
      OBVIOUS
    <3>8. \A c \in Named(n) : validate_container_labels(c, h.t, h.sp, h.d, h.cid)
            => c \in Named(n)' /\ validate_container_labels(c, h.t, h.sp, h.d, h.cid)'
      BY DEF Named, validate_container_labels, Stays, Alike
    <3>9. h.pc \in {"u_stop", "u_name", "u_run"} /\ ~ h.own =>
            \E c \in Named(n)' : c # h.cid /\ validate_container_labels(c, h.t, h.sp, h.d, h.cid)'
      BY <3>1, <3>7, <3>8 DEF UpdateInv
    <3>10. UpdateInv'
      BY <2>3, <3>1, <3>2, <3>3, <3>4, <3>5, <3>6, <3>7, <3>9 DEF UpdateInv
    <3> QED BY <2>1, <2>3, <2>8, <3>10, AtUpdate
  <2>9. CASE h.pc \in RecoverPc
    <3>1. RecoverInv /\ rows[h.d].man /\ RowOK(h.d)
      BY <2>9, RecoverFacts DEF IInv, HandlerOK
    <3>2. h.cid \in There => h.cid \in There'
      BY <3>1 DEF RecoverInv, RowOK, Bound, Stays
    <3>3. /\ h.d \in Live' /\ rows'[h.d].spec # NoSpec /\ rows'[h.d].cid = h.cid
      BY <3>1 DEF RecoverInv, Undisturbed
    <3>4. RecoverInv'
      BY <2>3, <3>1, <3>2, <3>3 DEF RecoverInv
    <3> QED BY <2>1, <2>3, <2>9, <3>4, AtRecover
  <2>10. CASE h.pc \in ActionPc \cup RebuildPc
    <3>1. ActionInv /\ RowOK(h.d) /\ h.d \in Live
      BY <2>10, ActionFacts
    <3>2. Act' = Act
      BY <2>3 DEF Act
    <3>3. rows'[h.d].man =>
            /\ rows'[h.d].cid = tasks'[h.t].cid /\ rows'[h.d].cname = tasks'[h.t].cname
            /\ rows'[h.d].status \in Transient => rows'[h.d].status = TransientOf[Act]
      BY <2>3, <3>1 DEF ActionInv, Undisturbed
    <3>4. h.orig.contract => /\ rows'[h.d].spec # NoSpec /\ rows'[h.d].port = h.orig.port
                             /\ h.orig.spec # NoSpec /\ h.orig.spec.port = h.orig.port
      BY <3>1 DEF ActionInv, Undisturbed, RowOK, Bound
    <3>5. h.d \in Live'
      BY <3>1 DEF Undisturbed
    <3>6. ActionInv'
      <4>1. /\ tasks'[h.t].kind = "action" /\ h.d = tasks'[h.t].d /\ h.orig \in Row
            /\ h.pc \in {"a_get", "a_do"} => h.cid # 0 /\ h.cid = tasks'[h.t].cid
            /\ h.pc = "a_stale" => Act = "delete"
            /\ h.pc \in ActionPc \cup {"b_stop", "b_name", "b_run"} => h.new = 0
        BY <2>3, <3>1 DEF ActionInv
      <4>2. rows'[h'.d].man =>
               /\ rows'[h'.d].cid = tasks'[h'.t].cid /\ rows'[h'.d].cname = tasks'[h'.t].cname
               /\ rows'[h'.d].status \in Transient => rows'[h'.d].status = TransientOf[Act']
        BY <3>2, <3>3
      <4> QED BY <3>2, <3>4, <3>5, <4>1, <4>2 DEF ActionInv
    <3>7. h.pc \in RebuildPc => RebuildInv'
      <4> SUFFICES ASSUME h.pc \in RebuildPc PROVE RebuildInv'
        OBVIOUS
      <4>1. RebuildInv /\ (h.cid # 0 => h.cid \in There /\ box[h.cid].man)
        BY RebuildFacts
      <4>2. h.cid # 0 => h.cid \in There'
        BY <4>1 DEF Stays
      <4>3. Waiting(h.orig.port, {NoDep}) => Waiting(h.orig.port, {NoDep})'
        BY <2>5, WaitingKept
      <4>4. Spare(h.new) => Spare(h.new)'
        <5>1. PICK c : c = h.new
          OBVIOUS
        <5>2. Spare(c) => Spare(c)'
          BY SpareKept
        <5> QED BY <5>1, <5>2
      <4> QED BY <2>3, <4>1, <4>2, <4>3, <4>4 DEF RebuildInv
    <3> QED BY <2>1, <2>3, <2>10, <3>6, <3>7, AtAction, AtRebuild
  <2>11. CASE h.pc \in {"bench", "bench_end", "u_drop", "b_drop"}
    <3>1. Spare(h.cid) => Spare(h.cid)'
      <4>1. PICK c : c = h.cid
        OBVIOUS
      <4>2. Spare(c) => Spare(c)'
        BY SpareKept
      <4> QED BY <4>1, <4>2
    <3>2. CASE h.pc # "b_drop"
      <4>1. /\ tasks[h.t].kind \in {"create", "update"} /\ h.d \in Deps
            /\ h.pc = "u_drop" => Spare(h.cid)
        BY <2>11, <3>2 DEF IInv, HandlerOK
      <4> QED BY <2>1, <2>3, <2>11, <3>1, <3>2, <4>1, AtBench
    <3>3. CASE h.pc = "b_drop"
      <4>1. /\ tasks[h.t].kind = "action" /\ h.d = tasks[h.t].d /\ Spare(h.cid)
            /\ h.d \in Live => rows[h.d].status \notin Transient
        BY <3>3 DEF IInv, HandlerOK
      <4>2. h.d \in Live' => rows'[h.d].status \notin Transient
        BY <4>1 DEF Undisturbed
      <4> QED BY <2>1, <2>3, <3>1, <3>3, <4>1, <4>2, AtDrop
    <3> QED BY <3>2, <3>3
  <2> QED BY <2>4, <2>6, <2>7, <2>8, <2>9, <2>10, <2>11
<1> QED BY <1>1, <1>2

(* A step that changes the tasks alone, and not that of the handler.       *)
LEMMA TasksStep ==
    ASSUME IInv, Quiet, h' = h, up' = up, tasks' \in [Tasks -> Task], TaskInv', TaskKept,
           NEW t \in Tasks, \A x \in Tasks : x # t => tasks'[x] = tasks[x],
           tasks[t].st # "none" => tasks'[t].kind = tasks[t].kind,
           tasks[t].st \in {"queued", "running", "paused", "cancelled"} =>
             /\ tasks'[t].st \in {"queued", "running", "paused", "cancelled"}
             /\ tasks'[t].d = tasks[t].d
             /\ tasks'[t].cid = tasks[t].cid /\ tasks'[t].cname = tasks[t].cname
    PROVE  IInv'
<1>1. TypeOK' /\ TaskStep
  BY DEF IInv, TypeOK, Quiet, TaskStep
<1>2. /\ BoxInv' /\ RowInv' /\ CidsDiffer' /\ PortsDiffer' /\ ScanOK'
      /\ MarkStep /\ There' = There /\ Live' = Live
  BY <1>1, QuietFrame
<1>3. MarkInv'
  <2>1. \A x \in Tasks, d \in Live' :
              /\ rows'[d].man /\ rows'[d].status \in Transient
              /\ tasks[x].kind = "action" /\ tasks[x].d = d
              /\ tasks[x].cid = rows'[d].cid /\ tasks[x].cname = rows'[d].cname
              /\ tasks[x].st \in {"queued", "running", "paused", "cancelled"}
              => /\ tasks'[x].kind = "action" /\ tasks'[x].d = d
                 /\ tasks'[x].cid = tasks[x].cid /\ tasks'[x].cname = tasks[x].cname
                 /\ tasks'[x].st \in {"queued", "running", "paused", "cancelled"}
    BY <1>1 DEF TaskStep
  <2> QED BY <1>1, <1>2, <2>1, FrameMark
<1>4. HandlerOK'
  <2>1. Undisturbed
    BY <1>2 DEF Undisturbed, Quiet
  <2>2. \A c \in There : box[c].man => Stays(c)
    BY <1>2 DEF Stays, Alike, Quiet
  <2> QED BY <2>1, <2>2, HandlerKept DEF Quiet
<1> QED BY <1>1, <1>2, <1>3, <1>4 DEF IInv

(* A task that is queued with what it is about.                            *)
LEMMA QueueInv ==
    ASSUME IInv, NEW new \in Task, NEW key, Queue(new, key), new.st = "queued",
           new.kind # "none", new.kind \in {"create", "update"} => new.s \in Specs,
           new.kind = "action" => new.d \in Deps /\ new.act \in Action
    PROVE  IInv'
<1>1. PICK t \in Tasks : tasks[t].st = "none" /\ tasks' = [tasks EXCEPT ![t] = new]
  BY DEF Queue
<1>2. Quiet /\ h' = h /\ up' = up
  BY DEF Queue, Quiet
<1>3. /\ tasks' \in [Tasks -> Task] /\ tasks'[t] = new
      /\ \A x \in Tasks : x # t => tasks'[x] = tasks[x]
  BY <1>1 DEF IInv, TypeOK
<1>4. TaskInv'
  <2> SUFFICES ASSUME NEW x \in Tasks PROVE TaskOK(x)'
    BY DEF TaskInv
  <2>1. CASE x = t
    BY <1>3, <2>1 DEF TaskOK
  <2>2. CASE x # t
    BY <1>3, <2>2 DEF TaskOK, IInv, TaskInv
  <2> QED BY <2>1, <2>2
<1>5. TaskKept
  BY <1>1, <1>3, Running1 DEF TaskKept
<1> QED BY <1>1, <1>2, <1>3, <1>4, <1>5, TasksStep

(* create_deployment preserves the invariant.                              *)
LEMMA CreateDeploymentInv == ASSUME IInv, NEW s \in Specs, create_deployment(s) PROVE IInv'
<1>1. PICK new : new = [NoTask EXCEPT !.st = "queued", !.kind = "create", !.s = s]
  OBVIOUS
<1>2. /\ new \in Task /\ new.st = "queued" /\ new.kind = "create" /\ new.s = s
  BY <1>1, InitialTypes DEF Task, TaskStatus, BeginPc
<1>3. PICK key : Queue(new, key)
  BY <1>1 DEF create_deployment
<1> QED BY <1>2, <1>3, QueueInv

(* update_deployment preserves the invariant.                              *)
LEMMA UpdateDeploymentInv ==
    ASSUME IInv, NEW d \in Deps, NEW s \in Specs, update_deployment(d, s) PROVE IInv'
<1>1. PICK new : new = [NoTask EXCEPT !.st = "queued", !.kind = "update", !.d = d, !.s = s]
  OBVIOUS
<1>2. /\ new \in Task /\ new.st = "queued" /\ new.kind = "update" /\ new.s = s
  BY <1>1, InitialTypes DEF Task, TaskStatus, BeginPc
<1>3. PICK key : Queue(new, key)
  BY <1>1 DEF update_deployment
<1> QED BY <1>2, <1>3, QueueInv

(* deployment_action preserves the invariant.                              *)
LEMMA DeploymentActionInv ==
    ASSUME IInv, NEW d \in Deps, NEW a \in Action, deployment_action(d, a) PROVE IInv'
<1>1. PICK new : new = [NoTask EXCEPT !.st = "queued", !.kind = "action", !.d = d, !.act = a,
                                      !.cid = rows[d].cid, !.cname = rows[d].cname]
  OBVIOUS
<1>2. rows[d].cid \in Boxes \cup {0} /\ rows[d].cname \in ContainerName
  BY Types DEF deployment_action, IInv, Row
<1>3. /\ new \in Task /\ new.st = "queued" /\ new.kind = "action" /\ new.d = d /\ new.act = a
  BY <1>1, <1>2, InitialTypes DEF Task, TaskStatus, BeginPc
<1>4. PICK key : Queue(new, key)
  BY <1>1 DEF deployment_action
<1> QED BY <1>3, <1>4, QueueInv

(* Another status or control of a task.                                    *)
LEMMA TaskWrite ==
    ASSUME IInv, NEW t \in Tasks, tasks[t].st # "none",
           NEW st \in TaskStatus, NEW c \in {"none", "cancel", "pause"},
           \/ tasks' = [tasks EXCEPT ![t].st = st]
           \/ tasks' = [tasks EXCEPT ![t].st = st, ![t].ctl = c]
           \/ tasks' = [tasks EXCEPT ![t].ctl = c] /\ st = tasks[t].st
    PROVE  /\ tasks' \in [Tasks -> Task] /\ TaskInv'
           /\ \A x \in Tasks : x # t => tasks'[x] = tasks[x]
           /\ tasks'[t].st = st /\ tasks'[t].kind = tasks[t].kind /\ tasks'[t].d = tasks[t].d
           /\ tasks'[t].s = tasks[t].s /\ tasks'[t].act = tasks[t].act
           /\ tasks'[t].cid = tasks[t].cid /\ tasks'[t].cname = tasks[t].cname
<1>1. tasks \in [Tasks -> Task] /\ tasks[t] \in Task /\ TaskOK(t)
  BY DEF IInv, TypeOK, TaskInv
<1>2. PICK new \in Task :
        /\ tasks' = [tasks EXCEPT ![t] = new]
        /\ new.st = st /\ new.kind = tasks[t].kind /\ new.d = tasks[t].d
        /\ new.s = tasks[t].s /\ new.act = tasks[t].act
        /\ new.cid = tasks[t].cid /\ new.cname = tasks[t].cname
  <2>1. CASE tasks' = [tasks EXCEPT ![t].st = st]
    <3>1. PICK new : new = [tasks[t] EXCEPT !.st = st]
      OBVIOUS
    <3>2. /\ new \in Task /\ new.st = st /\ new.kind = tasks[t].kind /\ new.d = tasks[t].d
          /\ new.s = tasks[t].s /\ new.act = tasks[t].act
          /\ new.cid = tasks[t].cid /\ new.cname = tasks[t].cname
      BY <1>1, <3>1 DEF Task
    <3>3. tasks' = [tasks EXCEPT ![t] = new]
      BY <1>1, <2>1, <3>1
    <3> QED BY <3>2, <3>3
  <2>2. CASE tasks' = [tasks EXCEPT ![t].st = st, ![t].ctl = c]
    <3>1. PICK new : new = [tasks[t] EXCEPT !.st = st, !.ctl = c]
      OBVIOUS
    <3>2. /\ new \in Task /\ new.st = st /\ new.kind = tasks[t].kind /\ new.d = tasks[t].d
          /\ new.s = tasks[t].s /\ new.act = tasks[t].act
          /\ new.cid = tasks[t].cid /\ new.cname = tasks[t].cname
      BY <1>1, <3>1 DEF Task
    <3>3. tasks' = [tasks EXCEPT ![t] = new]
      BY <1>1, <2>2, <3>1
    <3> QED BY <3>2, <3>3
  <2>3. CASE tasks' = [tasks EXCEPT ![t].ctl = c] /\ st = tasks[t].st
    <3>1. PICK new : new = [tasks[t] EXCEPT !.ctl = c]
      OBVIOUS
    <3>2. /\ new \in Task /\ new.st = st /\ new.kind = tasks[t].kind /\ new.d = tasks[t].d
          /\ new.s = tasks[t].s /\ new.act = tasks[t].act
          /\ new.cid = tasks[t].cid /\ new.cname = tasks[t].cname
      BY <1>1, <2>3, <3>1 DEF Task
    <3>3. tasks' = [tasks EXCEPT ![t] = new]
      BY <1>1, <2>3, <3>1
    <3> QED BY <3>2, <3>3
  <2> QED BY <2>1, <2>2, <2>3
<1>3. /\ tasks' \in [Tasks -> Task] /\ tasks'[t] = new
      /\ \A x \in Tasks : x # t => tasks'[x] = tasks[x]
  BY <1>1, <1>2
<1>4. TaskInv'
  <2> SUFFICES ASSUME NEW x \in Tasks PROVE TaskOK(x)'
    BY DEF TaskInv
  <2>1. CASE x = t
    BY <1>1, <1>2, <1>3, <2>1 DEF TaskOK, TaskStatus
  <2>2. CASE x # t
    BY <1>3, <2>2 DEF TaskOK, IInv, TaskInv
  <2> QED BY <2>1, <2>2
<1> QED BY <1>2, <1>3, <1>4

(* Control preserves the invariant.                                        *)
LEMMA ControlInv ==
    ASSUME IInv, NEW t \in Tasks, NEW c \in {"cancel", "pause"}, Control(t, c) PROVE IInv'
<1>1. Quiet /\ h' = h /\ up' = up
  BY DEF Control, Quiet
<1>2. PICK st \in TaskStatus :
        /\ tasks[t].st \in {"queued", "running", "paused"}
        /\ st \in {"queued", "running", "paused", "cancelled"}
        /\ tasks[t].st = "running" => st = "running"
        /\ \/ tasks' = [tasks EXCEPT ![t].st = st]
           \/ tasks' = [tasks EXCEPT ![t].ctl = c] /\ st = tasks[t].st
  BY DEF Control, TaskStatus
<1>3. /\ tasks' \in [Tasks -> Task] /\ TaskInv'
      /\ \A x \in Tasks : x # t => tasks'[x] = tasks[x]
      /\ tasks'[t].st = st /\ tasks'[t].kind = tasks[t].kind /\ tasks'[t].d = tasks[t].d
      /\ tasks'[t].act = tasks[t].act
      /\ tasks'[t].cid = tasks[t].cid /\ tasks'[t].cname = tasks[t].cname
  BY <1>2, TaskWrite
<1>4. TaskKept
  <2>1. h.pc # "idle" => h.t \in Tasks /\ tasks[h.t].st = "running"
    BY Running1
  <2> QED BY <1>2, <1>3, <2>1 DEF TaskKept
<1> QED BY <1>1, <1>2, <1>3, <1>4, TasksStep

(* Resume preserves the invariant.                                         *)
LEMMA ResumeInv == ASSUME IInv, NEW t \in Tasks, Resume(t) PROVE IInv'
<1>1. Quiet /\ h' = h /\ up' = up
  BY DEF Resume, Quiet
<1>2. /\ tasks[t].st \in {"paused", "failed", "cancelled"} /\ "queued" \in TaskStatus
      /\ tasks' = [tasks EXCEPT ![t].st = "queued", ![t].ctl = "none"]
  BY DEF Resume, TaskStatus
<1>3. /\ tasks' \in [Tasks -> Task] /\ TaskInv'
      /\ \A x \in Tasks : x # t => tasks'[x] = tasks[x]
      /\ tasks'[t].st = "queued" /\ tasks'[t].kind = tasks[t].kind /\ tasks'[t].d = tasks[t].d
      /\ tasks'[t].cid = tasks[t].cid /\ tasks'[t].cname = tasks[t].cname
  BY <1>2, TaskWrite
<1>4. TaskKept
  <2>1. h.pc # "idle" => h.t \in Tasks /\ tasks[h.t].st = "running"
    BY Running1
  <2> QED BY <1>2, <1>3, <2>1 DEF TaskKept
<1> QED BY <1>1, <1>2, <1>3, <1>4, TasksStep

(* Claim preserves the invariant.                                          *)
LEMMA ClaimInv == ASSUME IInv, Claim PROVE IInv'
<1>1. PICK t \in Tasks : /\ tasks[t].st = "queued"
                         /\ tasks' = [tasks EXCEPT ![t].st = "running"]
                         /\ h' = [Idle EXCEPT !.t = t, !.pc = tasks[t].kind]
  BY DEF Claim
<1>2. Quiet /\ up' = up /\ up = "up"
  BY DEF Claim, Quiet, world
<1>3. tasks[t].st # "none" /\ "running" \in TaskStatus
  BY <1>1 DEF TaskStatus
<1>4. /\ tasks' \in [Tasks -> Task] /\ TaskInv'
      /\ \A x \in Tasks : x # t => tasks'[x] = tasks[x]
      /\ tasks'[t].st = "running" /\ tasks'[t].kind = tasks[t].kind /\ tasks'[t].d = tasks[t].d
      /\ tasks'[t].cid = tasks[t].cid /\ tasks'[t].cname = tasks[t].cname
  BY <1>1, <1>3, TaskWrite
<1>5. tasks[t].kind \in BeginPc
  BY <1>3 DEF IInv, TypeOK, Task, TaskInv, TaskOK
<1>6. tasks[t].kind \in Pc
  BY <1>5 DEF Pc
<1>7. h' \in Handler /\ h'.t = t /\ h'.pc = tasks[t].kind
  BY <1>1, <1>6, InitialTypes DEF Handler
<1>8. HandlerOK'
  <2>1. h' = [Idle EXCEPT !.t = h'.t, !.pc = tasks'[h'.t].kind]
    BY <1>1, <1>4, <1>7
  <2> QED BY <1>2, <1>4, <1>5, <1>7, <2>1
          DEF HandlerOK, BeginPc, CreatePc, UpdatePc, RecoverPc, ActionPc, RebuildPc
<1>9. TypeOK' /\ TaskStep
  BY <1>2, <1>4, <1>7 DEF IInv, TypeOK, Quiet, TaskStep
<1>10. /\ BoxInv' /\ RowInv' /\ CidsDiffer' /\ PortsDiffer' /\ ScanOK'
       /\ MarkStep /\ There' = There /\ Live' = Live
  BY <1>2, <1>9, QuietFrame
<1>11. MarkInv'
  <2>1. \A x \in Tasks, d \in Live' :
              /\ rows'[d].man /\ rows'[d].status \in Transient
              /\ tasks[x].kind = "action" /\ tasks[x].d = d
              /\ tasks[x].cid = rows'[d].cid /\ tasks[x].cname = rows'[d].cname
              /\ tasks[x].st \in {"queued", "running", "paused", "cancelled"}
              => /\ tasks'[x].kind = "action" /\ tasks'[x].d = d
                 /\ tasks'[x].cid = tasks[x].cid /\ tasks'[x].cname = tasks[x].cname
                 /\ tasks'[x].st \in {"queued", "running", "paused", "cancelled"}
    BY <1>4
  <2> QED BY <1>9, <1>10, <2>1, FrameMark
<1> QED BY <1>4, <1>8, <1>9, <1>10, <1>11 DEF IInv

(* Crash preserves the invariant.                                          *)
LEMMA CrashInv == ASSUME IInv, Crash PROVE IInv'
<1>1. /\ UNCHANGED <<rows, box, made, tasks, gone>> /\ h' = Idle /\ scan' = NoScan
      /\ up' = "down"
  BY DEF Crash
<1>2. TypeOK'
  BY <1>1, InitialTypes DEF IInv, TypeOK
<1>3. There' = There /\ Live' = Live
  BY <1>1 DEF There, Live
<1>4. BoxInv' /\ RowInv' /\ CidsDiffer' /\ PortsDiffer'
  BY <1>1, <1>3 DEF IInv, BoxInv, BoxOK, RowInv, RowOK, Bound, CidsDiffer, PortsDiffer
<1>5. MarkInv' /\ TaskInv'
  BY <1>1, <1>3 DEF IInv, MarkInv, MarkOK, TaskInv, TaskOK
<1>6. ScanOK'
  BY <1>1, InitialTypes DEF ScanOK
<1>7. HandlerOK'
  BY <1>1, AtIdle
<1> QED BY <1>2, <1>4, <1>5, <1>6, <1>7 DEF IInv

(* Exits preserves the invariant.                                          *)
LEMMA ExitsInv == ASSUME IInv, NEW c \in Boxes, Exits(c) PROVE IInv'
<1>1. /\ c \in There /\ box' = Running(box, c, FALSE)
      /\ UNCHANGED <<rows, made, tasks, h, scan, up, gone>>
  BY DEF Exits
<1>2. Docker /\ There' = There /\ \A x \in There : Stays(x)
  BY <1>1, RunningStep
<1>3. Undisturbed /\ TaskKept
  BY <1>1 DEF Undisturbed, TaskKept, Live
<1>4. HandlerOK'
  BY <1>1, <1>2, <1>3, HandlerKept
<1>5. h' \in Handler
  BY <1>1 DEF IInv, TypeOK
<1> QED BY <1>1, <1>2, <1>4, <1>5, DockerMoves

(* Recreated preserves the invariant.                                      *)
LEMMA RecreatedInv == ASSUME IInv, NEW c \in Boxes, Recreated(c) PROVE IInv'
<1>1. /\ c \in There /\ ~ box[c].man /\ made < MaxBoxes /\ made' = made + 1
      /\ box' = [box EXCEPT ![c] = NoBox, ![made + 1] = box[c]]
      /\ UNCHANGED <<rows, tasks, h, scan, up, gone>>
  BY DEF Recreated
<1>2. /\ box \in [Boxes -> Box \cup {NoBox}] /\ made \in 0 .. MaxBoxes /\ MaxBoxes \in Nat
      /\ box[c] \in Box /\ BoxOK(c) /\ c \in Nat
  BY <1>1, Types, Absent DEF IInv, TypeOK, BoxInv, Boxes
<1>3. PICK n \in Boxes : n = made + 1 /\ n \notin There /\ n # c
  <2>1. made + 1 \in Boxes
    BY <1>1, <1>2 DEF Boxes
  <2>2. made + 1 \notin There
    BY <1>2 DEF IInv, BoxInv, BoxOK
  <2> QED BY <1>1, <2>1, <2>2
<1>4. PICK b \in Box : b = box[c]
  BY <1>2
<1>5. /\ box' \in [Boxes -> Box \cup {NoBox}] /\ box'[n] = b /\ box'[c] = NoBox
      /\ \A x \in Boxes : x \notin {c, n} => box'[x] = box[x]
  BY <1>1, <1>2, <1>3, <1>4
<1>6. There' = (There \ {c}) \cup {n}
  BY <1>3, <1>5, Absent DEF There
<1>7. \A x \in There \ {c} : Stays(x)
  BY <1>3, <1>5, <1>6 DEF Stays, Alike, There
<1>8. Spare(c)
  <2> SUFFICES ASSUME NEW d \in Live, rows[d].spec # NoSpec, rows[d].cid = c PROVE FALSE
    BY DEF Spare
  <2>1. Bound(rows[d], d)
    BY DEF IInv, RowInv, RowOK
  <2> QED BY <1>1, <2>1 DEF Bound
<1>9. BoxStep
  BY <1>1, <1>3, <1>6, <1>7 DEF BoxStep, Stays
<1>10. Renames /\ Loses
  BY <1>3, <1>6, <1>7, <1>8 DEF Renames, Loses, Stays
<1>11. Distinct'
  <2>1. \A x \in There \ {c} : box'[x].name = box[x].name /\ box[x].name # b.name
    BY <1>4, <1>7, <1>2 DEF Stays, BoxOK
  <2> QED BY <1>5, <1>6, <2>1 DEF Distinct, IInv, BoxInv, BoxOK
<1>12. made' \in 0 .. MaxBoxes
  BY <1>1, <1>2
<1>13. Docker
  BY <1>5, <1>9, <1>10, <1>11, <1>12 DEF Docker
<1>14. BoxOK(n)'
  <2>1. b.repl = 0 /\ b.dep = NoDep /\ n # 0 /\ n <= made' /\ ~ b.man
    BY <1>1, <1>2, <1>3, <1>4, Absent DEF BoxOK
  <2>2. \A e \in There' \ {n} : box'[e].name # b.name
    BY <1>3, <1>5, <1>11, <1>6 DEF Distinct
  <2>3. /\ ~ (b.name \notin {Foreign, <<>>}) /\ (b.spec # NoSpec => b.spec.port = b.port)
        /\ b.task # 0 => /\ tasks[b.task].kind \in {"create", "update"}
                         /\ tasks[b.task].kind = "create" => b.dep = NoDep
    BY <1>1, <1>2, <1>4 DEF BoxOK
  <2> QED BY <1>1, <1>5, <2>1, <2>2, <2>3 DEF BoxOK
<1>15. HandlerOK'
  <2>1. Undisturbed /\ TaskKept
    BY <1>1 DEF Undisturbed, TaskKept, Live
  <2>2. \A x \in There : box[x].man => Stays(x)
    BY <1>1, <1>7
  <2> QED BY <1>1, <2>1, <2>2, HandlerKept
<1>16. h' \in Handler
  BY <1>1 DEF IInv, TypeOK
<1> QED BY <1>1, <1>6, <1>13, <1>14, <1>15, <1>16, DockerMoves

(***************************************************************************)
(* The container scan.                                                     *)
(***************************************************************************)
(* What a scan makes of a row and the container it found for it.           *)
LEMMA MergeType ==
    ASSUME IInv, NEW c \in There, NEW r \in Row, NEW health \in {"healthy", "unhealthy"},
           NEW m, m = Merge(r, Seen(c, health))
    PROVE  /\ m \in Row /\ m.cid = c /\ m.cname = box[c].name /\ m.port = box[c].port
           /\ (m.man <=> box[c].man) /\ m.status \notin Transient
           /\ (m.contract <=> r.contract)
           /\ m.spec = IF box[c].man THEN r.spec ELSE NoSpec
<1>1. c \in Boxes /\ box[c] \in Box
  BY Types DEF IInv
<1>2. PICK b \in Box : b = box[c]
  BY <1>1
<1>3. /\ b.name \in ContainerName /\ b.api \in Api /\ b.port \in Ports /\ b.man \in BOOLEAN
      /\ b.run \in BOOLEAN
  BY DEF Box
<1>4. PICK st, hl : /\ st = (IF b.run THEN "running" ELSE "exited")
                    /\ hl = (IF b.run THEN health ELSE "unknown")
  OBVIOUS
<1>5. st \in {"running", "exited"} /\ hl \in {"healthy", "unhealthy", "unknown"}
      /\ st \notin Transient
  BY <1>4 DEF Transient
<1>6. PICK sp : sp = (IF b.man THEN r.spec ELSE NoSpec)
  OBVIOUS
<1>7. sp \in Saved \cup {NoSpec}
  BY <1>6 DEF Row
<1>8. m = [r EXCEPT !.cid = c, !.cname = b.name, !.api = b.api, !.port = b.port,
                    !.man = b.man, !.status = st, !.health = hl, !.spec = sp]
  <2>1. r = [name |-> r.name, api |-> r.api, cid |-> r.cid, cname |-> r.cname,
             status |-> r.status, health |-> r.health, man |-> r.man, spec |-> r.spec,
             port |-> r.port, contract |-> r.contract, bench |-> r.bench]
    BY DEF Row
  <2>2. PICK sn : sn = Seen(c, health)
    OBVIOUS
  <2>3. /\ sn.cid = c /\ sn.cname = b.name /\ sn.api = b.api /\ sn.port = b.port
        /\ sn.man = b.man /\ sn.status = st /\ sn.health = hl
    BY <1>2, <1>4, <2>2 DEF Seen
  <2>4. m = [r EXCEPT !.cid = sn.cid, !.cname = sn.cname, !.api = sn.api, !.port = sn.port,
                      !.man = sn.man, !.status = sn.status, !.health = sn.health,
                      !.spec = IF sn.man THEN r.spec ELSE NoSpec]
    BY <2>1, <2>2 DEF Merge
  <2> QED BY <1>6, <2>3, <2>4
<1>9. m \in Row
  BY <1>1, <1>3, <1>5, <1>7, <1>8 DEF Row
<1>10. /\ m.cid = c /\ m.cname = b.name /\ m.port = b.port /\ m.man = b.man /\ m.status = st
       /\ m.contract = r.contract /\ m.spec = sp
  BY <1>8 DEF Row
<1> QED BY <1>2, <1>5, <1>6, <1>9, <1>10

(* A row that is not managed is matched with a container that is not.      *)
LEMMA MatchedUnmanaged ==
    ASSUME IInv, NEW c \in There, NEW d \in RowsFor(c), ~ rows[d].man
    PROVE  ~ box[c].man
<1>1. d \in Live
  BY DEF RowsFor
<1>2. BoxOK(c) /\ Bound(rows[d], d) /\ c \in Boxes /\ box[c] \in Box
  BY <1>1, Types DEF IInv, BoxInv, RowInv, RowOK
<1>3. CASE box[c].man /\ box[c].dep \in Live
  <2>1. d = box[c].dep /\ box[c].dep # NoDep
    BY <1>3, Absent DEF RowsFor, Live
  <2> QED BY <1>2, <1>3, <2>1 DEF BoxOK
<1>4. CASE ~ (box[c].man /\ box[c].dep \in Live)
  <2>1. rows[d].cid = c \/ rows[d].cname = box[c].name
    BY <1>4 DEF RowsFor
  <2> QED BY <1>2, <2>1 DEF Bound, BoxOK
<1> QED BY <1>3, <1>4

(* What a scan that reads everything now will write.                       *)
LEMMA ScanOfOK ==
    ASSUME IInv, NEW health \in {"healthy", "unhealthy"}, NEW r, r = ScanOf(health)
    PROVE  /\ r \in Scan
           /\ \A x \in r.upd : UpdOK(x)
           /\ \A x \in r.ins : InsOK(x)
<1>1. ASSUME NEW x \in r.upd PROVE UpdOK(x) /\ x \in [d : Deps, was : Row, now : Row]
  <2>1. PICK c \in There : \E d \in RowsFor(c) :
            /\ Refreshable(d, c)
            /\ x = [d |-> d, was |-> rows[d], now |-> Merge(rows[d], Seen(c, health))]
    BY DEF ScanOf
  <2>2. PICK d \in RowsFor(c) :
            /\ Refreshable(d, c)
            /\ x = [d |-> d, was |-> rows[d], now |-> Merge(rows[d], Seen(c, health))]
    BY <2>1
  <2>3. d \in Live
    BY DEF RowsFor
  <2>4. rows[d] \in Row /\ d \in Deps /\ RowOK(d) /\ c \in Boxes /\ BoxOK(c) /\ rows[d] # NoRow
    BY <2>3, Types DEF IInv, RowInv, BoxInv, Live
  <2>5. PICK q \in Row : q = rows[d]
    BY <2>4
  <2>6. PICK m : m = Merge(q, Seen(c, health))
    OBVIOUS
  <2>7. /\ m \in Row /\ m.cid = c /\ m.cname = box[c].name /\ m.port = box[c].port
        /\ (m.man <=> box[c].man) /\ m.status \notin Transient
        /\ m.spec = IF box[c].man THEN q.spec ELSE NoSpec
    BY <2>6, MergeType
  <2>8. x = [d |-> d, was |-> q, now |-> m]
    BY <2>2, <2>5, <2>6
  <2>9. x.d = d /\ x.was = q /\ x.now = m
    BY <2>8
  <2>10. CASE q.man
    <3>1. q.cid = c /\ q.cname = box[c].name
      BY <2>2, <2>5, <2>10 DEF Refreshable
    <3>2. box[c].man /\ box[c].port = q.port
      BY <2>4, <2>5, <2>10, <3>1 DEF RowOK, Bound
    <3>3. m.man /\ m.cid = q.cid /\ m.cname = q.cname /\ m.port = q.port /\ m.spec = q.spec
      BY <2>7, <3>1, <3>2
    <3> QED BY <2>4, <2>5, <2>7, <2>8, <2>9, <2>10, <3>3 DEF UpdOK
  <2>11. CASE ~ q.man
    <3>1. ~ box[c].man
      BY <2>5, <2>11, MatchedUnmanaged
    <3>2. q.spec = NoSpec
      BY <2>4, <2>5, <2>11 DEF RowOK, Bound
    <3>3. Bound(m, d)
      BY <2>4, <2>7, <3>1 DEF Bound, BoxOK
    <3> QED BY <2>4, <2>5, <2>7, <2>8, <2>9, <2>11, <3>1, <3>2, <3>3 DEF UpdOK
  <2> QED BY <2>10, <2>11
<1>2. ASSUME NEW x \in r.ins PROVE InsOK(x) /\ x \in [d : Deps \cup {NoDep}, now : Row]
  <2>1. PICK c \in There : x = [d |-> IF box[c].man THEN box[c].dep ELSE NoDep,
                                now |-> Merge(Blank(c), Seen(c, health))]
    BY DEF ScanOf
  <2>2. box[c] \in Box /\ c \in Boxes /\ BoxOK(c)
    BY Types DEF IInv, BoxInv
  <2>3. PICK q \in Row : q = Blank(c) /\ q.spec = NoSpec /\ ~ q.contract
    <3>1. PICK n \in ContainerName, a \in Api, p \in Ports :
             n = box[c].name /\ a = box[c].api /\ p = box[c].port
      BY <2>2 DEF Box
    <3>2. PICK q : q = Blank(c)
      OBVIOUS
    <3>3. q = [name |-> n, api |-> a, cid |-> c, cname |-> n, status |-> "unknown",
               health |-> "unknown", man |-> FALSE, spec |-> NoSpec, port |-> p,
               contract |-> FALSE, bench |-> "none"]
      BY <3>1, <3>2 DEF Blank
    <3>4. q \in Row /\ q.spec = NoSpec /\ ~ q.contract
      BY <2>2, <3>3 DEF Row
    <3> QED BY <3>2, <3>4
  <2>4. PICK m : m = Merge(q, Seen(c, health))
    OBVIOUS
  <2>5. /\ m \in Row /\ m.cid = c /\ m.cname = box[c].name /\ m.port = box[c].port
        /\ (m.man <=> box[c].man) /\ m.status \notin Transient /\ ~ m.contract
        /\ m.spec = NoSpec
    BY <2>3, <2>4, MergeType
  <2>6. PICK e \in Deps \cup {NoDep} : e = (IF box[c].man THEN box[c].dep ELSE NoDep)
    BY <2>2 DEF Box
  <2>7. x = [d |-> e, now |-> m]
    BY <2>1, <2>3, <2>4, <2>6
  <2>8. x.d = e /\ x.now = m
    BY <2>7
  <2>9. e # NoDep => m.man
    BY <2>5, <2>6
  <2>10. ASSUME NEW d \in Deps, e \in {NoDep, d} PROVE Bound(m, d)
    BY <2>2, <2>5, <2>6, <2>10, Absent DEF Bound, BoxOK
  <2> QED BY <2>5, <2>7, <2>8, <2>9, <2>10 DEF InsOK
<1>3. r \in Scan
  <2>1. PICK u, i : u = r.upd /\ i = r.ins /\ r = [on |-> TRUE, upd |-> u, ins |-> i]
    BY DEF ScanOf
  <2>2. u \subseteq [d : Deps, was : Row, now : Row]
    BY <1>1, <2>1
  <2>3. i \subseteq [d : Deps \cup {NoDep}, now : Row]
    BY <1>2, <2>1
  <2> QED BY <2>1, <2>2, <2>3 DEF Scan
<1> QED BY <1>1, <1>2, <1>3

(* ScanRead preserves the invariant.                                       *)
LEMMA ScanReadInv == ASSUME IInv, ScanRead PROVE IInv'
<1>1. PICK health \in {"healthy", "unhealthy"} : scan' = ScanOf(health)
  BY DEF ScanRead
<1>2. UNCHANGED <<rows, box, made, tasks, h, up, gone>> /\ up = "up"
  BY DEF ScanRead
<1>3. PICK r : r = ScanOf(health)
  OBVIOUS
<1>4. r \in Scan /\ (\A x \in r.upd : UpdOK(x)) /\ \A x \in r.ins : InsOK(x)
  BY <1>3, ScanOfOK
<1>5. TypeOK'
  BY <1>1, <1>2, <1>3, <1>4 DEF IInv, TypeOK
<1>6. There' = There /\ Live' = Live
  BY <1>2 DEF There, Live
<1>7. BoxInv' /\ RowInv' /\ CidsDiffer' /\ PortsDiffer'
  BY <1>2, <1>6 DEF IInv, BoxInv, BoxOK, RowInv, RowOK, Bound, CidsDiffer, PortsDiffer
<1>8. MarkInv' /\ TaskInv'
  BY <1>2, <1>6 DEF IInv, MarkInv, MarkOK, TaskInv, TaskOK
<1>9. ScanOK'
  <2>1. \A x : UpdOK(x) => UpdOK(x)'
    BY <1>2, <1>6 DEF UpdOK, Bound
  <2>2. \A x : InsOK(x) => InsOK(x)'
    BY <1>2, <1>6 DEF InsOK, Bound
  <2> QED BY <1>1, <1>3, <1>4, <2>1, <2>2 DEF ScanOK
<1>10. HandlerOK'
  <2>1. Undisturbed /\ TaskKept
    BY <1>2, <1>6 DEF Undisturbed, TaskKept
  <2>2. \A c \in There : box[c].man => Stays(c)
    BY <1>2, <1>6 DEF Stays, Alike
  <2> QED BY <1>2, <2>1, <2>2, HandlerKept
<1> QED BY <1>5, <1>7, <1>8, <1>9, <1>10 DEF IInv

(* A row after the commit of a scan: what others rely on is kept, and what *)
(* is new comes from a container that is there.                            *)
RowKept(q, d) ==
    /\ q \in Row /\ (q.man <=> rows[d].man) /\ (q.contract <=> rows[d].contract)
    /\ q.spec = NoSpec <=> rows[d].spec = NoSpec
    /\ q.spec # NoSpec => q.spec.port = rows[d].spec.port
    /\ rows[d].man => q.cid = rows[d].cid /\ q.cname = rows[d].cname /\ q.port = rows[d].port
    /\ q.status = rows[d].status \/ q.status \notin Transient
    /\ Bound(q, d)

(* A row a scan inserted.                                                  *)
Newcomer(q, d) ==
    /\ q \in Row /\ q.spec = NoSpec /\ ~ q.contract /\ q.status \notin Transient
    /\ Bound(q, d) /\ (rows[d] = OldRow => q.man)

Written(table) ==
    /\ table \in [Deps -> Row \cup {NoRow, OldRow}]
    /\ \A d \in Live : RowKept(table[d], d)
    /\ \A d \in Deps \ Live : table[d] = rows[d] \/ Newcomer(table[d], d)
    /\ \A d, e \in Deps : d # e /\ table[d] \in Row /\ table[e] \in Row
                            /\ table[d].cid = table[e].cid => table[d].cid = 0

(* The columns a scan writes to a row, whatever became of the row since.   *)
LEMMA RefreshedRow ==
    ASSUME IInv, NEW d \in Live, NEW was \in Row, NEW now \in Row,
           rows[d].man <=> was.man, now.status \notin Transient,
           IF was.man THEN /\ now.man /\ now.cid = was.cid /\ now.cname = was.cname
                           /\ now.port = was.port /\ now.spec = was.spec
           ELSE ~ now.man /\ was.spec = NoSpec /\ Bound(now, d),
           NEW q, q = Refreshed(rows[d], was, now)
    PROVE  RowKept(q, d)
<1>1. rows[d] \in Row /\ RowOK(d)
  BY Types DEF IInv, RowInv
<1>2. PICK r \in Row : r = rows[d]
  BY <1>1
<1>3. PICK cid, cname, api, port, man, st, hl, sp :
        /\ cid = Column(r.cid, was.cid, now.cid) /\ cname = Column(r.cname, was.cname, now.cname)
        /\ api = Column(r.api, was.api, now.api) /\ port = Column(r.port, was.port, now.port)
        /\ man = Column(r.man, was.man, now.man) /\ st = Column(r.status, was.status, now.status)
        /\ hl = Column(r.health, was.health, now.health)
        /\ sp = Column(r.spec, was.spec, now.spec)
  OBVIOUS
<1>4. /\ cid \in {r.cid, now.cid} /\ cname \in {r.cname, now.cname} /\ api \in {r.api, now.api}
      /\ port \in {r.port, now.port} /\ man \in {r.man, now.man} /\ st \in {r.status, now.status}
      /\ hl \in {r.health, now.health} /\ sp \in {r.spec, now.spec}
  BY <1>3 DEF Column
<1>5. q = [r EXCEPT !.cid = cid, !.cname = cname, !.api = api, !.port = port, !.man = man,
                    !.status = st, !.health = hl, !.spec = sp]
  <2>1. r = [name |-> r.name, api |-> r.api, cid |-> r.cid, cname |-> r.cname,
             status |-> r.status, health |-> r.health, man |-> r.man, spec |-> r.spec,
             port |-> r.port, contract |-> r.contract, bench |-> r.bench]
    BY DEF Row
  <2>2. q = [r EXCEPT !.cid = Column(r.cid, was.cid, now.cid),
                      !.cname = Column(r.cname, was.cname, now.cname),
                      !.api = Column(r.api, was.api, now.api),
                      !.port = Column(r.port, was.port, now.port),
                      !.man = Column(r.man, was.man, now.man),
                      !.status = Column(r.status, was.status, now.status),
                      !.health = Column(r.health, was.health, now.health),
                      !.spec = Column(r.spec, was.spec, now.spec)]
    BY <1>2, <2>1 DEF Refreshed
  <2> QED BY <1>3, <2>2
<1>6. q \in Row
  <2>1. /\ cid \in Boxes \cup {0} /\ cname \in ContainerName /\ api \in Api /\ port \in Ports
        /\ man \in BOOLEAN /\ st \in Transient \cup {"running", "exited", "unknown"}
        /\ hl \in {"healthy", "unhealthy", "unknown"} /\ sp \in Saved \cup {NoSpec}
    BY <1>4 DEF Row
  <2>2. /\ r.name \in ContainerName \cup {DName(n) : n \in Api} /\ r.contract \in BOOLEAN
        /\ r.bench \in {"none", "pending", "running", "succeeded", "failed"}
    BY DEF Row
  <2>3. q = [name |-> r.name, api |-> api, cid |-> cid, cname |-> cname, status |-> st,
             health |-> hl, man |-> man, spec |-> sp, port |-> port, contract |-> r.contract,
             bench |-> r.bench]
    BY <1>5 DEF Row
  <2> QED BY <2>1, <2>2, <2>3 DEF Row
<1>7. /\ q.cid = cid /\ q.cname = cname /\ q.port = port /\ q.man = man /\ q.status = st
      /\ q.spec = sp /\ q.contract = r.contract
  BY <1>5 DEF Row
<1>8. CASE was.man
  <2>1. now.man = was.man
    BY <1>8 DEF Row
  <2>2. cid = r.cid /\ cname = r.cname /\ port = r.port /\ sp = r.spec /\ man = r.man
    BY <1>3, <1>8, <2>1 DEF Column
  <2>3. Bound(q, d)
    BY <1>1, <1>2, <1>7, <2>2 DEF RowOK, Bound
  <2> QED BY <1>2, <1>4, <1>6, <1>7, <2>2, <2>3 DEF RowKept
<1>9. CASE ~ was.man
  <2>1. ~ r.man /\ ~ now.man /\ Bound(now, d) /\ Bound(r, d)
    BY <1>1, <1>2, <1>9 DEF RowOK
  <2>2. ~ man
    BY <1>4, <2>1
  <2>3. sp = NoSpec /\ r.spec = NoSpec
    BY <1>4, <2>1 DEF Bound
  <2>4. Bound(q, d)
    BY <1>4, <1>7, <2>1, <2>2, <2>3 DEF Bound
  <2> QED BY <1>2, <1>4, <1>6, <1>7, <2>1, <2>2, <2>3, <2>4 DEF RowKept
<1> QED BY <1>8, <1>9

(* A row that no scan touches.                                             *)
LEMMA UntouchedRow ==
    ASSUME IInv, NEW d \in Live
    PROVE  RowKept(rows[d], d)
  BY Types DEF IInv, RowInv, RowOK, RowKept

(* The updates of a scan.                                                  *)
LEMMA UpdatedRow ==
    ASSUME IInv, NEW r \in Scan, \A x \in r.upd : UpdOK(x), NEW d \in Live
    PROVE  RowKept(Updated(r)[d], d)
<1>1. d \in Deps
  BY DEF Live
<1>2. PICK u : u = {x \in r.upd : x.d = d}
  OBVIOUS
<1>3. CASE u = {}
  <2>1. Updated(r)[d] = rows[d]
    BY <1>1, <1>2, <1>3 DEF Updated
  <2> QED BY <2>1, UntouchedRow
<1>4. CASE u # {}
  <2>1. PICK x \in u : x = CHOOSE y \in u : TRUE
    BY <1>4
  <2>2. Updated(r)[d] = Refreshed(rows[d], x.was, x.now)
    BY <1>1, <1>2, <1>4, <2>1 DEF Updated
  <2>3. x.d = d /\ UpdOK(x) /\ x.was \in Row /\ x.now \in Row
    BY <1>2 DEF Scan
  <2>4. PICK was \in Row, now \in Row : was = x.was /\ now = x.now
    BY <2>3
  <2>5. /\ rows[d].man <=> was.man
        /\ now.status \notin Transient
        /\ IF was.man THEN /\ now.man /\ now.cid = was.cid /\ now.cname = was.cname
                           /\ now.port = was.port /\ now.spec = was.spec
           ELSE ~ now.man /\ was.spec = NoSpec /\ Bound(now, d)
    BY <2>3, <2>4 DEF UpdOK
  <2>6. PICK q : q = Refreshed(rows[d], was, now)
    OBVIOUS
  <2>7. RowKept(q, d)
    BY <2>5, <2>6, RefreshedRow
  <2> QED BY <2>2, <2>4, <2>6, <2>7
<1> QED BY <1>3, <1>4

(* What the commit of a scan that does not clash makes of the table.       *)
LEMMA InsertedOK ==
    ASSUME IInv, NEW r \in Scan, \A x \in r.upd : UpdOK(x), \A x \in r.ins : InsOK(x),
           ~ Clash(r), Places(r) # {}, NEW table, table = Inserted(r)
    PROVE  Written(table)
<1>1. PICK at \in Places(r) : at = CHOOSE f \in Places(r) : TRUE
  OBVIOUS
<1>2. /\ at \in [r.ins -> Deps] /\ \A x, y \in r.ins : at[x] = at[y] => x = y
      /\ \A x \in r.ins : IF x.d # NoDep THEN at[x] = x.d ELSE rows[at[x]] = NoRow
  BY DEF Places
<1>3. table = [d \in Deps |-> IF \E x \in r.ins : at[x] = d
                              THEN (CHOOSE x \in r.ins : at[x] = d).now ELSE Updated(r)[d]]
  BY <1>1 DEF Inserted
<1>4. ASSUME NEW d \in Deps, NEW x \in r.ins, at[x] = d
      PROVE  d \notin Live /\ table[d] = x.now /\ Newcomer(x.now, d)
  <2>1. PICK y \in r.ins : at[y] = d /\ y = CHOOSE z \in r.ins : at[z] = d
    BY <1>4
  <2>2. table[d] = y.now /\ y = x
    BY <1>2, <1>3, <1>4, <2>1
  <2>3. x.d # NoDep => x.d = d
    BY <1>2, <1>4
  <2>4. x.d = NoDep => rows[d] = NoRow
    BY <1>2, <1>4
  <2>5. d \notin Live
    <3>1. x.d \notin Live
      BY DEF Clash
    <3> QED BY <2>3, <2>4, <3>1 DEF Live
  <2>6. InsOK(x) /\ x.now \in Row
    BY DEF Scan
  <2>7. Newcomer(x.now, d)
    <3>1. Bound(x.now, d)
      BY <2>3, <2>6 DEF InsOK
    <3>2. rows[d] = OldRow => x.now.man
      BY <2>3, <2>4, <2>6, Absent DEF InsOK
    <3> QED BY <2>6, <3>1, <3>2 DEF InsOK, Newcomer
  <2> QED BY <2>2, <2>5, <2>7
<1>5. ASSUME NEW d \in Deps, ~ \E x \in r.ins : at[x] = d
      PROVE  table[d] = Updated(r)[d] /\ (d \notin Live => table[d] = rows[d])
  <2>1. table[d] = Updated(r)[d]
    BY <1>3, <1>5
  <2>2. d \notin Live => Updated(r)[d] = rows[d]
    BY DEF Updated
  <2> QED BY <2>1, <2>2
<1>6. \A d \in Live : RowKept(table[d], d)
  <2> SUFFICES ASSUME NEW d \in Live PROVE RowKept(table[d], d)
    OBVIOUS
  <2>1. d \in Deps
    BY DEF Live
  <2>2. table[d] = Updated(r)[d]
    BY <1>4, <1>5, <2>1
  <2> QED BY <2>2, UpdatedRow
<1>7. \A d \in Deps \ Live : table[d] = rows[d] \/ Newcomer(table[d], d)
  BY <1>4, <1>5
<1>8. table \in [Deps -> Row \cup {NoRow, OldRow}]
  <2>1. \A d \in Deps : table[d] \in Row \cup {NoRow, OldRow}
    BY <1>6, <1>7 DEF RowKept, Newcomer, IInv, TypeOK
  <2> QED BY <1>3, <2>1
<1>9. ASSUME NEW d \in Deps, NEW e \in Deps, d # e, table[d] \in Row, table[e] \in Row,
             table[d].cid = table[e].cid, table[d].cid # 0
      PROVE  FALSE
  <2>1. ASSUME NEW f \in Deps, table[f] \in Row, ~ \E x \in r.ins : at[x] = f
        PROVE  f \in Live /\ table[f] = Updated(r)[f]
    <3>1. f \notin Live => rows[f] \notin Row
      BY Types DEF IInv
    <3> QED BY <1>5, <2>1, <3>1
  <2>2. CASE \E x \in r.ins : at[x] = d
    <3>1. PICK x \in r.ins : at[x] = d /\ table[d] = x.now
      BY <1>4, <2>2
    <3>2. CASE \E y \in r.ins : at[y] = e
      <4>1. PICK y \in r.ins : at[y] = e /\ table[e] = y.now
        BY <1>4, <3>2
      <4>2. x # y
        BY <1>9, <3>1, <4>1
      <4>3. ~ Collide(x.now, y.now)
        BY <4>2 DEF Clash
      <4> QED BY <1>9, <3>1, <4>1, <4>3 DEF Collide
    <3>3. CASE ~ \E y \in r.ins : at[y] = e
      <4>1. e \in Live /\ table[e] = Updated(r)[e]
        BY <1>9, <2>1, <3>3
      <4>2. ~ Collide(Updated(r)[e], x.now)
        BY <4>1 DEF Clash
      <4> QED BY <1>9, <3>1, <4>1, <4>2 DEF Collide
    <3> QED BY <3>2, <3>3
  <2>3. CASE ~ \E x \in r.ins : at[x] = d
    <3>1. d \in Live /\ table[d] = Updated(r)[d]
      BY <1>9, <2>1, <2>3
    <3>2. CASE \E y \in r.ins : at[y] = e
      <4>1. PICK y \in r.ins : at[y] = e /\ table[e] = y.now
        BY <1>4, <3>2
      <4>2. ~ Collide(Updated(r)[d], y.now)
        BY <3>1 DEF Clash
      <4> QED BY <1>9, <3>1, <4>1, <4>2 DEF Collide
    <3>3. CASE ~ \E y \in r.ins : at[y] = e
      <4>1. e \in Live /\ table[e] = Updated(r)[e]
        BY <1>9, <2>1, <3>3
      <4>2. ~ Collide(Updated(r)[d], Updated(r)[e])
        BY <1>9, <3>1, <4>1 DEF Clash
      <4> QED BY <1>9, <3>1, <4>1, <4>2 DEF Collide
    <3> QED BY <3>2, <3>3
  <2> QED BY <2>2, <2>3
<1>10. \A d, e \in Deps : d # e /\ table[d] \in Row /\ table[e] \in Row
                             /\ table[d].cid = table[e].cid => table[d].cid = 0
  BY <1>9
<1>11. \A d \in Deps \ Live : table[d] = rows[d] \/ Newcomer(table[d], d)
  BY <1>7
<1> QED BY <1>6, <1>8, <1>10, <1>11 DEF Written

(* The live rows after a scan.                                             *)
LEMMA WrittenLive ==
    ASSUME IInv, Written(rows')
    PROVE  /\ \A d \in Live : d \in Live' /\ RowKept(rows'[d], d)
           /\ \A d \in Live' \ Live : Newcomer(rows'[d], d) /\ d \in Deps
           /\ \A d \in Live' : d \in Deps /\ rows'[d] \in Row
           /\ \A d \in Deps : rows[d] # NoRow => rows'[d] # NoRow
<1>1. \A d \in Live : d \in Deps /\ RowKept(rows'[d], d)
  BY DEF Written, Live
<1>2. \A d \in Live : d \in Live'
  BY <1>1, Absent DEF RowKept, Live
<1>3. \A d \in Live' \ Live : Newcomer(rows'[d], d) /\ d \in Deps
  <2> SUFFICES ASSUME NEW d \in Live', d \notin Live PROVE Newcomer(rows'[d], d) /\ d \in Deps
    OBVIOUS
  <2>1. d \in Deps /\ rows'[d] \notin {NoRow, OldRow} /\ rows[d] \in {NoRow, OldRow}
    BY DEF Live
  <2>2. rows'[d] # rows[d]
    BY <2>1
  <2> QED BY <2>1, <2>2 DEF Written
<1>4. \A d \in Live' : d \in Deps /\ rows'[d] \in Row
  BY <1>1, <1>3 DEF RowKept, Newcomer
<1>5. \A d \in Deps : rows[d] # NoRow => rows'[d] # NoRow
  BY <1>1, Absent DEF Written, RowKept, Newcomer, Live
<1> QED BY <1>1, <1>2, <1>3, <1>4, <1>5

(* The commit of a scan keeps what the rest relies on.                     *)
LEMMA WrittenUndisturbed ==
    ASSUME IInv, Written(rows')
    PROVE  Undisturbed /\ MarkStep
<1>1. /\ \A d \in Live : d \in Live' /\ RowKept(rows'[d], d)
      /\ \A d \in Live' \ Live : Newcomer(rows'[d], d) /\ d \in Deps
  BY WrittenLive
<1>2. Undisturbed
  BY <1>1 DEF Undisturbed, RowKept, Newcomer
<1>3. MarkStep
  <2> SUFFICES ASSUME NEW d \in Live', rows'[d].man, rows'[d].status \in Transient
               PROVE  /\ d \in Live /\ rows[d].man /\ rows[d].status \in Transient
                      /\ rows'[d].cid = rows[d].cid /\ rows'[d].cname = rows[d].cname
    BY DEF MarkStep
  <2>1. d \in Live
    BY <1>1 DEF Newcomer
  <2> QED BY <1>1, <2>1 DEF RowKept
<1> QED BY <1>2, <1>3

(* A step that writes what a scan found.                                   *)
LEMMA WrittenInv ==
    ASSUME IInv, TypeOK', Written(rows'), There' = There, made' = made, gone' = gone,
           \A c \in There : Stays(c), TaskStep, TaskInv', ScanOK', HandlerOK',
           \A t \in Tasks, d \in Live' :
              /\ rows'[d].man /\ rows'[d].status \in Transient
              /\ tasks[t].kind = "action" /\ tasks[t].d = d
              /\ tasks[t].cid = rows'[d].cid /\ tasks[t].cname = rows'[d].cname
              /\ tasks[t].st \in {"queued", "running", "paused", "cancelled"}
              => /\ tasks'[t].kind = "action" /\ tasks'[t].d = d
                 /\ tasks'[t].cid = tasks[t].cid /\ tasks'[t].cname = tasks[t].cname
                 /\ tasks'[t].st \in {"queued", "running", "paused", "cancelled"}
    PROVE  IInv'
<1>1. /\ \A d \in Live : d \in Live' /\ RowKept(rows'[d], d)
      /\ \A d \in Live' \ Live : Newcomer(rows'[d], d) /\ d \in Deps
      /\ \A d \in Live' : d \in Deps /\ rows'[d] \in Row
      /\ \A d \in Deps : rows[d] # NoRow => rows'[d] # NoRow
  BY WrittenLive
<1>2. MarkInv'
  BY WrittenUndisturbed, FrameMark
<1>3. BoxInv'
  <2> SUFFICES ASSUME NEW c \in There' PROVE BoxOK(c)'
    BY DEF BoxInv
  <2>1. c \in There /\ BoxOK(c) /\ box[c] \in Box /\ Stays(c)
    BY Types DEF IInv, BoxInv
  <2>2. box'[c].name = box[c].name /\ Alike(box[c], box'[c])
    BY <2>1 DEF Stays
  <2>3. \A e \in There' \ {c} : box'[e].name # box'[c].name
    BY <2>1, <2>2 DEF Stays, BoxOK
  <2>4. /\ c <= made' /\ box'[c].repl # c
        /\ box'[c].man <=> box'[c].name \notin {Foreign, <<>>}
        /\ ~ box'[c].man => box'[c].dep = NoDep /\ box'[c].repl = 0
        /\ box'[c].spec # NoSpec => box'[c].spec.port = box'[c].port
    BY <2>1, <2>2 DEF BoxOK, Alike
  <2>5. box'[c].dep # NoDep => /\ rows'[box'[c].dep] # NoRow
                               /\ box'[c].dep \in Live' => rows'[box'[c].dep].man
    <3> SUFFICES ASSUME box'[c].dep # NoDep
                 PROVE  /\ rows'[box'[c].dep] # NoRow
                        /\ box'[c].dep \in Live' => rows'[box'[c].dep].man
      OBVIOUS
    <3>1. PICK d \in Deps : d = box[c].dep /\ d = box'[c].dep
      BY <2>1, <2>2 DEF Alike, Box
    <3>2. rows[d] # NoRow /\ (d \in Live => rows[d].man)
      BY <2>1, <3>1 DEF BoxOK
    <3>3. d \in Live' /\ d \notin Live => rows[d] = OldRow
      BY <3>2 DEF Live
    <3>4. d \in Live' => rows'[d].man
      BY <1>1, <3>2, <3>3 DEF RowKept, Newcomer
    <3> QED BY <1>1, <3>1, <3>2, <3>4
  <2>6. box'[c].task # 0 => /\ tasks'[box'[c].task].kind \in {"create", "update"}
                            /\ tasks'[box'[c].task].kind = "create" => box'[c].dep = NoDep
    <3>1. box[c].task # 0 => box[c].task \in Tasks /\ tasks[box[c].task].st # "none"
      BY <2>1 DEF BoxOK, Box, IInv, TaskInv, TaskOK
    <3> QED BY <2>1, <2>2, <3>1 DEF BoxOK, Alike, TaskStep
  <2> QED BY <2>3, <2>4, <2>5, <2>6 DEF BoxOK
<1>4. RowInv'
  <2> SUFFICES ASSUME NEW d \in Live' PROVE RowOK(d)'
    BY DEF RowInv
  <2>1. PICK q \in Row : q = rows'[d]
    BY <1>1
  <2>2. Bound(q, d) => Bound(q, d)'
    BY DEF Bound, Stays, Alike
  <2>3. CASE d \notin Live
    <3>1. q.spec = NoSpec /\ ~ q.contract /\ Bound(q, d)
      BY <1>1, <2>1, <2>3 DEF Newcomer
    <3> QED BY <2>1, <2>2, <3>1 DEF RowOK
  <2>4. CASE d \in Live
    <3>1. RowKept(q, d) /\ RowOK(d)
      BY <1>1, <2>1, <2>4 DEF IInv, RowInv
    <3>2. PICK r : r = rows[d]
      OBVIOUS
    <3>3. q.contract => q.spec # NoSpec
      BY <3>1 DEF RowKept, RowOK
    <3>4. ASSUME q.spec # NoSpec
          PROVE  /\ q.spec.port = q.port /\ q.cid \in There \cup gone
                 /\ \A e \in Deps : q.cname = backup_container_name(e) => e = d
                 /\ \A e \in Deps : q.cid \in There
                                      /\ box[q.cid].name = backup_container_name(e) => e = d
      <4>1. r.spec # NoSpec
        BY <3>1, <3>2, <3>4 DEF RowKept
      <4>2. r.man
        BY <3>1, <3>2, <4>1 DEF RowOK, Bound
      <4>3. q.cid = r.cid /\ q.cname = r.cname /\ q.port = r.port /\ q.spec.port = r.spec.port
        BY <3>1, <3>2, <3>4, <4>2 DEF RowKept
      <4> QED BY <3>1, <3>2, <4>1, <4>3 DEF RowOK
    <3>5. q.spec # NoSpec =>
            \A e \in Deps : q.cid \in There'
                              /\ box'[q.cid].name = backup_container_name(e) => e = d
      BY <3>4 DEF Stays
    <3>6. Bound(q, d)'
      BY <2>2, <3>1 DEF RowKept
    <3> QED BY <2>1, <3>3, <3>4, <3>5, <3>6 DEF RowOK
  <2> QED BY <2>3, <2>4
<1>5. CidsDiffer'
  BY <1>1 DEF CidsDiffer, Written
<1>6. PortsDiffer'
  <2> SUFFICES ASSUME NEW d \in Live', NEW e \in Live', d # e, rows'[d].spec # NoSpec,
                      rows'[e].spec # NoSpec
               PROVE  rows'[d].port # rows'[e].port
    BY DEF PortsDiffer
  <2>1. d \in Live /\ e \in Live
    BY <1>1 DEF Newcomer
  <2>2. rows[d].spec # NoSpec /\ rows[e].spec # NoSpec
    BY <1>1, <2>1 DEF RowKept
  <2>3. rows[d].man /\ rows[e].man
    BY <2>1, <2>2 DEF IInv, RowInv, RowOK, Bound
  <2>4. rows'[d].port = rows[d].port /\ rows'[e].port = rows[e].port
    BY <1>1, <2>1, <2>3 DEF RowKept
  <2> QED BY <2>1, <2>2, <2>4 DEF IInv, PortsDiffer
<1> QED BY <1>2, <1>3, <1>4, <1>5, <1>6 DEF IInv

(* What the commit of a scan, of rows it read some steps ago, writes.      *)
LEMMA ScanCommitWrites == ASSUME IInv, ScanCommit PROVE Written(rows')
<1>1. CASE Clash(scan)
  <2>1. rows' = rows
    BY <1>1 DEF ScanCommit
  <2>2. \A d \in Live : RowKept(rows[d], d)
    BY UntouchedRow
  <2>3. \A d, e \in Deps : d # e /\ rows[d] \in Row /\ rows[e] \in Row
                             /\ rows[d].cid = rows[e].cid => rows[d].cid = 0
    BY Absent DEF IInv, CidsDiffer, Live
  <2> QED BY <2>1, <2>2, <2>3 DEF Written, IInv, TypeOK
<1>2. CASE ~ Clash(scan)
  <2>1. Places(scan) # {} /\ rows' = Inserted(scan)
    BY <1>2 DEF ScanCommit
  <2>2. PICK r \in Scan : r = scan
    BY DEF IInv, TypeOK
  <2>3. (\A x \in r.upd : UpdOK(x)) /\ \A x \in r.ins : InsOK(x)
    BY <2>2 DEF IInv, ScanOK
  <2>4. PICK table : table = Inserted(r)
    OBVIOUS
  <2>5. Written(table)
    BY <1>2, <2>1, <2>2, <2>3, <2>4, InsertedOK
  <2> QED BY <2>1, <2>2, <2>4, <2>5
<1> QED BY <1>1, <1>2

(* The commit of a scan, of rows it read some steps ago.                   *)
LEMMA ScanCommitInv == ASSUME IInv, ScanCommit PROVE IInv'
<1>1. UNCHANGED <<box, made, tasks, h, up, gone>> /\ up = "up" /\ scan' = NoScan
  BY DEF ScanCommit
<1>2. There' = There /\ \A c \in There : Stays(c)
  BY <1>1 DEF There, Stays, Alike
<1>3. ScanOK'
  BY <1>1, InitialTypes DEF ScanOK
<1>4. TaskStep /\ TaskInv' /\ TaskKept
  BY <1>1 DEF TaskStep, TaskKept, IInv, TaskInv, TaskOK
<1>5. Written(rows')
  BY ScanCommitWrites
<1>6. TypeOK'
  BY <1>1, <1>5, InitialTypes DEF IInv, TypeOK, Written
<1>7. HandlerOK'
  BY <1>1, <1>2, <1>4, <1>5, WrittenUndisturbed, HandlerKept
<1> QED BY <1>1, <1>2, <1>3, <1>4, <1>5, <1>6, <1>7, WrittenInv

(* The managed template changes nothing of a stored specification but its  *)
(* name.                                                                   *)
LEMMA Reconciled ==
    ASSUME IInv, NEW table, Written(table),
           NEW fixed, fixed = reconcile_managed_chat_templates(table)
    PROVE  Written(fixed)
<1>1. table \in [Deps -> Row \cup {NoRow, OldRow}]
  BY DEF Written
<1>2. fixed = [d \in Deps |-> IF table[d] \in {NoRow, OldRow} THEN table[d]
                              ELSE IF Needs(table[d]) THEN [table[d] EXCEPT !.spec.s = FixOf[@]]
                              ELSE table[d]]
  BY DEF reconcile_managed_chat_templates
<1>3. ASSUME NEW d \in Deps
      PROVE  /\ fixed[d] # table[d] => table[d] \in Row /\ Needs(table[d])
             /\ table[d] \in Row =>
                  /\ fixed[d] \in Row /\ fixed[d].cid = table[d].cid
                  /\ fixed[d].cname = table[d].cname /\ fixed[d].port = table[d].port
                  /\ (fixed[d].man <=> table[d].man) /\ fixed[d].status = table[d].status
                  /\ (fixed[d].contract <=> table[d].contract)
                  /\ fixed[d].spec = NoSpec <=> table[d].spec = NoSpec
                  /\ fixed[d].spec # NoSpec => fixed[d].spec.port = table[d].spec.port
  <2>1. CASE table[d] \in {NoRow, OldRow}
    BY <1>2, <2>1, Absent
  <2>2. CASE table[d] \in Row /\ ~ Needs(table[d])
    BY <1>2, <2>2, Absent
  <2>3. CASE table[d] \in Row /\ Needs(table[d])
    <3>1. PICK q \in Row : q = table[d]
      BY <2>3
    <3>2. q.spec \in Saved
      BY <2>3, <3>1 DEF Needs, Row
    <3>3. PICK sp \in Saved : sp = q.spec
      BY <3>2
    <3>4. PICK s2 \in Specs : s2 = FixOf[sp.s]
      BY DeploymentsAssumption DEF Saved
    <3>5. PICK new : new = [s |-> s2, port |-> sp.port]
      OBVIOUS
    <3>6. new \in Saved /\ new # NoSpec /\ new.port = sp.port
      BY <3>5, Absent DEF Saved
    <3>7. [sp EXCEPT !.s = FixOf[@]] = new
      BY <3>4, <3>5 DEF Saved
    <3>8. fixed[d] = [q EXCEPT !.spec = new]
      <4>1. fixed[d] = [q EXCEPT !.spec.s = FixOf[@]]
        BY <1>2, <2>3, <3>1, Absent
      <4>2. q = [name |-> q.name, api |-> q.api, cid |-> q.cid, cname |-> q.cname,
                 status |-> q.status, health |-> q.health, man |-> q.man, spec |-> sp,
                 port |-> q.port, contract |-> q.contract, bench |-> q.bench]
        BY <3>3 DEF Row
      <4>3. [q EXCEPT !.spec.s = FixOf[@]] = [q EXCEPT !.spec = [sp EXCEPT !.s = FixOf[@]]]
        BY <4>2
      <4> QED BY <3>7, <4>1, <4>3
    <3>9. /\ fixed[d] \in Row /\ fixed[d].cid = q.cid /\ fixed[d].cname = q.cname
          /\ fixed[d].port = q.port /\ fixed[d].man = q.man /\ fixed[d].status = q.status
          /\ fixed[d].contract = q.contract /\ fixed[d].spec = new
      BY <3>6, <3>8 DEF Row
    <3>10. sp # NoSpec
      BY Absent
    <3> QED BY <2>3, <3>1, <3>3, <3>6, <3>9, <3>10
  <2> QED BY <1>1, <2>1, <2>2, <2>3
<1>4. fixed \in [Deps -> Row \cup {NoRow, OldRow}]
  <2>1. \A d \in Deps : fixed[d] \in Row \cup {NoRow, OldRow}
    BY <1>1, <1>3
  <2> QED BY <1>2, <2>1
<1>5. \A d \in Live : RowKept(fixed[d], d)
  <2> SUFFICES ASSUME NEW d \in Live PROVE RowKept(fixed[d], d)
    OBVIOUS
  <2>1. d \in Deps /\ RowKept(table[d], d)
    BY DEF Live, Written
  <2>2. PICK q, f : q = table[d] /\ f = fixed[d]
    OBVIOUS
  <2>3. /\ q \in Row /\ f \in Row /\ f.cid = q.cid /\ f.cname = q.cname /\ f.port = q.port
        /\ (f.man <=> q.man) /\ f.status = q.status /\ (f.contract <=> q.contract)
        /\ f.spec = NoSpec <=> q.spec = NoSpec
        /\ f.spec # NoSpec => f.spec.port = q.spec.port
    BY <1>3, <2>1, <2>2 DEF RowKept
  <2>4. RowKept(q, d)
    BY <2>1, <2>2
  <2>5. Bound(f, d)
    BY <2>3, <2>4 DEF RowKept, Bound
  <2>6. RowKept(f, d)
    BY <2>3, <2>4, <2>5 DEF RowKept
  <2> QED BY <2>2, <2>6
<1>6. \A d \in Deps \ Live : fixed[d] = rows[d] \/ Newcomer(fixed[d], d)
  <2> SUFFICES ASSUME NEW d \in Deps, d \notin Live
               PROVE  fixed[d] = rows[d] \/ Newcomer(fixed[d], d)
    OBVIOUS
  <2>1. table[d] = rows[d] \/ Newcomer(table[d], d)
    BY DEF Written
  <2>2. fixed[d] = table[d]
    BY <1>3, <2>1, Types DEF Newcomer, Needs, IInv
  <2> QED BY <2>1, <2>2
<1>7. \A d, e \in Deps : d # e /\ fixed[d] \in Row /\ fixed[e] \in Row
                           /\ fixed[d].cid = fixed[e].cid => fixed[d].cid = 0
  <2>1. \A d \in Deps : fixed[d] \in Row => table[d] \in Row /\ fixed[d].cid = table[d].cid
    BY <1>1, <1>3
  <2> QED BY <2>1 DEF Written
<1> QED BY <1>4, <1>5, <1>6, <1>7 DEF Written

(* What the startup scan and the managed template make of the rows.        *)
LEMMA RestartWrites ==
    ASSUME IInv, NEW health \in {"healthy", "unhealthy"}, NEW r, r = ScanOf(health),
           ~ Clash(r), Places(r) # {},
           rows' = reconcile_managed_chat_templates(Inserted(r))
    PROVE  Written(rows')
<1>1. PICK table : table = Inserted(r)
  OBVIOUS
<1>2. r \in Scan /\ (\A x \in r.upd : UpdOK(x)) /\ \A x \in r.ins : InsOK(x)
  BY ScanOfOK
<1>3. Written(table)
  BY <1>1, <1>2, InsertedOK
<1>4. PICK fixed : fixed = reconcile_managed_chat_templates(table)
  OBVIOUS
<1>5. Written(fixed)
  BY <1>3, <1>4, Reconciled
<1> QED BY <1>1, <1>4, <1>5

(* A start of the manager after a crash.                                   *)
LEMMA RestartInv == ASSUME IInv, Restart PROVE IInv'
<1>1. up = "down" /\ UNCHANGED <<made, h, scan, gone>>
  BY DEF Restart
<1>2. h = Idle /\ scan = NoScan
  BY <1>1 DEF IInv, HandlerOK
<1>3. PICK health \in {"healthy", "unhealthy"} :
         LET r == ScanOf(health) IN
         IF Clash(r) THEN up' = "failed" /\ UNCHANGED <<rows, box, tasks>>
         ELSE /\ up' = "up" /\ Places(r) # {}
              /\ rows' = reconcile_managed_chat_templates(Inserted(r))
              /\ box' = [c \in Boxes |-> IF c \in Drifted(Inserted(r))
                                         THEN [box[c] EXCEPT !.drift = TRUE] ELSE box[c]]
              /\ tasks' = [t \in Tasks |-> IF tasks[t].st = "running"
                             THEN [tasks[t] EXCEPT !.st = "queued", !.ctl = "none"] ELSE tasks[t]]
  BY DEF Restart
<1>4. PICK r : r = ScanOf(health)
  OBVIOUS
<1>5. ScanOK'
  BY <1>1, <1>2, InitialTypes DEF ScanOK
<1>6. HandlerOK'
  BY <1>1, <1>2, AtIdle
<1>7. CASE Clash(r)
  <2>1. up' = "failed" /\ UNCHANGED <<rows, box, tasks>>
    BY <1>3, <1>4, <1>7
  <2>2. TypeOK'
    BY <1>1, <2>1 DEF IInv, TypeOK
  <2>3. There' = There /\ Live' = Live
    BY <2>1 DEF There, Live
  <2>4. BoxInv' /\ RowInv' /\ CidsDiffer' /\ PortsDiffer'
    BY <1>1, <2>1, <2>3 DEF IInv, BoxInv, BoxOK, RowInv, RowOK, Bound, CidsDiffer, PortsDiffer
  <2>5. MarkInv' /\ TaskInv'
    BY <2>1, <2>3 DEF IInv, MarkInv, MarkOK, TaskInv, TaskOK
  <2> QED BY <1>5, <1>6, <2>2, <2>4, <2>5 DEF IInv
<1>8. CASE ~ Clash(r)
  <2>1. PICK table : table = Inserted(r)
    OBVIOUS
  <2>2. /\ up' = "up" /\ Places(r) # {}
        /\ rows' = reconcile_managed_chat_templates(table)
        /\ box' = [c \in Boxes |-> IF c \in Drifted(table)
                                   THEN [box[c] EXCEPT !.drift = TRUE] ELSE box[c]]
        /\ tasks' = [t \in Tasks |-> IF tasks[t].st = "running"
                       THEN [tasks[t] EXCEPT !.st = "queued", !.ctl = "none"] ELSE tasks[t]]
    BY <1>3, <1>4, <1>8, <2>1
  <2>5. Written(rows')
    BY <1>4, <1>8, <2>1, <2>2, RestartWrites
  <2>6. ASSUME NEW c \in Boxes
        PROVE  /\ box[c] = NoBox => box'[c] = NoBox
               /\ box[c] \in Box => /\ box'[c] \in Box /\ box'[c].name = box[c].name
                                    /\ Alike(box[c], box'[c])
    <3>1. CASE c \in Drifted(table)
      <4>1. c \in There
        BY <3>1 DEF Drifted
      <4>2. PICK b \in Box : b = box[c]
        BY <4>1, Types DEF IInv
      <4>3. box'[c] = [b EXCEPT !.drift = TRUE]
        BY <2>2, <3>1, <4>2
      <4>4. /\ box'[c] \in Box /\ box'[c].name = b.name /\ box'[c].man = b.man
            /\ box'[c].port = b.port /\ box'[c].dep = b.dep /\ box'[c].task = b.task
            /\ box'[c].spec = b.spec /\ box'[c].repl = b.repl
        BY <4>3 DEF Box
      <4> QED BY <4>2, <4>4, Absent DEF Alike
    <3>2. CASE c \notin Drifted(table)
      BY <2>2, <3>2 DEF Alike
    <3> QED BY <3>1, <3>2
  <2>7. box \in [Boxes -> Box \cup {NoBox}] /\ tasks \in [Tasks -> Task]
    BY DEF IInv, TypeOK
  <2>8. box' \in [Boxes -> Box \cup {NoBox}]
    <3>1. \A c \in Boxes : box'[c] \in Box \cup {NoBox}
      BY <2>6, <2>7
    <3> QED BY <2>2, <3>1
  <2>9. There' = There /\ \A c \in There : Stays(c)
    <3>1. \A c \in Boxes : box'[c] # NoBox <=> box[c] # NoBox
      BY <2>6, <2>7, Absent
    <3>2. There' = There
      BY <3>1 DEF There
    <3> QED BY <2>6, <3>2, Types DEF IInv, Stays
  <2>10. ASSUME NEW t \in Tasks
         PROVE  /\ tasks'[t] \in Task /\ tasks'[t].kind = tasks[t].kind
                /\ tasks'[t].d = tasks[t].d /\ tasks'[t].s = tasks[t].s
                /\ tasks'[t].act = tasks[t].act /\ tasks'[t].cid = tasks[t].cid
                /\ tasks'[t].cname = tasks[t].cname
                /\ tasks'[t].st = IF tasks[t].st = "running" THEN "queued" ELSE tasks[t].st
    <3>1. PICK x \in Task : x = tasks[t]
      BY <2>7
    <3>2. CASE x.st = "running"
      <4>1. tasks'[t] = [x EXCEPT !.st = "queued", !.ctl = "none"]
        BY <2>2, <3>1, <3>2
      <4>2. "queued" \in TaskStatus
        BY DEF TaskStatus
      <4> QED BY <3>1, <3>2, <4>1, <4>2 DEF Task
    <3>3. CASE x.st # "running"
      BY <2>2, <3>1, <3>3
    <3> QED BY <3>2, <3>3
  <2>11. tasks' \in [Tasks -> Task]
    <3>1. \A t \in Tasks : tasks'[t] \in Task
      BY <2>10
    <3> QED BY <2>2, <3>1
  <2>12. TypeOK'
    BY <1>1, <2>2, <2>5, <2>8, <2>11 DEF IInv, TypeOK, Written
  <2>13. TaskStep /\ TaskInv'
    BY <2>10 DEF TaskStep, IInv, TaskInv, TaskOK
  <2> QED BY <1>1, <1>5, <1>6, <2>5, <2>9, <2>10, <2>12, <2>13, WrittenInv
<1> QED BY <1>7, <1>8

(***************************************************************************)
(* The theorems.                                                           *)
(***************************************************************************)
(* The deployment that exists initially, if there is one, is sound.        *)
LEMMA InitInv == ASSUME Init PROVE IInv
<1>1. PICK kind \in {"none", "managed", "contract", "foreign", "stale", "lost"},
           p \in {q \in Ports : PortOf[FirstSpec] \in {q, AutoPort}} :
         LET d == CHOOSE x \in Deps : TRUE
             mb == run_container(Resolved(FirstSpec, p), 0, NoDep, 0)
             fb == ForeignBox(p)
             mr == NewRow(Resolved(FirstSpec, p), 1)
             fr == [mr EXCEPT !.name = Foreign, !.api = "foreign", !.cname = Foreign,
                              !.man = FALSE, !.spec = NoSpec, !.bench = "none"] IN
         /\ rows = [NoRows EXCEPT ![d] =
              CASE kind = "none" -> NoRow
                [] kind = "managed" -> mr
                [] kind \in {"contract", "lost"} -> [mr EXCEPT !.contract = TRUE]
                [] kind = "foreign" -> fr
                [] kind = "stale" -> [fr EXCEPT !.cid = 0, !.cname = <<>>]]
         /\ box = [NoBoxes EXCEPT ![1] =
              CASE kind \in {"none", "stale", "lost"} -> NoBox
                [] kind = "managed" -> mb
                [] kind = "contract" -> [mb EXCEPT !.drift = TRUE]
                [] kind = "foreign" -> fb]
         /\ made = IF kind \in {"none", "stale"} THEN 0 ELSE 1
         /\ gone = IF kind = "lost" THEN {1} ELSE {}
  BY DEF Init
<1>2. /\ tasks = [t \in Tasks |-> NoTask] /\ h = Idle /\ scan = NoScan /\ up = "up"
  BY DEF Init
<1>3. PICK d \in Deps : d = CHOOSE x \in Deps : TRUE
  BY DeploymentsAssumption
<1>4. p \in Ports /\ FirstSpec \in Specs
  BY DeploymentsAssumption
<1>5. PICK sp \in Saved : /\ sp = Resolved(FirstSpec, p) /\ sp # NoSpec /\ sp.port = p
                          /\ sp.s = FirstSpec
  BY <1>4, ResolvedType
<1>6. PICK n \in ContainerName :
         /\ n = deterministic_container_name(NameOf[FirstSpec]) /\ n \notin {Foreign, <<>>}
         /\ \A e \in Deps : n # backup_container_name(e)
  <2>1. deterministic_container_name(NameOf[FirstSpec]) \in ContainerName
    BY <1>4, NameTypes
  <2> QED BY <2>1, Names
<1>7. Foreign \in ContainerName /\ <<>> \in ContainerName /\ "foreign" \in Api /\ 1 \in Boxes
      /\ Foreign # <<>>
  BY NameTypes, Absent DEF Foreign
<1>8. PICK mr \in Row :
         /\ mr = NewRow(sp, 1) /\ mr.cid = 1 /\ mr.man /\ mr.spec = sp /\ mr.port = p
         /\ mr.cname = n /\ ~ mr.contract /\ mr.status = "running"
  <2>1. PICK q : q = NewRow(sp, 1)
    OBVIOUS
  <2>2. q \in Row
    BY <1>7, <2>1, NewRowType
  <2> QED BY <1>5, <1>6, <2>1, <2>2 DEF NewRow
<1>9. PICK mc \in Row :
         /\ mc = [mr EXCEPT !.contract = TRUE] /\ mc.cid = 1 /\ mc.man /\ mc.spec = sp
         /\ mc.port = p /\ mc.cname = n /\ mc.contract /\ mc.status = "running"
  <2>1. PICK q : q = [mr EXCEPT !.contract = TRUE]
    OBVIOUS
  <2>2. q \in Row /\ q.cid = mr.cid /\ q.man = mr.man /\ q.spec = mr.spec /\ q.port = mr.port
        /\ q.cname = mr.cname /\ q.contract = TRUE /\ q.status = mr.status
    BY <2>1 DEF Row
  <2> QED BY <1>8, <2>1, <2>2
<1>10. PICK fr \in Row :
         /\ fr = [mr EXCEPT !.name = Foreign, !.api = "foreign", !.cname = Foreign,
                            !.man = FALSE, !.spec = NoSpec, !.bench = "none"]
         /\ fr.cid = 1 /\ ~ fr.man /\ fr.spec = NoSpec /\ fr.port = p /\ fr.cname = Foreign
         /\ ~ fr.contract /\ fr.status = "running"
  <2>1. PICK q : q = [mr EXCEPT !.name = Foreign, !.api = "foreign", !.cname = Foreign,
                                !.man = FALSE, !.spec = NoSpec, !.bench = "none"]
    OBVIOUS
  <2>2. q \in Row /\ q.cid = mr.cid /\ q.man = FALSE /\ q.spec = NoSpec /\ q.port = mr.port
        /\ q.cname = Foreign /\ q.contract = mr.contract /\ q.status = mr.status
    BY <1>7, <2>1 DEF Row
  <2> QED BY <1>8, <2>1, <2>2
<1>11. PICK sr \in Row :
         /\ sr = [fr EXCEPT !.cid = 0, !.cname = <<>>]
         /\ sr.cid = 0 /\ ~ sr.man /\ sr.spec = NoSpec /\ sr.port = p /\ sr.cname = <<>>
         /\ ~ sr.contract /\ sr.status = "running"
  <2>1. PICK q : q = [fr EXCEPT !.cid = 0, !.cname = <<>>]
    OBVIOUS
  <2>2. q \in Row /\ q.cid = 0 /\ q.man = fr.man /\ q.spec = fr.spec /\ q.port = fr.port
        /\ q.cname = <<>> /\ q.contract = fr.contract /\ q.status = fr.status
    BY <1>7, <2>1 DEF Row
  <2> QED BY <1>10, <2>1, <2>2
<1>12. PICK mb \in Box :
         /\ mb = run_container(sp, 0, NoDep, 0) /\ mb.name = n /\ mb.man /\ mb.task = 0
         /\ mb.spec = sp /\ mb.dep = NoDep /\ mb.repl = 0 /\ mb.port = p
  <2>1. run_container(sp, 0, NoDep, 0) \in Box
    BY RunContainerType
  <2> QED BY <1>5, <1>6, <2>1 DEF run_container
<1>13. PICK db \in Box :
         /\ db = [mb EXCEPT !.drift = TRUE] /\ db.name = n /\ db.man /\ db.task = 0
         /\ db.spec = sp /\ db.dep = NoDep /\ db.repl = 0 /\ db.port = p
  <2>1. PICK q : q = [mb EXCEPT !.drift = TRUE]
    OBVIOUS
  <2>2. q \in Box /\ q.name = mb.name /\ q.man = mb.man /\ q.task = mb.task
        /\ q.spec = mb.spec /\ q.dep = mb.dep /\ q.repl = mb.repl /\ q.port = mb.port
    BY <2>1 DEF Box
  <2> QED BY <1>12, <2>1, <2>2
<1>14. PICK fb \in Box :
         /\ fb = ForeignBox(p) /\ fb.name = Foreign /\ ~ fb.man /\ fb.task = 0
         /\ fb.spec = NoSpec /\ fb.dep = NoDep /\ fb.repl = 0 /\ fb.port = p
  <2>1. PICK q : q = ForeignBox(p)
    OBVIOUS
  <2>2. q \in Box
    BY <1>4, <1>7, <2>1 DEF ForeignBox, Box
  <2> QED BY <2>1, <2>2 DEF ForeignBox
<1>15. PICK row, b :
         /\ row = (CASE kind = "none" -> NoRow
                     [] kind = "managed" -> mr
                     [] kind \in {"contract", "lost"} -> mc
                     [] kind = "foreign" -> fr
                     [] kind = "stale" -> sr)
         /\ b = (CASE kind \in {"none", "stale", "lost"} -> NoBox
                   [] kind = "managed" -> mb
                   [] kind = "contract" -> db
                   [] kind = "foreign" -> fb)
  OBVIOUS
<1>16. /\ rows = [NoRows EXCEPT ![d] = row] /\ box = [NoBoxes EXCEPT ![1] = b]
       /\ made = IF kind \in {"none", "stale"} THEN 0 ELSE 1
       /\ gone = IF kind = "lost" THEN {1} ELSE {}
  BY <1>1, <1>3, <1>5, <1>8, <1>9, <1>10, <1>11, <1>12, <1>13, <1>14, <1>15
<1>17. /\ row \in Row \cup {NoRow} /\ b \in Box \cup {NoBox}
       /\ row = NoRow => b = NoBox
       /\ row # NoRow => /\ row.cid <= made /\ row.status = "running"
                         /\ row.man <=> row.cname \notin {Foreign, <<>>}
                         /\ row.contract => row.spec # NoSpec
       /\ row # NoRow /\ row.man => row.cid = 1 /\ row.spec = sp /\ row.port = p /\ row.cname = n
                                    /\ (b # NoBox => b.man) /\ (b = NoBox => gone = {1})
       /\ row # NoRow /\ ~ row.man => row.spec = NoSpec /\ (b # NoBox => ~ b.man)
       /\ b # NoBox => /\ made = 1 /\ b.repl = 0 /\ b.dep = NoDep /\ b.task = 0 /\ b.port = p
                       /\ b.man => b.name = n /\ b.spec = sp
                       /\ ~ b.man => b.name = Foreign /\ b.spec = NoSpec
  <2>1. CASE kind = "none"
    BY <1>15, <2>1, Absent
  <2>2. CASE kind = "managed"
    BY <1>6, <1>8, <1>12, <1>15, <1>16, <2>2, Absent
  <2>3. CASE kind = "contract"
    <3>1. row = mc /\ b = db /\ made = 1 /\ gone = {}
      BY <1>15, <1>16, <2>3
    <3>2. /\ row \in Row /\ b \in Box /\ row # NoRow /\ b # NoBox
          /\ row.cid = 1 /\ row.status = "running" /\ row.man /\ row.spec = sp
          /\ row.port = p /\ row.cname = n /\ b.man /\ b.repl = 0 /\ b.dep = NoDep
          /\ b.task = 0 /\ b.port = p /\ b.name = n /\ b.spec = sp
      BY <1>9, <1>13, <3>1, Absent
    <3> QED BY <1>5, <1>6, <3>1, <3>2
  <2>4. CASE kind = "foreign"
    <3>1. row = fr /\ b = fb /\ made = 1 /\ gone = {}
      BY <1>15, <1>16, <2>4
    <3> QED BY <1>10, <1>14, <3>1, Absent
  <2>5. CASE kind = "stale"
    <3>1. row = sr /\ b = NoBox /\ made = 0 /\ gone = {}
      BY <1>15, <1>16, <2>5
    <3> QED BY <1>11, <3>1, Absent
  <2>6. CASE kind = "lost"
    <3>1. row = mc /\ b = NoBox /\ made = 1 /\ gone = {1}
      BY <1>15, <1>16, <2>6
    <3> QED BY <1>5, <1>6, <1>9, <3>1, Absent
  <2> QED BY <2>1, <2>2, <2>3, <2>4, <2>5, <2>6
<1>18. /\ rows[d] = row /\ \A e \in Deps \ {d} : rows[e] = NoRow
       /\ box[1] = b /\ \A c \in Boxes \ {1} : box[c] = NoBox
  BY <1>7, <1>16 DEF NoRows, NoBoxes
<1>19. Live \subseteq {d} /\ There \subseteq {1} /\ (row # NoRow => row \in Row)
       /\ (b # NoBox => b \in Box) /\ (1 \in There <=> b # NoBox) /\ (d \in Live <=> row # NoRow)
  BY <1>7, <1>17, <1>18, Absent DEF Live, There
<1>20. TypeOK
  <2>1. rows \in [Deps -> Row \cup {NoRow, OldRow}]
    BY <1>16, <1>17 DEF NoRows
  <2>2. box \in [Boxes -> Box \cup {NoBox}]
    BY <1>7, <1>16, <1>17 DEF NoBoxes
  <2>3. made \in 0 .. MaxBoxes
    BY <1>16, Absent
  <2> QED BY <1>2, <2>1, <2>2, <2>3, InitialTypes DEF TypeOK
<1>21. BoxInv
  <2> SUFFICES ASSUME NEW c \in There PROVE BoxOK(c)
    BY DEF BoxInv
  <2>1. c = 1 /\ box[c] = b /\ b # NoBox /\ There \ {c} = {}
    BY <1>18, <1>19
  <2> QED BY <1>5, <1>6, <1>7, <1>17, <2>1 DEF BoxOK
<1>22. RowInv
  <2> SUFFICES ASSUME NEW e \in Live PROVE RowOK(e)
    BY DEF RowInv
  <2>1. e = d /\ rows[e] = row /\ row # NoRow
    BY <1>18, <1>19
  <2>2. row.cid \in There => row.cid = 1 /\ b # NoBox
    BY <1>19
  <2>3. Bound(row, e)
    BY <1>17, <1>18, <2>1, <2>2 DEF Bound
  <2>4. ASSUME row.spec # NoSpec
        PROVE  /\ row.spec.port = row.port /\ row.cid \in There \cup gone
               /\ \A f \in Deps : row.cname # backup_container_name(f)
               /\ \A f \in Deps : row.cid \in There =>
                                      box[row.cid].name # backup_container_name(f)
    <3>1. row.man
      BY <1>17, <2>1, <2>4
    <3> QED BY <1>5, <1>6, <1>17, <1>18, <1>19, <2>1, <3>1
  <2> QED BY <1>17, <2>1, <2>3, <2>4 DEF RowOK
<1>23. CidsDiffer /\ PortsDiffer
  BY <1>19 DEF CidsDiffer, PortsDiffer
<1>24. MarkInv
  BY <1>17, <1>18, <1>19 DEF MarkInv, MarkOK, Transient
<1>25. TaskInv
  BY <1>2, InitialTypes DEF TaskInv, TaskOK
<1>26. ScanOK
  BY <1>2, InitialTypes DEF ScanOK
<1>27. HandlerOK
  BY <1>2, InitialTypes DEF HandlerOK, BeginPc, CreatePc, UpdatePc, RecoverPc, ActionPc, RebuildPc
<1> QED BY <1>20, <1>21, <1>22, <1>23, <1>24, <1>25, <1>26, <1>27 DEF IInv

(* Every step of the system preserves the invariant.                       *)
LEMMA Inductive == ASSUME IInv, [Next]_vars PROVE IInv'
<1>1. CASE UNCHANGED vars
  <2>1. UNCHANGED <<rows, box, made, tasks, h, scan, up, gone>>
    BY <1>1 DEF vars
  <2>2. TypeOK' /\ TaskInv'
    BY <2>1 DEF IInv, TypeOK, TaskInv, TaskOK
  <2>3. There' = There /\ Live' = Live
    BY <2>1 DEF There, Live
  <2>4. BoxInv' /\ RowInv' /\ CidsDiffer' /\ PortsDiffer' /\ MarkInv'
    BY <2>1, <2>3 DEF IInv, BoxInv, BoxOK, RowInv, RowOK, Bound, CidsDiffer, PortsDiffer,
                      MarkInv, MarkOK
  <2>5. ScanOK'
    BY <2>1, <2>3 DEF IInv, ScanOK, UpdOK, InsOK, Bound
  <2>6. HandlerOK'
    <3>1. Undisturbed /\ TaskKept
      BY <2>1, <2>3 DEF Undisturbed, TaskKept
    <3>2. \A c \in There : box[c].man => Stays(c)
      BY <2>1, <2>3 DEF Stays, Alike
    <3> QED BY <2>1, <3>1, <3>2, HandlerKept
  <2> QED BY <2>2, <2>4, <2>5, <2>6 DEF IInv
<1>2. ASSUME NEW s \in Specs, create_deployment(s) PROVE IInv'
  BY <1>2, CreateDeploymentInv
<1>3. ASSUME NEW d \in Deps, NEW s \in Specs, update_deployment(d, s) PROVE IInv'
  BY <1>3, UpdateDeploymentInv
<1>4. ASSUME NEW d \in Deps, NEW a \in Action, deployment_action(d, a) PROVE IInv'
  BY <1>4, DeploymentActionInv
<1>5. ASSUME NEW t \in Tasks, NEW c \in {"cancel", "pause"}, Control(t, c) PROVE IInv'
  BY <1>5, ControlInv
<1>6. ASSUME NEW t \in Tasks, Resume(t) PROVE IInv'
  BY <1>6, ResumeInv
<1>7. CASE Claim \/ CreateBegin \/ CreateContainer \/ CreateWait \/ CreateCommit \/ CreateUndo
             \/ BenchmarkStart \/ BenchmarkEnd
  BY <1>7, ClaimInv, CreateBeginInv, CreateContainerInv, CreateWaitInv, CreateCommitInv,
     CreateUndoInv, BenchmarkStartInv, BenchmarkEndInv
<1>8. CASE UpdateBegin \/ UpdateGet \/ UpdateStop \/ UpdateRename \/ UpdateRun \/ UpdateWait
             \/ UpdateCommit \/ UpdateDrop \/ UpdateBack
  BY <1>8, UpdateBeginInv, UpdateGetInv, UpdateStopInv, UpdateRenameInv, UpdateRunInv,
     UpdateWaitInv, UpdateCommitInv, UpdateDropInv, UpdateBackInv
<1>9. CASE RecoverStart \/ RecoverWait \/ RecoverSync \/ RecoverClean \/ RecoverStop
  BY <1>9, RecoverStartInv, RecoverWaitInv, RecoverSyncInv, RecoverCleanInv, RecoverStopInv
<1>10. CASE ActionBegin \/ ActionGet \/ ActionDo \/ ActionWait \/ ActionFail \/ ActionEnd
              \/ ActionStale
  BY <1>10, ActionBeginInv, ActionGetInv, ActionDoInv, ActionWaitInv, ActionFailInv,
     ActionEndInv, ActionStaleInv
<1>11. CASE RebuildStop \/ RebuildRename \/ RebuildRun \/ RebuildWait \/ RebuildCommit
              \/ RebuildDrop \/ RebuildBack
  BY <1>11, RebuildStopInv, RebuildRenameInv, RebuildRunInv, RebuildWaitInv, RebuildCommitInv,
     RebuildDropInv, RebuildBackInv
<1>12. CASE ScanRead \/ ScanCommit \/ Crash \/ Restart
  BY <1>12, ScanReadInv, ScanCommitInv, CrashInv, RestartInv
<1>13. ASSUME NEW c \in Boxes, Exits(c) \/ Recreated(c) PROVE IInv'
  BY <1>13, ExitsInv, RecreatedInv
<1> QED BY <1>1, <1>2, <1>3, <1>4, <1>5, <1>6, <1>7, <1>8, <1>9, <1>10, <1>11, <1>12, <1>13
        DEF Next

(* The inductive invariant: the handler that is running, the rows, the     *)
(* containers with their labels, the tasks and a scan that has read and    *)
(* not yet written agree on which container is whose, whatever the order   *)
(* of their steps and wherever a crash cuts one off.                       *)
THEOREM Invariance == Spec => []IInv
<1>1. Init => IInv
  BY InitInv
<1>2. IInv /\ [Next]_vars => IInv'
  BY Inductive
<1> QED BY <1>1, <1>2, PTL DEF Spec

(* The container of a managed deployment with a saved specification goes   *)
(* only by an administrator's delete, whatever update_handler, a rebuild,  *)
(* a recovery or a rollback does and wherever it is cut off.               *)
THEOREM RowsKeepTheirContainers == Spec => []RowKeepsItsContainer
<1>1. IInv => RowKeepsItsContainer
  BY DEF IInv, RowInv, RowOK, RowKeepsItsContainer
<1> QED BY <1>1, Invariance, PTL

(* A managed row with a transient status, which scan_containers leaves     *)
(* alone, has an action that can still take the status off.                *)
THEOREM MarksHaveTheirTask == Spec => []TransientHasItsTask
<1>1. IInv => TransientHasItsTask
  BY DEF IInv, MarkInv, MarkOK, TransientHasItsTask
<1> QED BY <1>1, Invariance, PTL

(* Two deployments with a saved specification never have the same port,    *)
(* although preflight chooses it long before the handler commits it.       *)
THEOREM PortsStayDifferent == Spec => []PortsDiffer
<1>1. IInv => PortsDiffer
  BY DEF IInv
<1> QED BY <1>1, Invariance, PTL

(* A column or a whole row that is written leaves the row in the table.    *)
LEMMA WriteKeeps ==
    ASSUME IInv, NEW d \in Deps, NEW r \in Row, rows' = [rows EXCEPT ![d] = r]
    PROVE  Live \subseteq Live'
<1>1. rows \in [Deps -> Row \cup {NoRow, OldRow}]
  BY DEF IInv, TypeOK
<1>2. \A e \in Live : rows'[e] = IF e = d THEN r ELSE rows[e]
  BY <1>1 DEF Live
<1> QED BY <1>2, Absent DEF Live

(* A scan writes what Written says, or nothing.                            *)
LEMMA ScanWrites == ASSUME IInv, ScanCommit \/ Restart PROVE rows' = rows \/ Written(rows')
<1>1. CASE ScanCommit
  BY <1>1, ScanCommitWrites
<1>2. CASE Restart
  <2>1. PICK health \in {"healthy", "unhealthy"} :
           LET r == ScanOf(health) IN
           IF Clash(r) THEN rows' = rows
           ELSE Places(r) # {} /\ rows' = reconcile_managed_chat_templates(Inserted(r))
    BY <1>2 DEF Restart
  <2>2. PICK r : r = ScanOf(health)
    OBVIOUS
  <2> QED BY <2>1, <2>2, RestartWrites
<1> QED BY <1>1, <1>2

(* Only the end of an action takes a row out of the table.                 *)
LEMMA OnlyActionsDelete ==
    ASSUME IInv, Next
    PROVE  Live \subseteq Live' \/ ActionEnd \/ ActionStale
<1>1. rows' = rows => Live \subseteq Live'
  BY DEF Live
<1>2. CASE CreateCommit
  <2>1. h.pc = "c_save" /\ CreateInv
    BY <1>2 DEF CreateCommit, Only, At, IInv, HandlerOK, CreatePc
  <2>2. h.sp \in Saved /\ h.new \in Boxes
    BY <2>1, Types DEF CreateInv, Waiting, IInv
  <2>3. PICK d, r : d = Fresh /\ r = NewRow(h.sp, h.new)
    OBVIOUS
  <2>4. r \in Row
    BY <2>2, <2>3, NewRowType
  <2>5. \/ rows' = rows
        \/ (\E x \in Deps : rows[x] = NoRow) /\ rows' = [rows EXCEPT ![d] = r]
    BY <1>2, <2>3 DEF CreateCommit, Only
  <2>6. (\E x \in Deps : rows[x] = NoRow) => d \in Deps
    BY <2>3 DEF Fresh
  <2> QED BY <1>1, <2>4, <2>5, <2>6, WriteKeeps
<1>3. CASE BenchmarkStart \/ BenchmarkEnd
  <2>1. \/ rows' = rows
        \/ h.d \in Live /\ \E b \in {"running", "succeeded", "failed"} :
                               rows' = [rows EXCEPT ![h.d].bench = b]
    BY <1>3 DEF BenchmarkStart, BenchmarkEnd, Only
  <2>2. ASSUME NEW d \in Live, NEW b \in {"running", "succeeded", "failed"},
               rows' = [rows EXCEPT ![d].bench = b]
        PROVE  Live' = Live
    BY <2>2, BenchColumn
  <2> QED BY <1>1, <2>1, <2>2
<1>4. CASE UpdateCommit
  <2>1. h.pc = "u_save" /\ UpdateInv
    BY <1>4 DEF UpdateCommit, Only, At, IInv, HandlerOK, UpdatePc
  <2>2. h.sp \in Saved /\ h.new \in Boxes /\ h.d \in Deps /\ rows[h.d] \in Row
    BY <2>1, Types DEF UpdateInv, Waiting, IInv
  <2>3. PICK d, r : d = h.d /\ r = [NewRow(h.sp, h.new) EXCEPT !.bench = rows[h.d].bench]
    OBVIOUS
  <2>4. r \in Row
    <3>1. NewRow(h.sp, h.new) \in Row
      BY <2>2, NewRowType
    <3>2. rows[h.d].bench \in {"none", "pending", "running", "succeeded", "failed"}
      BY <2>2 DEF Row
    <3> QED BY <2>3, <3>1, <3>2 DEF Row
  <2>5. rows' = rows \/ rows' = [rows EXCEPT ![d] = r]
    BY <1>4, <2>3 DEF UpdateCommit, Only
  <2> QED BY <1>1, <2>2, <2>3, <2>4, <2>5, WriteKeeps
<1>5. CASE RecoverSync
  <2>1. h.pc = "v_sync" /\ RecoverInv
    BY <1>5 DEF RecoverSync, Only, At, IInv, HandlerOK, RecoverPc
  <2>2. h.d \in Deps /\ rows[h.d] \in Row /\ box[h.cid].name \in ContainerName
    BY <2>1, Types DEF RecoverInv, IInv, Box
  <2>3. PICK d, r : d = h.d /\ r = [rows[h.d] EXCEPT !.status = "running", !.health = "healthy",
                                                     !.cname = box[h.cid].name]
    OBVIOUS
  <2>4. r \in Row
    BY <2>2, <2>3 DEF Row
  <2>5. rows' = rows \/ rows' = [rows EXCEPT ![d] = r]
    BY <1>5, <2>3 DEF RecoverSync, Only
  <2> QED BY <1>1, <2>2, <2>3, <2>4, <2>5, WriteKeeps
<1>6. CASE ActionBegin
  <2>1. h.pc = "action" /\ h.pc \in BeginPc
    BY <1>6 DEF ActionBegin, Only, At, BeginPc
  <2>2. PICK d, a : d = tasks[h.t].d /\ a = tasks[h.t].act
    OBVIOUS
  <2>3. a \in Action
    BY <2>1, <2>2, AtBegin
  <2>4. \/ rows' = rows
        \/ d \in Live /\ rows' = [rows EXCEPT ![d].status = TransientOf[a], ![d].health = "unknown"]
    BY <1>6, <2>2 DEF ActionBegin, Only
  <2>5. PICK st \in Transient : st = TransientOf[a]
    BY <2>3, TransientOfType
  <2>6. ASSUME d \in Live, rows' = [rows EXCEPT ![d].status = st, ![d].health = "unknown"]
        PROVE  Live' = Live
    BY <2>6, StatusColumns
  <2> QED BY <1>1, <2>4, <2>5, <2>6
<1>7. CASE ActionFail
  <2>1. h.pc \in ActionPc \cup RebuildPc
    BY <1>7 DEF ActionFail, Only, At, ActionPc
  <2>2. PICK b, c : rows' = recover_action_failure(b, c)
    BY <1>7 DEF ActionFail, Only
  <2> QED BY <2>1, <2>2, RecoverRows
<1>8. CASE RebuildCommit
  <2>1. h.pc = "b_save" /\ ActionInv /\ RebuildInv
    BY <1>8 DEF RebuildCommit, Only, At, IInv, HandlerOK, RebuildPc
  <2>2. h.d \in Deps /\ rows[h.d] \in Row /\ h.new \in Boxes
    BY <2>1, Types DEF ActionInv, RebuildInv, Waiting, IInv
  <2>3. PICK d, r : d = h.d /\ r = [rows[h.d] EXCEPT !.cid = h.new, !.status = "running",
                                                     !.health = "healthy", !.man = TRUE]
    OBVIOUS
  <2>4. r \in Row
    BY <2>2, <2>3 DEF Row
  <2>5. rows' = rows \/ rows' = [rows EXCEPT ![d] = r]
    BY <1>8, <2>3 DEF RebuildCommit, Only
  <2> QED BY <1>1, <2>2, <2>3, <2>4, <2>5, WriteKeeps
<1>9. CASE ScanCommit \/ Restart
  <2>1. rows' = rows \/ Written(rows')
    BY <1>9, ScanWrites
  <2> QED BY <1>1, <2>1, WrittenLive
<1>10. CASE \/ \E s \in Specs : create_deployment(s)
            \/ \E d \in Deps, s \in Specs : update_deployment(d, s)
            \/ \E d \in Deps, a \in Action : deployment_action(d, a)
            \/ \E t \in Tasks, c \in {"cancel", "pause"} : Control(t, c)
            \/ \E t \in Tasks : Resume(t)
            \/ Claim \/ ScanRead \/ Crash
            \/ \E c \in Boxes : Exits(c) \/ Recreated(c)
  <2>1. rows' = rows
    BY <1>10 DEF create_deployment, update_deployment, deployment_action, Queue, Control,
                 Resume, Claim, world, ScanRead, Crash, Exits, Recreated
  <2> QED BY <1>1, <2>1
<1>11. CASE CreateBegin \/ CreateContainer \/ CreateWait \/ CreateUndo
              \/ UpdateBegin \/ UpdateGet \/ UpdateStop \/ UpdateRename \/ UpdateRun
              \/ UpdateWait \/ UpdateDrop \/ UpdateBack
  <2>1. rows' = rows
    BY <1>11 DEF CreateBegin, CreateContainer, CreateWait, CreateUndo, UpdateBegin, UpdateGet,
                 UpdateStop, UpdateRename, UpdateRun, UpdateWait, UpdateDrop, UpdateBack,
                 Only, Fail, Wait, world
  <2> QED BY <1>1, <2>1
<1>12. CASE RecoverStart \/ RecoverWait \/ RecoverClean \/ RecoverStop
              \/ ActionGet \/ ActionDo \/ ActionWait
              \/ RebuildStop \/ RebuildRename \/ RebuildRun \/ RebuildWait \/ RebuildDrop
              \/ RebuildBack
  <2>1. rows' = rows
    BY <1>12 DEF RecoverStart, RecoverWait, RecoverClean, RecoverStop, ActionGet, ActionDo,
                 ActionWait, RebuildStop, RebuildRename, RebuildRun, RebuildWait, RebuildDrop,
                 RebuildBack, Only, Wait, world
  <2> QED BY <1>1, <2>1
<1> QED BY <1>2, <1>3, <1>4, <1>5, <1>6, <1>7, <1>8, <1>9, <1>10, <1>11, <1>12 DEF Next

(* A row is deleted only by a delete of the container it is bound to at    *)
(* that moment: _finalize_action and _delete_stale_deployment compare the  *)
(* row with the task's snapshot in the transaction that deletes it.        *)
THEOREM DeletesHitTheirSnapshot == Spec => DeleteHitsItsSnapshot
<1>1. ASSUME IInv, [Next]_vars, NEW d \in Deps, d \in Live, rows'[d] = OldRow
      PROVE  tasks[h.t].act = "delete" /\ rows[d].cid = tasks[h.t].cid
  <2>1. d \notin Live'
    BY <1>1 DEF Live
  <2>2. ~ UNCHANGED vars
    BY <1>1, <2>1 DEF vars, Live
  <2>3. ActionEnd \/ ActionStale
    BY <1>1, <2>1, <2>2, OnlyActionsDelete
  <2>4. h.pc \in {"a_end", "a_stale"} /\ h.pc \in ActionPc
    BY <2>3 DEF ActionEnd, ActionStale, Only, At, ActionPc
  <2>5. PICK e \in Live : e = h.d
    BY <1>1, <2>4, ActionFacts
  <2>6. CASE ~ Marked
    <3>1. rows' = rows
      BY <2>3, <2>6 DEF ActionEnd, ActionStale, Only
    <3> QED BY <2>1, <3>1, <1>1 DEF Live
  <2>7. CASE Marked /\ Act # "delete"
    <3>1. h.pc # "a_stale"
      BY <1>1, <2>4, <2>7, ActionFacts DEF ActionInv
    <3>2. PICK st \in {"exited", "running"}, hl \in {"unknown", "healthy"} :
             rows' = [rows EXCEPT ![e].status = st, ![e].health = hl]
      BY <2>3, <2>5, <2>7, <3>1 DEF ActionEnd, ActionStale, Only, At
    <3>3. st \in Transient \cup {"running", "exited", "unknown"}
      OBVIOUS
    <3>4. Live' = Live
      BY <1>1, <3>2, <3>3, StatusColumns
    <3> QED BY <1>1, <2>1, <3>4
  <2>8. CASE Marked /\ Act = "delete"
    <3>1. rows' = [rows EXCEPT ![e] = OldRow]
      BY <2>3, <2>5, <2>8 DEF ActionEnd, ActionStale, Only
    <3>2. d = e
      <4>1. d # e => rows'[d] = rows[d]
        BY <1>1, <3>1 DEF IInv, TypeOK
      <4> QED BY <1>1, <4>1 DEF Live
    <3> QED BY <2>5, <2>8, <3>2 DEF Marked, deployment_identity_filters, Act
  <2> QED BY <2>6, <2>7, <2>8
<1>2. IInv /\ [Next]_vars =>
        [\A d \in Deps : d \in Live /\ rows'[d] = OldRow =>
           tasks[h.t].act = "delete" /\ rows[d].cid = tasks[h.t].cid]_vars
  BY <1>1
<1> QED BY <1>2, Invariance, PTL DEF Spec, DeleteHitsItsSnapshot
=============================================================================
