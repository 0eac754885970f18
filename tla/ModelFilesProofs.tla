-------------------------- MODULE ModelFilesProofs --------------------------
(***************************************************************************)
(* The four properties of ModelFiles, for every set of files and of        *)
(* deletions and every bound.                                              *)
(***************************************************************************)
EXTENDS ModelFiles, FiniteSetTheorems, TLAPS

(* Task 0 is the download, the others are deletions.                       *)
LEMMA DelsFacts == 0 \notin Dels /\ Dels \subseteq Nat
<1>1. Cardinality(Dels) \in Nat
  BY ModelFilesAssumption, FS_CardinalityType
<1>2. PICK n \in Nat : Dels = 1..n
  BY <1>1, ModelFilesAssumption
<1> QED BY <1>2

(* The absent directory and the absent record are no values of their types *)
LEMMA AbsentFacts ==
    NoDir \notin [Files -> {"none", "part", "full"}] /\ NoRow \notin Row
  BY ModelFilesAssumption

(* The idle handlers and the empty directory have their types.             *)
LEMMA InitialTypes ==
    /\ Empty \in [Files -> {"none", "full"}]
    /\ NoDl \in Download /\ NoDl.pc = "idle"
    /\ NoX \in Deletion /\ NoX.pc = "idle"
    /\ NoScan \in [on : BOOLEAN, was : Row \cup {NoRow}, now : Row \cup {NoRow}]
    /\ NoScan.on = FALSE
<1>1. Empty \in [Files -> {"none", "full"}]
  BY DEF Empty
<1>2. NoDl \in Download /\ NoDl.pc = "idle"
  BY DEF NoDl, Download, Empty, ThreadStates
<1>3. NoX \in Deletion /\ NoX.pc = "idle"
  BY DEF NoX, Deletion
<1>4. /\ NoScan \in [on : BOOLEAN, was : Row \cup {NoRow}, now : Row \cup {NoRow}]
      /\ NoScan.on = FALSE
  BY DEF NoScan
<1> QED BY <1>1, <1>2, <1>3, <1>4

(* A task that ends, or is queued again, keeps its id.                     *)
LEMMA EndedFacts ==
    ASSUME TypeOK, NEW t \in Dels \cup {0}, NEW st \in TaskStatus
    PROVE  /\ Ended(t, st) \in [Dels \cup {0} -> Task]
           /\ \A u \in Dels \cup {0} : u # t => Ended(t, st)[u] = task[u]
           /\ \A u \in Dels \cup {0} : Ended(t, st)[u].id = task[u].id
           /\ Ended(t, st)[t].st = st
<1>1. task \in [Dels \cup {0} -> Task] /\ task[t] \in Task
  BY DEF TypeOK
<1> DEFINE new == [task[t] EXCEPT !.st = st, !.ctl = "none"]
<1>2. new \in Task /\ new.st = st /\ new.id = task[t].id
  BY <1>1 DEF Task
<1>3. Ended(t, st) = [task EXCEPT ![t] = new]
  BY <1>1 DEF Ended
<1> HIDE DEF new
<1> QED BY <1>1, <1>2, <1>3
-----------------------------------------------------------------------------
(* What resolve_hf_snapshot finds is a snapshot directory, or nothing.     *)
LEMMA Resolved ==
    ASSUME TypeOK, NEW d \in resolve_hf_snapshot
    PROVE  /\ d \in {"none", "snap", "tmp"} /\ In(d) \in [Files -> {"none", "part", "full"}]
           /\ d = "none" => In(d) = Empty
<1>1. Empty \in [Files -> {"none", "part", "full"}]
  BY DEF Empty
<1>2. /\ snap # NoDir => snap \in [Files -> {"none", "part", "full"}]
      /\ tmp # NoDir => tmp \in [Files -> {"none", "part", "full"}]
  BY DEF TypeOK, Snapshot, Temporary
<1> QED BY <1>1, <1>2 DEF resolve_hf_snapshot, Dirs, In

(***************************************************************************)
(* A step of the download handler, from what it leaves of the disk and of  *)
(* its own state.                                                          *)
(***************************************************************************)
LEMMA DownloadStep ==
    ASSUME IInv, dl.pc # "idle", UNCHANGED <<src, db, x, scan, up>>,
           dir' \in BOOLEAN, main' \in BOOLEAN, snap' \in Snapshot, tmp' \in Temporary,
           stage' \in Staging, proc' \subseteq Files,
           dl' \in Download, NoStrayDownloader', Verified', \A f \in Files : Fetched(f)',
           \/ task' = task
           \/ dl'.pc = "idle" /\ \E st \in TaskStatus : task' = Ended(0, st)
    PROVE  IInv'
<1>1. /\ task' \in [Dels \cup {0} -> Task]
      /\ \A t \in Dels : task'[t] = task[t]
      /\ \A t \in Dels \cup {0} : task'[t].id = task[t].id
      /\ dl'.pc # "idle" => task' = task
  <2>1. task \in [Dels \cup {0} -> Task]
    BY DEF IInv, TypeOK
  <2>2. CASE task' = task
    BY <2>1, <2>2
  <2>3. ASSUME NEW st \in TaskStatus, task' = Ended(0, st), dl'.pc = "idle"
        PROVE  /\ task' \in [Dels \cup {0} -> Task]
               /\ \A t \in Dels : task'[t] = task[t]
               /\ \A t \in Dels \cup {0} : task'[t].id = task[t].id
    <3>1. TypeOK
      BY DEF IInv
    <3>2. \A t \in Dels : t # 0
      BY DelsFacts
    <3>3. 0 \in Dels \cup {0}
      OBVIOUS
    <3>4. /\ Ended(0, st) \in [Dels \cup {0} -> Task]
          /\ \A u \in Dels \cup {0} : u # 0 => Ended(0, st)[u] = task[u]
          /\ \A u \in Dels \cup {0} : Ended(0, st)[u].id = task[u].id
      BY <3>1, <3>3, EndedFacts
    <3> QED BY <2>3, <3>2, <3>4
  <2> QED BY <2>1, <2>2, <2>3
<1>2. TypeOK'
  BY <1>1 DEF IInv, TypeOK, db
<1>3. DownloadInv'
  BY <1>1 DEF IInv, DownloadInv
<1>4. DeletionInv'
  BY <1>1 DEF IInv, DeletionInv, UnusedAtTheCheck, Mine, db
<1>5. RecordInv'
  BY <1>1 DEF IInv, RecordInv, DeletingHasItsTask, db
<1> QED BY <1>2, <1>3, <1>4, <1>5 DEF IInv

(* The handler returns or raises: no process may be left.                  *)
LEMMA EndsStep ==
    ASSUME IInv, dl.pc # "idle", UNCHANGED <<src, db, x, scan, up>>, proc = {}, proc' = proc,
           dir' \in BOOLEAN, main' \in BOOLEAN, snap' \in Snapshot, tmp' \in Temporary,
           stage' \in Staging,
           \E st \in TaskStatus : DlEnd(st)
    PROVE  IInv'
<1>1. dl' \in Download /\ dl'.pc = "idle" /\ \E st \in TaskStatus : task' = Ended(0, st)
  BY InitialTypes DEF DlEnd
<1>2. NoStrayDownloader' /\ \A f \in Files : Fetched(f)'
  BY <1>1 DEF NoStrayDownloader, Fetched
<1>3. Verified'
  BY <1>1 DEF Verified
<1> QED BY <1>1, <1>2, <1>3, DownloadStep

(* DownloadBegin                                                           *)
LEMMA DownloadBeginStep ==
    ASSUME IInv, DownloadBegin
    PROVE  IInv'
<1>1. /\ dl.pc = "d_begin" /\ dl \in Download /\ TypeOK
      /\ UNCHANGED <<src, db, x, scan, up>> /\ UNCHANGED disk
  BY DEF DownloadBegin, Dl, At, IInv, TypeOK
<1>2. proc = {}
  BY <1>1 DEF IInv, DownloadInv, NoStrayDownloader, TypeOK
<1>3. CASE DlEnd("failed")
  BY <1>1, <1>2, <1>3, EndsStep DEF disk, TypeOK, TaskStatus
<1>4. CASE /\ UNCHANGED task
           /\ \E d \in resolve_hf_snapshot :
               LET ex == [f \in Files |-> IF In(d)[f] \in AtSize THEN d ELSE "none"] IN
               dl' = [dl EXCEPT !.pc = "d_fetch", !.ex = ex, !.left = Files,
                  !.th = [f \in Files |-> IF ex[f] = "none" THEN "new" ELSE "done"]]
  <2>1. PICK d \in resolve_hf_snapshot :
               LET ex == [f \in Files |-> IF In(d)[f] \in AtSize THEN d ELSE "none"] IN
               dl' = [dl EXCEPT !.pc = "d_fetch", !.ex = ex, !.left = Files,
                  !.th = [f \in Files |-> IF ex[f] = "none" THEN "new" ELSE "done"]]
    BY <1>4
  <2> DEFINE ex == [f \in Files |-> IF In(d)[f] \in AtSize THEN d ELSE "none"]
             th == [f \in Files |-> IF ex[f] = "none" THEN "new" ELSE "done"]
  <2>2. /\ ex \in [Files -> {"none", "snap", "tmp"}] /\ th \in [Files -> ThreadStates]
        /\ \A f \in Files : th[f] \in {"new", "done"} /\ (th[f] = "done" => ex[f] # "none")
    BY <1>1, Resolved DEF ThreadStates
  <2>3. dl' = [dl EXCEPT !.pc = "d_fetch", !.ex = ex, !.left = Files, !.th = th]
    BY <2>1
  <2> HIDE DEF ex, th
  <2>4. dl' \in Download /\ dl'.pc = "d_fetch" /\ dl'.ex = ex /\ dl'.th = th
    BY <1>1, <2>2, <2>3 DEF Download
  <2>5. \A f \in Files : Fetched(f)'
    BY <2>2, <2>4 DEF Fetched
  <2>6. NoStrayDownloader'
    BY <1>1, <1>2 DEF NoStrayDownloader, disk
  <2>7. Verified'
    BY <2>4 DEF Verified
  <2> QED BY <1>1, <1>4, <2>4, <2>5, <2>6, <2>7, DownloadStep DEF disk, TypeOK
<1> QED BY <1>3, <1>4 DEF DownloadBegin, Dl
-----------------------------------------------------------------------------
(* A file's thread changes its own state only.                             *)
LEMMA ThreadFacts ==
    ASSUME dl \in Download, NEW f \in Files, NEW s \in ThreadStates, Thread(f, s)
    PROVE  /\ dl' \in Download /\ dl'.pc = dl.pc /\ dl'.ex = dl.ex /\ dl'.rc = dl.rc
           /\ dl'.stop = dl.stop /\ dl'.th[f] = s
           /\ \A g \in Files : g # f => dl'.th[g] = dl.th[g]
<1> DEFINE th == [dl.th EXCEPT ![f] = s]
<1>1. dl' = [dl EXCEPT !.th = th]
  BY DEF Thread, Download
<1>2. th \in [Files -> ThreadStates] /\ th[f] = s /\ \A g \in Files : g # f => th[g] = dl.th[g]
  BY DEF Download
<1> HIDE DEF th
<1> QED BY <1>1, <1>2 DEF Download

(* Launch starts the process its thread then watches.                      *)
LEMMA LaunchFacts ==
    ASSUME dl \in Download, NEW f \in Files, Launch(f)
    PROVE  /\ dl' \in Download /\ dl'.pc = dl.pc /\ dl'.ex = dl.ex /\ dl'.rc = dl.rc
           /\ dl'.stop = dl.stop /\ dl'.th[f] = "run" /\ proc' = proc \cup {f}
           /\ \A g \in Files : g # f => dl'.th[g] = dl.th[g]
<1> DEFINE th == [dl.th EXCEPT ![f] = "run"]
           att == [dl.att EXCEPT ![f] = dl.att[f] + 1]
<1>1. dl' = [dl EXCEPT !.th = th, !.att = att] /\ proc' = proc \cup {f}
  BY DEF Launch, Download
<1>2. /\ th \in [Files -> ThreadStates] /\ th[f] = "run"
      /\ \A g \in Files : g # f => th[g] = dl.th[g]
  BY DEF Download, ThreadStates
<1>3. att \in [Files -> Nat]
  <2>1. dl.att \in [Files -> Nat]
    BY DEF Download
  <2>2. PICK n \in Nat : n = dl.att[f] + 1
    BY <2>1
  <2> QED BY <2>1, <2>2
<1> HIDE DEF th, att
<1> QED BY <1>1, <1>2, <1>3 DEF Download

(* A step of one file's thread.                                            *)
LEMMA ThreadStep ==
    ASSUME IInv, dl.pc = "d_fetch", NEW f \in Files, UNCHANGED <<src, db, x, scan, up>>,
           UNCHANGED <<cache, task>>, stage' \in Staging,
           \A g \in Files : g # f => stage'[g] = stage[g],
           dl' \in Download, dl'.pc = dl.pc, dl'.ex = dl.ex, dl'.rc = dl.rc,
           dl'.stop = dl.stop, \A g \in Files : g # f => dl'.th[g] = dl.th[g],
           \A g \in proc' : g # f => g \in proc, \A g \in proc : g # f => g \in proc',
           f \in proc' => dl'.th[f] = "run", Fetched(f)'
    PROVE  IInv'
<1>1. proc' \subseteq Files
  BY DEF IInv, TypeOK
<1>2. NoStrayDownloader'
  BY <1>1 DEF IInv, DownloadInv, NoStrayDownloader
<1>3. \A g \in Files : Fetched(g)'
  <2> TAKE g \in Files
  <2>1. CASE g # f
    BY <2>1 DEF IInv, DownloadInv, Fetched
  <2> QED BY <2>1
<1>4. Verified'
  BY DEF Verified
<1> QED BY <1>1, <1>2, <1>3, <1>4, DownloadStep DEF IInv, TypeOK, cache

(* Raises ends the thread and its process.                                 *)
LEMMA RaisesStep ==
    ASSUME IInv, dl.pc = "d_fetch", NEW f \in Files, UNCHANGED <<src, db, x, scan, up>>,
           UNCHANGED <<stage, cache, task>>, Raises(f)
    PROVE  IInv'
<1>1. PICK s \in {"cancelled", "paused"} : Thread(f, s)
  BY DEF Raises
<1>2. dl \in Download /\ s \in ThreadStates /\ proc' = proc \ {f}
  BY DEF IInv, TypeOK, ThreadStates, Raises
<1>3. /\ dl' \in Download /\ dl'.pc = dl.pc /\ dl'.ex = dl.ex /\ dl'.rc = dl.rc
      /\ dl'.stop = dl.stop /\ dl'.th[f] = s
      /\ \A g \in Files : g # f => dl'.th[g] = dl.th[g]
  BY <1>1, <1>2, ThreadFacts
<1>4. Fetched(f)'
  BY <1>1, <1>3 DEF Fetched
<1>5. stage' = stage /\ stage \in Staging
  BY DEF IInv, TypeOK
<1> QED BY <1>2, <1>3, <1>4, <1>5, ThreadStep

(* A thread that ends without its process: stopped, failed, or done.       *)
LEMMA EndsThreadStep ==
    ASSUME IInv, dl.pc = "d_fetch", NEW f \in Files, UNCHANGED <<src, db, x, scan, up>>,
           UNCHANGED <<stage, cache, task>>, NEW s \in {"done", "failed"}, Thread(f, s),
           f \notin proc', \A g \in proc' : g \in proc, \A g \in proc : g # f => g \in proc',
           s = "done" => dl.stop \/ stage[f] = "full"
    PROVE  IInv'
<1>1. dl \in Download /\ s \in ThreadStates
  BY DEF IInv, TypeOK, ThreadStates
<1>2. /\ dl' \in Download /\ dl'.pc = dl.pc /\ dl'.ex = dl.ex /\ dl'.rc = dl.rc
      /\ dl'.stop = dl.stop /\ dl'.th[f] = s
      /\ \A g \in Files : g # f => dl'.th[g] = dl.th[g]
  BY <1>1, ThreadFacts
<1>3. Fetched(f)'
  BY <1>2 DEF Fetched
<1>4. stage' = stage /\ stage \in Staging
  BY DEF IInv, TypeOK
<1> QED BY <1>2, <1>3, <1>4, ThreadStep

(* A thread that starts a process.                                         *)
LEMMA LaunchStep ==
    ASSUME IInv, dl.pc = "d_fetch", NEW f \in Files, UNCHANGED <<src, db, x, scan, up>>,
           UNCHANGED <<cache, task>>, Launch(f), stage' \in Staging,
           \A g \in Files : g # f => stage'[g] = stage[g]
    PROVE  IInv'
<1>1. /\ dl' \in Download /\ dl'.pc = dl.pc /\ dl'.ex = dl.ex /\ dl'.rc = dl.rc
      /\ dl'.stop = dl.stop /\ dl'.th[f] = "run" /\ proc' = proc \cup {f}
      /\ \A g \in Files : g # f => dl'.th[g] = dl.th[g]
  BY LaunchFacts DEF IInv, TypeOK
<1>2. Fetched(f)'
  BY <1>1 DEF Fetched
<1> QED BY <1>1, <1>2, ThreadStep

(* Again                                                                   *)
LEMMA AgainStep ==
    ASSUME IInv, dl.pc = "d_fetch", NEW f \in Files, UNCHANGED <<src, db, x, scan, up>>,
           UNCHANGED <<stage, cache, task>>, Again(f)
    PROVE  IInv'
<1>1. CASE Launch(f)
  <2>1. stage' = stage /\ stage \in Staging
    BY DEF IInv, TypeOK
  <2> QED BY <1>1, <2>1, LaunchStep
<1>2. CASE Thread(f, "failed") /\ proc' = proc \ {f}
  BY <1>2, EndsThreadStep
<1> QED BY <1>1, <1>2 DEF Again

(* FileStart                                                               *)
LEMMA FileStartStep ==
    ASSUME IInv, NEW f \in Files, FileStart(f)
    PROVE  IInv'
<1>1. /\ dl.pc = "d_fetch" /\ UNCHANGED <<src, db, x, scan, up>>
      /\ UNCHANGED <<cache, task>> /\ stage \in Staging
  BY DEF FileStart, Dl, At, IInv, TypeOK
<1>2. f \notin proc
  BY DEF FileStart, Dl, IInv, DownloadInv, NoStrayDownloader
<1>3. \/ Thread(f, "done") /\ proc' = proc /\ stage' = stage /\ (dl.stop \/ stage[f] = "full")
      \/ Raises(f) /\ stage' = stage
      \/ Launch(f) /\ stage' = [stage EXCEPT ![f] = IF stage[f] = "over" THEN "none" ELSE stage[f]]
  BY DEF FileStart, Dl, already_fetched
<1>4. CASE Thread(f, "done") /\ proc' = proc /\ stage' = stage /\ (dl.stop \/ stage[f] = "full")
  BY <1>1, <1>2, <1>4, EndsThreadStep
<1>5. CASE Raises(f) /\ stage' = stage
  BY <1>1, <1>5, RaisesStep
<1>6. CASE Launch(f) /\ stage' = [stage EXCEPT ![f] = IF stage[f] = "over" THEN "none" ELSE stage[f]]
  <2>1. stage' \in Staging /\ \A g \in Files : g # f => stage'[g] = stage[g]
    BY <1>1, <1>6 DEF Staging
  <2> QED BY <1>1, <1>6, <2>1, LaunchStep
<1> QED BY <1>3, <1>4, <1>5, <1>6

(* FilePoll: every way out of the loop has ended the process.              *)
LEMMA FilePollStep ==
    ASSUME IInv, NEW f \in Files, FilePoll(f)
    PROVE  IInv'
<1>1. /\ dl.pc = "d_fetch" /\ UNCHANGED <<src, db, x, scan, up>> /\ dl.th[f] = "run"
      /\ UNCHANGED <<stage, cache, task>>
  BY DEF FilePoll, Dl, At
<1>2. \/ Raises(f)
      \/ Again(f)
      \/ Thread(f, "done") /\ proc' = proc \ {f} /\ dl.stop
      \/ /\ f \notin proc /\ dl.rc[f] = "ok" /\ Thread(f, "done") /\ proc' = proc
         /\ stage[f] \in AtSize
      \/ f \notin proc /\ Thread(f, "done") /\ proc' = proc /\ dl.stop
      \/ f \notin proc /\ Thread(f, "failed") /\ proc' = proc
  BY DEF FilePoll, Dl
<1>3. CASE Raises(f) \/ Again(f)
  BY <1>1, <1>3, RaisesStep, AgainStep
<1>4. CASE Thread(f, "done") /\ proc' = proc \ {f} /\ dl.stop
  BY <1>1, <1>4, EndsThreadStep
<1>5. CASE /\ f \notin proc /\ dl.rc[f] = "ok" /\ Thread(f, "done") /\ proc' = proc
           /\ stage[f] \in AtSize
  <2>1. stage[f] = "full"
    BY <1>1, <1>5 DEF IInv, DownloadInv, Fetched, AtSize
  <2> QED BY <1>1, <1>5, <2>1, EndsThreadStep
<1>6. CASE f \notin proc /\ Thread(f, "done") /\ proc' = proc /\ dl.stop
  BY <1>1, <1>6, EndsThreadStep
<1>7. CASE f \notin proc /\ Thread(f, "failed") /\ proc' = proc
  BY <1>1, <1>7, EndsThreadStep
<1> QED BY <1>2, <1>3, <1>4, <1>5, <1>6, <1>7

(* Aria2: the file a process says is fetched is whole.                     *)
LEMMA Aria2Step ==
    ASSUME IInv, NEW f \in Files, Aria2(f)
    PROVE  IInv'
<1>1. /\ f \in proc /\ UNCHANGED <<src, db, x, scan, up>> /\ UNCHANGED <<cache, task>>
      /\ dl \in Download /\ stage \in Staging
      /\ proc \subseteq Files
  BY DEF Aria2, Dl, IInv, TypeOK
<1>2. dl.pc = "d_fetch" /\ dl.th[f] = "run"
  BY <1>1 DEF IInv, DownloadInv, NoStrayDownloader
<1>3. PICK rc \in {"none", "ok", "retry", "fatal"} : dl' = dl \/ dl' = [dl EXCEPT !.rc[f] = rc]
  BY DEF Aria2, Dl
<1>4. /\ dl' \in Download /\ dl'.pc = dl.pc /\ dl'.ex = dl.ex /\ dl'.th = dl.th
      /\ dl'.stop = dl.stop /\ \A g \in Files : g # f => dl'.rc[g] = dl.rc[g]
  <2> DEFINE new == [dl.rc EXCEPT ![f] = rc]
  <2>1. dl' = dl \/ dl' = [dl EXCEPT !.rc = new]
    BY <1>1, <1>3 DEF Download
  <2>2. new \in [Files -> {"none", "ok", "retry", "fatal"}]
        /\ \A g \in Files : g # f => new[g] = dl.rc[g]
    BY <1>1 DEF Download
  <2> HIDE DEF new
  <2> QED BY <1>1, <2>1, <2>2 DEF Download
<1>5. /\ stage' \in Staging
      /\ \A g \in Files : g # f => stage'[g] = stage[g]
      /\ proc' = proc \/ proc' = proc \ {f}
      /\ f \notin proc' => stage'[f] # "sparse" \/ dl'.rc[f] # "ok"
  <2>1. CASE /\ stage' = [stage EXCEPT ![f] = CASE @ = "none" -> "part" [] @ = "part" -> "sparse"
                                             [] OTHER -> "full"]
             /\ proc' = IF stage'[f] = "full" THEN proc \ {f} ELSE proc
    BY <1>1, <2>1 DEF Staging
  <2>3. CASE /\ proc' = proc \ {f}
             /\ \E c \in {"part", "over"} : stage' = [stage EXCEPT ![f] = c]
    BY <1>1, <2>3 DEF Staging
  <2>2. CASE /\ proc' = proc \ {f} /\ UNCHANGED stage
             /\ \E c \in {"retry", "fatal"} : dl' = [dl EXCEPT !.rc[f] = c]
    <3>1. PICK c \in {"retry", "fatal"} : dl' = [dl EXCEPT !.rc[f] = c]
      BY <2>2
    <3>2. dl'.rc[f] = c
      BY <1>1, <3>1 DEF Download
    <3> QED BY <1>1, <2>2, <3>1, <3>2
  <2> QED BY <2>1, <2>2, <2>3 DEF Aria2, Dl
<1>6. \A g \in Files : Fetched(g)'
  <2> TAKE g \in Files
  <2>1. CASE g = f
    BY <1>2, <1>4, <1>5, <2>1 DEF Fetched
  <2>2. CASE g # f
    <3>1. Fetched(g)
      BY DEF IInv, DownloadInv
    <3> QED BY <1>2, <1>4, <1>5, <2>2, <3>1 DEF Fetched
  <2> QED BY <2>1, <2>2
<1>7. NoStrayDownloader' /\ proc' \subseteq Files
  BY <1>1, <1>2, <1>4, <1>5 DEF IInv, DownloadInv, NoStrayDownloader
<1>8. Verified'
  BY <1>2, <1>4 DEF Verified
<1> QED BY <1>1, <1>2, <1>4, <1>5, <1>6, <1>7, <1>8, DownloadStep DEF IInv, TypeOK, cache
-----------------------------------------------------------------------------
(* Observe                                                                 *)
LEMMA ObserveStep ==
    ASSUME IInv, Observe
    PROVE  IInv'
<1>1. /\ dl.pc = "d_fetch" /\ UNCHANGED <<src, db, x, scan, up>>
      /\ UNCHANGED <<disk, task>> /\ dl \in Download
  BY DEF Observe, Dl, At, IInv, TypeOK
<1>2. PICK f \in Files : /\ dl.th[f] \in Errors
                         /\ dl' = [dl EXCEPT !.stop = TRUE, !.res = dl.th[f]]
  BY DEF Observe, Dl
<1>3. PICK res \in {"paused", "cancelled", "failed"} : res = dl.th[f]
  BY <1>2 DEF Errors
<1>4. dl' = [dl EXCEPT !.stop = TRUE, !.res = res]
  BY <1>2, <1>3
<1>5. /\ dl' \in Download /\ dl'.pc = dl.pc /\ dl'.th = dl.th /\ dl'.rc = dl.rc
      /\ dl'.ex = dl.ex /\ dl'.stop = TRUE
  BY <1>1, <1>4 DEF Download
<1>6. \A g \in Files : Fetched(g)'
  BY <1>1, <1>5 DEF IInv, DownloadInv, Fetched, disk
<1>7. NoStrayDownloader'
  BY <1>1, <1>5 DEF IInv, DownloadInv, NoStrayDownloader, disk
<1>8. Verified'
  BY <1>1, <1>5 DEF Verified
<1> QED BY <1>1, <1>5, <1>6, <1>7, <1>8, DownloadStep DEF IInv, TypeOK, disk

(* Only the fetching threads have processes.                               *)
LEMMA LateProc ==
    ASSUME IInv, dl.pc # "d_fetch"
    PROVE  proc = {}
  BY DEF IInv, DownloadInv, NoStrayDownloader

(* Join: every thread has ended, so no process is left, and every file     *)
(* that is not linked from an earlier snapshot is whole.                   *)
LEMMA JoinStep ==
    ASSUME IInv, Join
    PROVE  IInv'
<1>1. /\ dl.pc = "d_fetch" /\ UNCHANGED <<src, db, x, scan, up>> /\ UNCHANGED disk
      /\ dl \in Download /\ TypeOK
      /\ \A f \in Files : dl.th[f] \in Errors \cup {"done"}
  BY DEF Join, Dl, At, IInv, TypeOK
<1>2. proc = {}
  BY <1>1 DEF IInv, DownloadInv, NoStrayDownloader, Errors, TypeOK
<1>3. CASE DlEnd(dl.res)
  <2>1. dl.res \in TaskStatus
    BY <1>1 DEF Download, TaskStatus
  <2> QED BY <1>1, <1>2, <1>3, <2>1, EndsStep DEF TypeOK, disk
<1>4. CASE (\A f \in Files : dl.th[f] = "done") /\ ~ dl.stop /\ Goto("d_clear") /\ UNCHANGED task
  <2>1. dl' \in Download /\ dl'.pc = "d_clear" /\ dl'.ex = dl.ex
    BY <1>1, <1>4 DEF Goto, Download
  <2>2. \A f \in Files : dl.ex[f] = "none" => stage[f] = "full"
    BY <1>1, <1>4 DEF IInv, DownloadInv, Fetched
  <2>3. \A f \in Files : Fetched(f)'
    BY <1>1, <2>1, <2>2 DEF Fetched, disk
  <2>4. NoStrayDownloader'
    BY <1>1, <1>2 DEF NoStrayDownloader, disk
  <2>5. Verified'
    BY <2>1 DEF Verified
  <2> QED BY <1>1, <1>4, <2>1, <2>3, <2>4, <2>5, DownloadStep DEF TypeOK, disk
<1> QED BY <1>3, <1>4 DEF Join, Dl

(* A step after the threads have been joined.                              *)
LEMMA LateStep ==
    ASSUME IInv, dl.pc \in {"d_clear", "d_link", "d_old", "d_replace", "d_ref"},
           UNCHANGED <<src, db, x, scan, up>>, UNCHANGED <<stage, proc, task>>,
           dir' \in BOOLEAN, main' \in BOOLEAN, snap' \in Snapshot, tmp' \in Temporary,
           dl' \in Download, Verified',
           dl'.pc \in {"d_link", "d_old", "d_replace", "d_undo", "d_ref", "d_end"},
           dl'.pc = "d_link" => dl.pc \in {"d_clear", "d_link"} /\ dl'.ex = dl.ex
    PROVE  IInv'
<1>1. proc = {}
  BY LateProc
<1>2. NoStrayDownloader'
  BY <1>1 DEF NoStrayDownloader
<1>3. \A f \in Files : Fetched(f)'
  BY DEF IInv, DownloadInv, Fetched
<1> QED BY <1>2, <1>3, DownloadStep DEF IInv, TypeOK

(* The handler moves on.                                                   *)
LEMMA GotoFacts ==
    ASSUME dl \in Download,
           NEW pc \in {"d_link", "d_old", "d_replace", "d_undo", "d_ref", "d_end"}, Goto(pc)
    PROVE  dl' \in Download /\ dl'.pc = pc /\ dl'.ex = dl.ex
  BY DEF Goto, Download

(* Clear                                                                   *)
LEMMA ClearStep ==
    ASSUME IInv, Clear
    PROVE  IInv'
<1>1. /\ dl.pc = "d_clear" /\ UNCHANGED <<src, db, x, scan, up>>
      /\ UNCHANGED <<stage, proc, snap, main, task>> /\ dl \in Download /\ TypeOK
      /\ dir' = TRUE /\ tmp' = Empty /\ Goto("d_link")
  BY DEF Clear, Dl, At, IInv, TypeOK
<1>2. Empty \in Temporary
  BY DEF Empty, Temporary
<1>3. dl' \in Download /\ dl'.pc = "d_link" /\ dl'.ex = dl.ex
  BY <1>1, GotoFacts
<1>4. Verified'
  BY <1>3 DEF Verified
<1> QED BY <1>1, <1>2, <1>3, <1>4, LateStep DEF TypeOK

(* What the handler links has no holes.                                    *)
LEMMA SourceFacts ==
    ASSUME IInv, NEW f \in Files, dl.pc = "d_link"
    PROVE  Source(f) \in {"none", "part", "full"}
<1>1. /\ dl.ex[f] \in {"none", "snap", "tmp"} /\ snap \in Snapshot /\ tmp \in Temporary
      /\ dl.ex[f] = "none" => stage[f] = "full"
  BY DEF IInv, TypeOK, Download, DownloadInv, Fetched
<1>2. CASE dl.ex[f] = "none"
  BY <1>1, <1>2 DEF Source
<1>3. CASE dl.ex[f] = "snap"
  BY <1>1, <1>3 DEF Source, In, Snapshot
<1>4. CASE dl.ex[f] = "tmp"
  BY <1>1, <1>4 DEF Source, In, Temporary
<1> QED BY <1>1, <1>2, <1>3, <1>4

(* LinkFile                                                                *)
LEMMA LinkFileStep ==
    ASSUME IInv, NEW f \in Files, LinkFile(f)
    PROVE  IInv'
<1>1. /\ dl.pc = "d_link" /\ UNCHANGED <<src, db, x, scan, up>>
      /\ UNCHANGED <<stage, proc, snap, main, task>> /\ dl \in Download /\ TypeOK
  BY DEF LinkFile, Dl, At, IInv, TypeOK
<1>2. CASE Goto("d_undo") /\ UNCHANGED <<dir, tmp>>
  <2>1. dl' \in Download /\ dl'.pc = "d_undo"
    BY <1>1, <1>2, GotoFacts
  <2>2. Verified'
    BY <2>1 DEF Verified
  <2> QED BY <1>1, <1>2, <2>1, <2>2, LateStep DEF TypeOK
<1>3. ASSUME NEW s \in {"none", "part", "full"}, tmp' = Placed(f, s), dir' = TRUE,
             dl' = dl \/ dl' = [dl EXCEPT !.left = dl.left \ {f}]
      PROVE  IInv'
  <2>1. dl' \in Download /\ dl'.pc = "d_link" /\ dl'.ex = dl.ex
    BY <1>1, <1>3 DEF Download
  <2>2. (IF tmp = NoDir THEN Empty ELSE tmp) \in [Files -> {"none", "part", "full"}]
    BY <1>1 DEF TypeOK, Temporary, Empty
  <2>3. tmp' \in Temporary
    BY <1>3, <2>2 DEF Temporary, Placed
  <2>4. Verified'
    BY <2>1 DEF Verified
  <2> QED BY <1>1, <1>3, <2>1, <2>3, <2>4, LateStep DEF TypeOK
<1>4. Source(f) \in {"none", "part", "full"}
  BY <1>1, SourceFacts
<1>5. PICK s \in {"none", "part", "full"} : s = Source(f)
  BY <1>4
<1>6. CASE dir' = TRUE /\ tmp' = Placed(f, "part") /\ dl' = dl
  BY <1>3, <1>6
<1>7. CASE dir' = TRUE /\ tmp' = Placed(f, Source(f)) /\ dl' = [dl EXCEPT !.left = dl.left \ {f}]
  BY <1>3, <1>5, <1>7
<1> QED BY <1>2, <1>6, <1>7 DEF LinkFile, Dl

(* Verify                                                                  *)
LEMMA VerifyStep ==
    ASSUME IInv, Verify
    PROVE  IInv'
<1>1. /\ dl.pc = "d_link" /\ UNCHANGED <<src, db, x, scan, up>>
      /\ UNCHANGED <<disk, task>> /\ dl \in Download /\ TypeOK
      /\ (Goto("d_old") /\ tmp # NoDir /\ Holds("tmp")) \/ Goto("d_undo")
  BY DEF Verify, Dl, At, IInv, TypeOK
<1>2. dl' \in Download /\ dl'.pc \in {"d_old", "d_undo"}
  BY <1>1, GotoFacts
<1>3. Goto("d_old") /\ tmp # NoDir /\ Holds("tmp") => \A f \in Files : tmp[f] = "full"
  BY <1>1 DEF TypeOK, Temporary, Holds, In, AtSize
<1>4. Goto("d_undo") => dl'.pc = "d_undo"
  BY <1>1, GotoFacts
<1>5. Verified'
  BY <1>1, <1>3, <1>4 DEF Verified, disk
<1> QED BY <1>1, <1>2, <1>5, LateStep DEF TypeOK, disk

(* RemoveOld                                                               *)
LEMMA RemoveOldStep ==
    ASSUME IInv, RemoveOld
    PROVE  IInv'
<1>1. /\ dl.pc = "d_old" /\ UNCHANGED <<src, db, x, scan, up>>
      /\ UNCHANGED <<stage, proc, dir, tmp, main, task>> /\ dl \in Download /\ TypeOK
  BY DEF RemoveOld, Dl, At, IInv, TypeOK
<1>2. snap' \in Snapshot
  BY <1>1 DEF RemoveOld, Dl, TypeOK, Snapshot
<1>3. dl' \in Download /\ dl'.pc \in {"d_old", "d_replace"}
  BY <1>1, GotoFacts DEF RemoveOld, Dl
<1>4. Verified'
  BY <1>1 DEF IInv, DownloadInv, Verified
<1> QED BY <1>1, <1>2, <1>3, <1>4, LateStep DEF TypeOK

(* Replace                                                                 *)
LEMMA ReplaceStep ==
    ASSUME IInv, Replace
    PROVE  IInv'
<1>1. /\ dl.pc = "d_replace" /\ UNCHANGED <<src, db, x, scan, up>>
      /\ UNCHANGED <<stage, proc, dir, main, task>> /\ dl \in Download /\ TypeOK
  BY DEF Replace, Dl, At, IInv, TypeOK
<1>2. snap' \in Snapshot /\ tmp' \in Temporary
  <2>1. tmp # NoDir => tmp \in [Files -> {"none", "full"}]
    BY <1>1 DEF IInv, DownloadInv, Verified, TypeOK, Temporary
  <2> QED BY <1>1, <2>1 DEF Replace, Dl, TypeOK, Snapshot, Temporary
<1>3. dl' \in Download /\ dl'.pc \in {"d_undo", "d_ref"}
  BY <1>1, GotoFacts DEF Replace, Dl
<1>4. Verified'
  BY <1>3 DEF Verified
<1> QED BY <1>1, <1>2, <1>3, <1>4, LateStep DEF TypeOK

(* Reference                                                               *)
LEMMA ReferenceStep ==
    ASSUME IInv, Reference
    PROVE  IInv'
<1>1. /\ dl.pc = "d_ref" /\ UNCHANGED <<src, db, x, scan, up>>
      /\ UNCHANGED <<stage, proc, snap, tmp, task>> /\ dl \in Download /\ TypeOK
      /\ dir' = TRUE /\ main' \in {TRUE, main} /\ Goto("d_end")
  BY DEF Reference, Dl, At, IInv, TypeOK
<1>2. dl' \in Download /\ dl'.pc = "d_end"
  BY <1>1, GotoFacts
<1>3. dir' \in BOOLEAN /\ main' \in BOOLEAN
  BY <1>1, Zenon DEF TypeOK
<1>4. Verified'
  BY <1>2 DEF Verified
<1> QED BY <1>1, <1>2, <1>3, <1>4, LateStep DEF TypeOK

(* Undo, DownloadEnd                                                       *)
LEMMA DownloadEndStep ==
    ASSUME IInv, Undo \/ DownloadEnd
    PROVE  IInv'
<1>1. /\ dl.pc \in {"d_undo", "d_end"} /\ UNCHANGED <<src, db, x, scan, up>> /\ TypeOK
      /\ UNCHANGED <<proc, dir, snap, main>>
  BY DEF Undo, DownloadEnd, Dl, At, IInv, cache
<1>2. proc = {}
  BY <1>1, LateProc
<1>3. /\ stage' \in Staging
      /\ tmp' \in Temporary
  BY <1>1 DEF Undo, DownloadEnd, Dl, TypeOK, Temporary, Staging, cache, Empty
<1>4. \E st \in TaskStatus : DlEnd(st)
  BY DEF Undo, DownloadEnd, Dl, TaskStatus
<1> QED BY <1>1, <1>2, <1>3, <1>4, EndsStep DEF TypeOK

(* Every step of the download handler.                                     *)
LEMMA HandlerStep ==
    ASSUME IInv, Handler
    PROVE  IInv'
  BY FileStartStep, FilePollStep, Aria2Step, LinkFileStep, DownloadBeginStep, ObserveStep,
     JoinStep, ClearStep, VerifyStep, RemoveOldStep, ReplaceStep, ReferenceStep, DownloadEndStep
     DEF Handler
-----------------------------------------------------------------------------
(* A record the scan marks as unavailable.                                 *)
LEMMA UnavailableFacts ==
    ASSUME NEW r \in Row, NEW p \in {"dir", "snap", "tmp", "none"}
    PROVE  /\ Unavailable(r, p) \in Row
           /\ Unavailable(r, p).status \in {r.status, "unavailable"}
           /\ Unavailable(r, p).owner \in {r.owner, 0}
  BY DEF Unavailable, Row

(* What a scan makes of a record: its mark, or none.                       *)
LEMMA ScannedFacts ==
    ASSUME TypeOK, NEW r \in Row \cup {NoRow}, NEW d \in {"none", "snap", "tmp"}
    PROVE  Scanned(r, d) \in Row \cup {NoRow} /\ Harmless(r, Scanned(r, d))
<1>1. NoRow \notin Row
  BY AbsentFacts
<1>2. CASE ~ dir
  <2>1. CASE r # NoRow /\ r.status = "available"
    <3>1. r \in Row /\ r.path \in {"dir", "snap", "tmp", "none"}
      BY <2>1 DEF Row
    <3>2. Scanned(r, d) = Unavailable(r, r.path)
      BY <1>2, <2>1 DEF Scanned
    <3>3. PICK p \in {"dir", "snap", "tmp", "none"} : p = r.path
      BY <3>1
    <3>4. /\ Unavailable(r, p) \in Row
          /\ Unavailable(r, p).status \in {r.status, "unavailable"}
          /\ Unavailable(r, p).owner \in {r.owner, 0}
      BY <3>1, UnavailableFacts
    <3> HIDE DEF Unavailable
    <3> QED BY <1>1, <2>1, <3>2, <3>3, <3>4 DEF Harmless
  <2>2. CASE ~ (r # NoRow /\ r.status = "available")
    BY <1>2, <2>2 DEF Scanned, Harmless
  <2> QED BY <2>1, <2>2
<1>3. CASE dir
  <2> DEFINE old == IF r = NoRow THEN Plain(ids + 1) ELSE r
  <2>1. old \in Row /\ (r = NoRow => old.status = "available" /\ old.owner = 0)
    <3>1. ids + 1 \in Nat
      BY DEF TypeOK
    <3> QED BY <3>1 DEF Plain, Row
  <2>2. r # NoRow => old = r
    OBVIOUS
  <2>3. \/ Scanned(r, d) = Unavailable(old, "dir")
        \/ Scanned(r, d) = [old EXCEPT !.path = d,
                                !.status = IF Lifecycle(old) THEN @ ELSE "available"]
    BY <1>3 DEF Scanned
  <2> HIDE DEF old
  <2>4. CASE Scanned(r, d) = Unavailable(old, "dir")
    <3>1. /\ Unavailable(old, "dir") \in Row
          /\ Unavailable(old, "dir").status \in {old.status, "unavailable"}
          /\ Unavailable(old, "dir").owner \in {old.owner, 0}
      BY <2>1, UnavailableFacts
    <3> QED BY <1>1, <2>1, <2>2, <2>4, <3>1 DEF Harmless
  <2>5. CASE Scanned(r, d) = [old EXCEPT !.path = d,
                                !.status = IF Lifecycle(old) THEN @ ELSE "available"]
    <3>1. /\ Scanned(r, d) \in Row /\ Scanned(r, d).owner = old.owner
          /\ Scanned(r, d).status \in {old.status, "available"}
      BY <2>1, <2>5 DEF Row
    <3> QED BY <1>1, <2>1, <2>2, <3>1 DEF Harmless
  <2> QED BY <2>3, <2>4, <2>5
<1> QED BY <1>2, <1>3 DEF TypeOK

(***************************************************************************)
(* What a scan's commit does to the record: a record keeps its id and, if  *)
(* it is then marked with a task, was so before; a new record has a new id *)
(* and no mark.                                                            *)
(***************************************************************************)
Written ==
    /\ row' \in Row \cup {NoRow} /\ ids' \in Nat /\ ids <= ids'
    /\ row # NoRow => /\ row' # NoRow /\ row'.id = row.id /\ ids' = ids
                      /\ row'.status = "deleting" /\ row'.owner # 0 =>
                            row.status = "deleting" /\ row'.owner = row.owner
    /\ row = NoRow /\ row' # NoRow => /\ row'.id = ids + 1 /\ ids' = ids + 1
                                      /\ row'.status # "deleting"

(* Write, for a scan that changes no record into a marked one.             *)
LEMMA WriteFacts ==
    ASSUME TypeOK, NEW was \in Row \cup {NoRow}, NEW now \in Row \cup {NoRow},
           Harmless(was, now), Write(was, now)
    PROVE  Written
<1>1. /\ NoRow \notin Row /\ row \in Row \cup {NoRow} /\ ids \in Nat
      /\ row' = Commit(was, now) /\ ids' = IF row = NoRow /\ row' # NoRow THEN ids + 1 ELSE ids
  BY AbsentFacts DEF TypeOK, Write
<1>2. CASE row' = row
  BY <1>1, <1>2 DEF Written
<1>3. CASE was = NoRow /\ row = NoRow /\ now # NoRow /\ row' = [now EXCEPT !.id = ids + 1]
  <2>1. PICK n \in Nat : n = ids + 1
    BY <1>1
  <2>2. /\ row' \in Row /\ row'.id = n /\ row'.status = now.status
    BY <1>3, <2>1 DEF Row
  <2>3. now.status # "deleting"
    BY <1>3 DEF Harmless
  <2> QED BY <1>1, <1>3, <2>1, <2>2, <2>3 DEF Written
<1>4. CASE /\ was # NoRow /\ row # NoRow
           /\ row' = [row EXCEPT !.status = Column(@, was.status, now.status),
                                 !.owner = Column(@, was.owner, now.owner),
                                 !.orig = Column(@, was.orig, now.orig),
                                 !.path = Column(@, was.path, now.path)]
  <2>1. row \in Row /\ was \in Row /\ now \in Row
    BY <1>1, <1>4 DEF Harmless
  <2>2. /\ row' \in Row /\ row'.id = row.id
        /\ row'.status = Column(row.status, was.status, now.status)
        /\ row'.owner = Column(row.owner, was.owner, now.owner)
    BY <1>4, <2>1 DEF Row, Column
  <2>3. row'.status = "deleting" => row.status = "deleting"
    BY <1>4, <2>2 DEF Harmless, Column
  <2>4. row'.owner # 0 => row'.owner = row.owner
    BY <1>4, <2>2 DEF Harmless, Column
  <2> QED BY <1>1, <1>4, <2>1, <2>2, <2>3, <2>4 DEF Written
<1>5. row' = row \/ (was = NoRow /\ row = NoRow /\ row' = [now EXCEPT !.id = ids + 1] /\ was # now)
      \/ (was # NoRow /\ row # NoRow
          /\ row' = [row EXCEPT !.status = Column(@, was.status, now.status),
                                !.owner = Column(@, was.owner, now.owner),
                                !.orig = Column(@, was.orig, now.orig),
                                !.path = Column(@, was.path, now.path)])
  BY <1>1 DEF Commit
<1> QED BY <1>2, <1>3, <1>4, <1>5

(* The record's invariant, after a commit, for tasks that go on.           *)
LEMMA WrittenInv ==
    ASSUME IInv, Written,
           \A t \in Dels \cup {0} : task'[t].id = task[t].id,
           \A t \in Dels : row' # NoRow /\ row'.status = "deleting" /\ row'.owner = t =>
              task'[t].st \in {"queued", "running", "paused", "cancelled"},
           scan'.on => Harmless(scan.was, scan.now)'
    PROVE  RecordInv'
<1>1. /\ ids \in Nat /\ task \in [Dels \cup {0} -> Task] /\ row \in Row \cup {NoRow}
      /\ \A t \in Dels \cup {0} : task[t].id \in Nat /\ task[t].id <= ids
  BY DEF IInv, TypeOK, RecordInv, Task
<1>2. \A t \in Dels \cup {0} : task'[t].id <= ids'
  <2> TAKE t \in Dels \cup {0}
  <2>1. PICK n \in Nat : n = task[t].id
    BY <1>1
  <2>2. PICK m \in Nat : m = ids'
    BY DEF Written
  <2>3. n <= m
    BY <1>1, <2>1, <2>2 DEF Written
  <2> QED BY <2>1, <2>2, <2>3
<1>3. row' # NoRow => row'.id <= ids'
  <2>1. CASE row # NoRow
    BY <2>1 DEF Written, IInv, RecordInv
  <2>2. CASE row = NoRow
    BY <1>1, <2>2 DEF Written
  <2> QED BY <2>1, <2>2
<1>4. DeletingHasItsTask'
  <2> SUFFICES ASSUME row' # NoRow, row'.status = "deleting", row'.owner # 0
               PROVE  /\ row'.owner \in Dels /\ task'[row'.owner].id = row'.id
                      /\ task'[row'.owner].st \in {"queued", "running", "paused", "cancelled"}
    BY DEF DeletingHasItsTask
  <2>1. row # NoRow /\ row.status = "deleting" /\ row'.owner = row.owner /\ row'.id = row.id
    BY DEF Written
  <2>2. row.owner \in Dels /\ task[row.owner].id = row.id
    BY <2>1 DEF IInv, RecordInv, DeletingHasItsTask
  <2> QED BY <2>1, <2>2
<1> QED BY <1>2, <1>3, <1>4 DEF RecordInv
-----------------------------------------------------------------------------
(* A step beside the download handler.                                     *)
LEMMA DownloadSame ==
    ASSUME IInv, UNCHANGED <<stage, proc, dl>>, up' = up, task'[0].st = task[0].st,
           tmp' = tmp \/ tmp' = NoDir
    PROVE  DownloadInv'
  BY DEF IInv, DownloadInv, NoStrayDownloader, Fetched, Verified

(* ScanRead                                                                *)
LEMMA ScanReadStep ==
    ASSUME IInv, ScanRead
    PROVE  IInv'
<1>1. TypeOK /\ UNCHANGED <<src, disk, db, task, dl, x, up>>
  BY DEF ScanRead, IInv
<1>2. PICK d \in resolve_hf_snapshot :
          scan' = [on |-> TRUE, was |-> row, now |-> Scanned(row, d)]
  BY DEF ScanRead
<1>3. d \in {"none", "snap", "tmp"}
  BY <1>1, Resolved
<1>4. PICK r \in Row \cup {NoRow} : r = row
  BY <1>1 DEF TypeOK
<1>5. Scanned(r, d) \in Row \cup {NoRow} /\ Harmless(r, Scanned(r, d))
  BY <1>1, <1>3, ScannedFacts
<1>6. PICK now \in Row \cup {NoRow} : now = Scanned(r, d)
  BY <1>5
<1>7. scan' = [on |-> TRUE, was |-> r, now |-> now]
  BY <1>2, <1>4, <1>6
<1>8. TypeOK'
  BY <1>1, <1>7 DEF TypeOK, disk, db
<1>9. scan'.was = r /\ scan'.now = now
  BY <1>7
<1>10. Harmless(scan.was, scan.now)'
  BY <1>5, <1>6, <1>9 DEF Harmless
<1>11. DownloadInv'
  BY <1>1, DownloadSame DEF disk
<1>12. DeletionInv' /\ RecordInv'
  BY <1>1, <1>10 DEF IInv, DeletionInv, UnusedAtTheCheck, Mine, RecordInv, DeletingHasItsTask, db
<1> QED BY <1>8, <1>11, <1>12 DEF IInv

(* ScanCommit                                                              *)
LEMMA ScanCommitStep ==
    ASSUME IInv, ScanCommit
    PROVE  IInv'
<1>1. /\ TypeOK /\ scan.on /\ scan' = NoScan /\ Write(scan.was, scan.now)
      /\ UNCHANGED <<src, disk, ref, task, dl, x, up>>
  BY DEF ScanCommit, IInv
<1>2. PICK was \in Row \cup {NoRow}, now \in Row \cup {NoRow} : was = scan.was /\ now = scan.now
  BY <1>1 DEF TypeOK
<1>3. Harmless(was, now)
  BY <1>1, <1>2 DEF IInv, RecordInv
<1>4. Written
  BY <1>1, <1>2, <1>3, WriteFacts
<1>5. TypeOK'
  BY <1>1, <1>4, InitialTypes DEF TypeOK, Written, disk
<1>6. DownloadInv'
  BY <1>1, DownloadSame DEF disk
<1>7. \A t \in Dels : row' # NoRow /\ row'.status = "deleting" /\ row'.owner = t =>
              task'[t].st \in {"queued", "running", "paused", "cancelled"}
  <2>1. \A t \in Dels : t # 0
    BY DelsFacts
  <2> QED BY <1>1, <1>4, <2>1 DEF Written, IInv, RecordInv, DeletingHasItsTask
<1>8. RecordInv'
  BY <1>1, <1>4, <1>7, InitialTypes, WrittenInv
<1>9. DeletionInv'
  <2>1. x.pc = "x_scan" => ~ Mine'
    <3> SUFFICES ASSUME x.pc = "x_scan", row' # NoRow PROVE row'.id # task[x.t].id
      BY <1>1 DEF Mine
    <3>1. x.t \in Dels /\ ~ Mine
      BY DEF IInv, DeletionInv
    <3>2. task[x.t].id \in Nat /\ task[x.t].id <= ids /\ ids \in Nat
      BY <1>1, <3>1 DEF IInv, RecordInv, TypeOK, Task
    <3>3. CASE row # NoRow
      BY <1>4, <3>1, <3>3 DEF Written, Mine
    <3>4. CASE row = NoRow
      BY <1>4, <3>2, <3>4 DEF Written
    <3> QED BY <3>3, <3>4
  <2> QED BY <1>1, <2>1 DEF IInv, DeletionInv, UnusedAtTheCheck
<1> QED BY <1>5, <1>6, <1>8, <1>9 DEF IInv
-----------------------------------------------------------------------------
(***************************************************************************)
(* A step of the delete handler, from what it leaves of the record and of  *)
(* its own state.                                                          *)
(***************************************************************************)
LEMMA DeletionStep ==
    ASSUME IInv, x.pc # "idle", UNCHANGED <<src, stage, proc, dl, scan, up, ref>>,
           dir' \in BOOLEAN, main' \in BOOLEAN, snap' \in Snapshot, tmp' \in Temporary,
           tmp' = tmp \/ tmp' = NoDir, x' \in Deletion, row' \in Row \cup {NoRow}, ids' \in Nat, ids <= ids',
           row' # NoRow => row'.id <= ids', DeletingHasItsTask',
           \/ x' = NoX /\ \E st \in TaskStatus : task' = Ended(x.t, st)
           \/ /\ task' = task /\ x'.t = x.t /\ x'.pc \notin {"idle", "x_begin"}
              /\ UnusedAtTheCheck'
              /\ x'.pc = "x_scan" => ~ Mine'
    PROVE  IInv'
<1>1. TypeOK /\ x.t \in Dels /\ up /\ task[x.t].st = "running"
  BY DEF IInv, DeletionInv
<1>2. 0 \notin Dels
  BY DelsFacts
<1>3. /\ task' \in [Dels \cup {0} -> Task] /\ task'[0] = task[0]
      /\ \A t \in Dels \cup {0} : task'[t].id = task[t].id
  <2>1. CASE task' = task
    BY <1>1, <2>1 DEF TypeOK
  <2>2. ASSUME NEW st \in TaskStatus, task' = Ended(x.t, st)
        PROVE  /\ task' \in [Dels \cup {0} -> Task] /\ task'[0] = task[0]
               /\ \A t \in Dels \cup {0} : task'[t].id = task[t].id
    <3>1. PICK u \in Dels : u = x.t
      BY <1>1
    <3>2. /\ Ended(u, st) \in [Dels \cup {0} -> Task]
          /\ \A t \in Dels \cup {0} : t # u => Ended(u, st)[t] = task[t]
          /\ \A t \in Dels \cup {0} : Ended(u, st)[t].id = task[t].id
      BY <1>1, <3>1, EndedFacts, ZenonT(60)
    <3>3. u # 0
      BY <1>2, <3>1
    <3> QED BY <2>2, <3>1, <3>2, <3>3
  <2> QED BY <2>1, <2>2
<1>4. TypeOK'
  BY <1>1, <1>3 DEF TypeOK
<1>5. DownloadInv'
  BY <1>3, DownloadSame
<1>6. DeletionInv'
  BY <1>1, InitialTypes DEF DeletionInv
<1>7. RecordInv'
  <2>1. \A t \in Dels \cup {0} : task'[t].id <= ids'
    <3> TAKE t \in Dels \cup {0}
    <3>1. PICK n \in Nat : n = task[t].id
      BY <1>1 DEF TypeOK, Task
    <3>2. PICK m \in Nat : m = ids'
      OBVIOUS
    <3>3. n <= ids /\ ids \in Nat /\ ids <= m
      BY <1>1, <3>1, <3>2 DEF IInv, RecordInv, TypeOK
    <3>4. n <= m
      BY <3>3
    <3> QED BY <1>3, <3>1, <3>2, <3>4
  <2>2. scan'.on => Harmless(scan.was, scan.now)'
    BY DEF IInv, RecordInv, Harmless
  <2> QED BY <2>1, <2>2 DEF RecordInv
<1> QED BY <1>4, <1>5, <1>6, <1>7 DEF IInv

(* A step of the handler that writes neither the record nor a task.        *)
LEMMA DeletionMoves ==
    ASSUME IInv, x.pc \notin {"idle", "x_begin"},
           UNCHANGED <<src, stage, proc, dl, scan, up, ref>>, UNCHANGED <<row, ids, task>>,
           dir' \in BOOLEAN, main' \in BOOLEAN, snap' \in Snapshot, tmp' \in Temporary,
           tmp' = tmp \/ tmp' = NoDir,
           \/ x' = x
           \/ x' = [x EXCEPT !.pc = "x_ask", !.orphan = TRUE]
           \/ \E pc \in {"x_ask", "x_gone", "x_again", "x_rm", "x_check", "x_drop", "x_fail"} : XGoto(pc)
    PROVE  IInv'
<1>1. x \in Deletion /\ UnusedAtTheCheck /\ ids \in Nat /\ row \in Row \cup {NoRow}
      /\ (row # NoRow => row.id <= ids) /\ DeletingHasItsTask
      /\ (x.pc = "x_scan" => ~ Mine)
  BY DEF IInv, TypeOK, DeletionInv, RecordInv
<1>2. /\ x' \in Deletion /\ x'.t = x.t /\ x'.pc \notin {"idle", "x_begin"}
      /\ x'.pc = "x_scan" => x' = x
      /\ x'.late = x.late
  BY <1>1 DEF XGoto, Deletion
<1>3. DeletingHasItsTask'
  BY <1>1 DEF DeletingHasItsTask
<1>4. x'.pc = "x_scan" => ~ Mine'
  BY <1>1, <1>2 DEF Mine
<1>5. UnusedAtTheCheck'
  BY <1>1, <1>2 DEF UnusedAtTheCheck
<1> QED BY <1>1, <1>2, <1>3, <1>4, <1>5, DeletionStep

(***************************************************************************)
(* The handler ends as failed or succeeded and leaves no mark of its own.  *)
(***************************************************************************)
LEMMA DeletionEnds ==
    ASSUME IInv, x.pc # "idle", UNCHANGED <<src, stage, proc, dl, scan, up, ref>>,
           UNCHANGED cache, Written, \E st \in TaskStatus : XEnd(st),
           row' # NoRow /\ row'.status = "deleting" => row'.owner # x.t
    PROVE  IInv'
<1>1. /\ TypeOK /\ x.t \in Dels /\ 0 \notin Dels
      /\ row' \in Row \cup {NoRow} /\ ids' \in Nat /\ ids <= ids'
  BY DelsFacts DEF IInv, DeletionInv, Written
<1>2. PICK st \in TaskStatus : x' = NoX /\ task' = Ended(x.t, st)
  BY DEF XEnd
<1>3. PICK u \in Dels : u = x.t
  BY <1>1
<1>4. /\ \A t \in Dels \cup {0} : t # u => task'[t] = task[t]
      /\ \A t \in Dels \cup {0} : task'[t].id = task[t].id
  BY <1>1, <1>2, <1>3, EndedFacts
<1>5. \A t \in Dels : row' # NoRow /\ row'.status = "deleting" /\ row'.owner = t =>
              task'[t].st \in {"queued", "running", "paused", "cancelled"}
  <2> SUFFICES ASSUME NEW t \in Dels, row' # NoRow, row'.status = "deleting", row'.owner = t
               PROVE  task'[t].st \in {"queued", "running", "paused", "cancelled"}
    OBVIOUS
  <2>1. t # u /\ t # 0
    BY <1>1, <1>3
  <2>2. row # NoRow /\ row.status = "deleting" /\ row.owner = t
    BY <2>1 DEF Written
  <2> QED BY <1>4, <2>1, <2>2 DEF IInv, RecordInv, DeletingHasItsTask
<1>6. scan'.on => Harmless(scan.was, scan.now)'
  BY DEF IInv, RecordInv, Harmless
<1>7. RecordInv'
  BY <1>4, <1>5, <1>6, WrittenInv
<1> QED BY <1>1, <1>2, <1>7, InitialTypes, DeletionStep DEF RecordInv, TypeOK, cache

(* The mark of the running deletion is on the record it is about.          *)
LEMMA OwnMark ==
    ASSUME IInv, x.pc # "idle", row # NoRow, row.status = "deleting", row.owner = x.t
    PROVE  Mine
<1>1. x.t \in Dels /\ x.t # 0
  BY DelsFacts DEF IInv, DeletionInv
<1> QED BY <1>1 DEF IInv, RecordInv, DeletingHasItsTask, Mine

(* A record written in place.                                              *)
LEMMA RowEdit ==
    ASSUME TypeOK, row # NoRow,
           NEW status \in {"available", "unavailable", "deleting", "delete_failed"},
           NEW owner \in Dels \cup {0}, NEW orig \in {"none", "available", "unavailable"},
           row' = [row EXCEPT !.status = status, !.owner = owner, !.orig = orig]
    PROVE  /\ row' \in Row /\ row' # NoRow /\ row'.id = row.id /\ row'.status = status
           /\ row'.owner = owner
<1>1. row \in Row
  BY DEF TypeOK
<1>2. /\ row' \in Row /\ row'.id = row.id /\ row'.status = status /\ row'.owner = owner
  BY <1>1 DEF Row
<1> QED BY <1>2, AbsentFacts

(* A record that loses its mark, or stays as it is.                        *)
LEMMA Unmarked ==
    ASSUME TypeOK, ids' = ids,
           \/ row' = row
           \/ /\ row # NoRow
              /\ \E status \in {"available", "unavailable"} :
                    row' = [row EXCEPT !.status = status, !.owner = 0, !.orig = "none"]
    PROVE  /\ Written
           /\ row' # NoRow /\ row'.status = "deleting" => row' = row
<1>1. ids \in Nat /\ row \in Row \cup {NoRow}
  BY DEF TypeOK
<1>2. CASE row' = row
  BY <1>1, <1>2 DEF Written
<1>3. ASSUME row # NoRow, NEW status \in {"available", "unavailable"},
             row' = [row EXCEPT !.status = status, !.owner = 0, !.orig = "none"]
      PROVE  Written /\ (row' # NoRow /\ row'.status = "deleting" => row' = row)
  <2>1. row' \in Row /\ row' # NoRow /\ row'.id = row.id /\ row'.status = status
    BY <1>3, RowEdit
  <2> QED BY <1>1, <1>3, <2>1 DEF Written
<1> QED BY <1>2, <1>3

(* The status a deletion restores.                                         *)
LEMMA StatusFacts == \A st : Status(st) \in {"available", "unavailable"}
  BY DEF Status

(* DeleteBegin                                                             *)
LEMMA DeleteBeginStep ==
    ASSUME IInv, DeleteBegin
    PROVE  IInv'
<1>1. /\ x.pc = "x_begin" /\ TypeOK /\ UNCHANGED <<src, stage, proc, dl, scan, up, ref>>
      /\ UNCHANGED <<cache, ids>> /\ x \in Deletion /\ x.t \in Dels
      /\ task[x.t].st = "running"
  BY DEF DeleteBegin, Del, XAt, IInv, TypeOK, DeletionInv
<1> DEFINE re == row.status = "deleting"
           orig == Status(IF row.status \in {"deleting", "delete_failed"} THEN row.orig
                          ELSE row.status)
<1>2. PICK og \in {"available", "unavailable"} : og = orig
  BY StatusFacts
<1>3. \/ ~ Mine /\ XEnd("failed") /\ UNCHANGED row
      \/ Mine /\ re /\ row.owner # x.t /\ XEnd("failed") /\ UNCHANGED row
      \/ /\ Mine /\ XEnd("failed")
         /\ row' = IF re THEN [row EXCEPT !.status = orig, !.owner = 0, !.orig = "none"] ELSE row
      \/ /\ Mine /\ ref = {} /\ UNCHANGED task
         /\ row' = [row EXCEPT !.status = "deleting", !.owner = x.t, !.orig = orig]
         /\ x' = [x EXCEPT !.pc = "x_look", !.re = re,
                           !.miss = re \/ row.status = "delete_failed" \/ orig = "unavailable"]
  BY DEF DeleteBegin, Del, references
<1> HIDE DEF orig
<1>4. "failed" \in TaskStatus
  BY DEF TaskStatus
<1>5. CASE /\ (~ Mine \/ row.owner # x.t) /\ XEnd("failed") /\ UNCHANGED row
  <2>1. Written
    BY <1>1, <1>5, Unmarked
  <2>2. row' # NoRow /\ row'.status = "deleting" => row'.owner # x.t
    BY <1>1, <1>5, OwnMark
  <2> QED BY <1>1, <1>4, <1>5, <2>1, <2>2, DeletionEnds
<1>6. CASE /\ Mine /\ XEnd("failed")
           /\ row' = IF re THEN [row EXCEPT !.status = orig, !.owner = 0, !.orig = "none"] ELSE row
  <2>1. row # NoRow
    BY <1>6 DEF Mine
  <2>2. CASE ~ re
    <3>1. Written
      BY <1>1, <1>6, <2>2, Unmarked
    <3> QED BY <1>1, <1>4, <1>6, <2>2, <3>1, DeletionEnds
  <2>3. CASE re
    <3>1. row' = [row EXCEPT !.status = og, !.owner = 0, !.orig = "none"]
      BY <1>2, <1>6, <2>3
    <3>2. Written /\ row'.status # "deleting"
      <4>1. row'.status = og
        BY <1>1, <2>1, <3>1, RowEdit
      <4> QED BY <1>1, <2>1, <3>1, <4>1, Unmarked
    <3> QED BY <1>1, <1>4, <1>6, <3>2, DeletionEnds
  <2> QED BY <2>2, <2>3
<1>7. CASE /\ Mine /\ ref = {} /\ UNCHANGED task
           /\ row' = [row EXCEPT !.status = "deleting", !.owner = x.t, !.orig = orig]
           /\ x' = [x EXCEPT !.pc = "x_look", !.re = re,
                             !.miss = re \/ row.status = "delete_failed" \/ orig = "unavailable"]
  <2>1. PICK u \in Dels : u = x.t
    BY <1>1
  <2>2. row # NoRow /\ row.id = task[u].id
    BY <1>7, <2>1 DEF Mine
  <2>3. row' = [row EXCEPT !.status = "deleting", !.owner = u, !.orig = og]
    BY <1>2, <1>7, <2>1
  <2>4. row' \in Row /\ row' # NoRow /\ row'.id = row.id /\ row'.owner = u
    BY <1>1, <2>2, <2>3, RowEdit
  <2>5. DeletingHasItsTask'
    BY <1>1, <1>7, <2>1, <2>2, <2>4 DEF DeletingHasItsTask
  <2>6. PICK b \in BOOLEAN, m \in BOOLEAN : x' = [x EXCEPT !.pc = "x_look", !.re = b, !.miss = m]
    BY <1>7
  <2>7. x' \in Deletion /\ x'.pc = "x_look" /\ x'.t = x.t
    BY <1>1, <2>6 DEF Deletion
  <2>8. ids' \in Nat /\ ids <= ids' /\ row'.id <= ids'
    BY <1>1, <2>2, <2>4 DEF TypeOK, IInv, RecordInv
  <2>9. /\ dir' \in BOOLEAN /\ main' \in BOOLEAN /\ snap' \in Snapshot /\ tmp' \in Temporary
    BY <1>1 DEF TypeOK, cache
  <2>10. UnusedAtTheCheck' /\ tmp' = tmp
    BY <1>1, <1>7 DEF UnusedAtTheCheck, cache
  <2> QED BY <1>1, <1>7, <2>4, <2>5, <2>7, <2>8, <2>9, <2>10, DeletionStep
<1> QED BY <1>3, <1>5, <1>6, <1>7

(* DeleteLook, DeleteAgain, DeleteCheck                                    *)
LEMMA DeleteLookStep ==
    ASSUME IInv, DeleteLook \/ DeleteAgain \/ DeleteCheck
    PROVE  IInv'
<1>1. /\ x.pc \in {"x_look", "x_again", "x_check"} /\ UNCHANGED <<src, stage, proc, dl, scan, up, ref>>
      /\ UNCHANGED <<row, ids, task>> /\ UNCHANGED cache
  BY DEF DeleteLook, DeleteAgain, DeleteCheck, Del, XAt
<1>2. \/ x' = [x EXCEPT !.pc = "x_ask", !.orphan = TRUE]
      \/ \E pc \in {"x_ask", "x_gone", "x_again", "x_rm", "x_check", "x_drop", "x_fail"} : XGoto(pc)
  BY DEF DeleteLook, DeleteAgain, DeleteCheck, Del
<1> QED BY <1>1, <1>2, DeletionMoves DEF IInv, TypeOK, cache

(* DeleteAsk                                                               *)
LEMMA DeleteAskStep ==
    ASSUME IInv, DeleteAsk
    PROVE  IInv'
<1>1. /\ x.pc \in {"x_ask", "x_gone"} /\ UNCHANGED <<src, stage, proc, dl, scan, up, ref>>
      /\ UNCHANGED ids /\ UNCHANGED cache /\ TypeOK
  BY DEF DeleteAsk, Del, IInv
<1>2. CASE (XGoto("x_drop") \/ XGoto("x_again") \/ XGoto("x_rm")) /\ UNCHANGED <<row, task>>
  BY <1>1, <1>2, DeletionMoves DEF TypeOK, cache
<1>3. CASE row' = restore_delete_state /\ (XEnd("cancelled") \/ XEnd("paused"))
  <2>1. CASE Mine /\ row.owner = x.t
    <3>1. PICK status \in {"available", "unavailable"} : status = Status(row.orig)
      BY StatusFacts
    <3>2. row' = [row EXCEPT !.status = status, !.owner = 0, !.orig = "none"] /\ row # NoRow
      BY <1>3, <2>1, <3>1 DEF restore_delete_state, Mine
    <3>3. Written /\ row'.status # "deleting"
      <4>1. row'.status = status
        BY <1>1, <3>2, RowEdit
      <4> QED BY <1>1, <3>2, <4>1, Unmarked
    <3> QED BY <1>1, <1>3, <3>3, DeletionEnds DEF TaskStatus
  <2>2. CASE ~ (Mine /\ row.owner = x.t)
    <3>1. row' = row
      BY <1>3, <2>2 DEF restore_delete_state
    <3>2. Written
      BY <1>1, <3>1, Unmarked
    <3>3. row' # NoRow /\ row'.status = "deleting" => row'.owner # x.t
      BY <1>1, <2>2, <3>1, OwnMark
    <3> QED BY <1>1, <1>3, <3>2, <3>3, DeletionEnds DEF TaskStatus
  <2> QED BY <2>1, <2>2
<1> QED BY <1>2, <1>3 DEF DeleteAsk, Del

(* DeleteRemove                                                            *)
LEMMA DeleteRemoveStep ==
    ASSUME IInv, DeleteRemove
    PROVE  IInv'
<1>1. /\ x.pc = "x_rm" /\ UNCHANGED <<src, stage, proc, dl, scan, up, ref>>
      /\ UNCHANGED <<row, ids, task>> /\ TypeOK
      /\ x' = x \/ XGoto("x_check")
  BY DEF DeleteRemove, Del, XAt, IInv
<1>2. /\ dir' \in BOOLEAN /\ main' \in BOOLEAN /\ tmp' \in Temporary
      /\ tmp' = tmp \/ tmp' = NoDir
  BY <1>1 DEF DeleteRemove, Del, TypeOK, Temporary, cache
<1>3. snap' \in Snapshot
  BY <1>1 DEF DeleteRemove, Del, TypeOK, Snapshot, cache
<1> QED BY <1>1, <1>2, <1>3, DeletionMoves

(* DeleteDrop                                                              *)
LEMMA DeleteDropStep ==
    ASSUME IInv, DeleteDrop
    PROVE  IInv'
<1>1. /\ x.pc = "x_drop" /\ UNCHANGED <<src, stage, proc, dl, scan, up, ref>> /\ TypeOK
      /\ UNCHANGED <<ids, task>> /\ UNCHANGED cache /\ x \in Deletion /\ UnusedAtTheCheck
      /\ XGoto("x_scan") /\ row' = IF Mine THEN NoRow ELSE row
  BY DEF DeleteDrop, Del, XAt, IInv, TypeOK, DeletionInv
<1>2. x' \in Deletion /\ x'.pc = "x_scan" /\ x'.t = x.t /\ x'.late = x.late
  BY <1>1 DEF XGoto, Deletion
<1>3. ~ Mine'
  BY <1>1, <1>2 DEF Mine
<1>4. row' \in Row \cup {NoRow} /\ DeletingHasItsTask' /\ (row' # NoRow => row'.id <= ids')
      /\ ids' \in Nat /\ ids <= ids'
  BY <1>1 DEF IInv, TypeOK, RecordInv, DeletingHasItsTask
<1>5. UnusedAtTheCheck'
  BY <1>1, <1>2 DEF UnusedAtTheCheck
<1> QED BY <1>1, <1>2, <1>3, <1>4, <1>5, DeletionStep DEF TypeOK, cache

(* DeleteScan: the record the scan meets is not the one that was dropped.  *)
LEMMA DeleteScanStep ==
    ASSUME IInv, DeleteScan
    PROVE  IInv'
<1>1. /\ x.pc = "x_scan" /\ UNCHANGED <<src, stage, proc, dl, scan, up, ref>> /\ TypeOK
      /\ UNCHANGED cache /\ ~ Mine /\ XEnd("succeeded") /\ x.t \in Dels /\ x.t # 0
  BY DelsFacts DEF DeleteScan, Del, XAt, IInv, DeletionInv
<1>2. PICK d \in resolve_hf_snapshot : Write(row, Scanned(row, d))
  BY DEF DeleteScan, Del
<1>3. d \in {"none", "snap", "tmp"}
  BY <1>1, Resolved
<1>4. PICK r \in Row \cup {NoRow} : r = row
  BY <1>1 DEF TypeOK
<1>5. Scanned(r, d) \in Row \cup {NoRow} /\ Harmless(r, Scanned(r, d))
  BY <1>1, <1>3, ScannedFacts
<1>6. PICK now \in Row \cup {NoRow} : now = Scanned(r, d)
  BY <1>5
<1>7. Written
  BY <1>1, <1>2, <1>4, <1>5, <1>6, WriteFacts
<1>8. row' # NoRow /\ row'.status = "deleting" => row'.owner # x.t
  <2> SUFFICES ASSUME row' # NoRow, row'.status = "deleting", row'.owner = x.t PROVE FALSE
    OBVIOUS
  <2>1. row # NoRow /\ row.status = "deleting" /\ row.owner = x.t
    BY <1>1, <1>7 DEF Written
  <2> QED BY <1>1, <2>1, OwnMark
<1> QED BY <1>1, <1>7, <1>8, DeletionEnds DEF TaskStatus

(* DeleteFail                                                              *)
LEMMA DeleteFailStep ==
    ASSUME IInv, DeleteFail
    PROVE  IInv'
<1>1. /\ x.pc = "x_fail" /\ UNCHANGED <<src, stage, proc, dl, scan, up, ref>> /\ TypeOK
      /\ UNCHANGED cache /\ UNCHANGED ids /\ XEnd("failed") /\ row' = mark_delete_failed
  BY DEF DeleteFail, Del, XAt, IInv
<1>2. CASE Mine
  <2>1. row # NoRow /\ row \in Row /\ row' = [row EXCEPT !.status = "delete_failed"]
    BY <1>1, <1>2 DEF mark_delete_failed, Mine, TypeOK
  <2>2. row' \in Row /\ row' # NoRow /\ row'.id = row.id /\ row'.status = "delete_failed"
    BY <2>1, AbsentFacts DEF Row
  <2>3. Written
    BY <1>1, <2>1, <2>2 DEF Written, TypeOK
  <2> QED BY <1>1, <2>2, <2>3, DeletionEnds DEF TaskStatus
<1>3. CASE ~ Mine
  <2>1. row' = row
    BY <1>1, <1>3 DEF mark_delete_failed
  <2>2. Written
    BY <1>1, <2>1, Unmarked
  <2>3. row' # NoRow /\ row'.status = "deleting" => row'.owner # x.t
    BY <1>1, <1>3, <2>1, OwnMark
  <2> QED BY <1>1, <2>2, <2>3, DeletionEnds DEF TaskStatus
<1> QED BY <1>2, <1>3
-----------------------------------------------------------------------------
(***************************************************************************)
(* A step that changes one task: an open task, or a cancelled one, keeps   *)
(* its id and stays one; a running task goes on.                           *)
(***************************************************************************)
LEMMA TaskStep ==
    ASSUME IInv, NEW t \in Dels \cup {0}, NEW v \in Task,
           task' \in [Dels \cup {0} -> Task], task'[t] = v,
           \A u \in Dels \cup {0} : u # t => task'[u] = task[u],
           UNCHANGED <<src, disk, db, scan, up>>, dl' = dl, x' = x,
           task[t].st = "running" => v.st = "running",
           task[t].st \in {"queued", "running", "paused", "cancelled"} =>
              v.id = task[t].id /\ v.st \in {"queued", "running", "paused", "cancelled"},
           v.id <= ids
    PROVE  IInv'
<1>1. TypeOK /\ task \in [Dels \cup {0} -> Task]
  BY DEF IInv, TypeOK
<1>2. TypeOK'
  BY <1>1 DEF TypeOK, disk, db
<1>3. task[0].st = "running" => task'[0].st = "running"
  BY <1>1
<1>4. DownloadInv'
  BY <1>3 DEF IInv, DownloadInv, NoStrayDownloader, Fetched, Verified, disk
<1>5. \A u \in Dels \cup {0} : task[u].st = "running" =>
          task'[u].st = "running" /\ task'[u].id = task[u].id
  BY <1>1
<1>6. DeletionInv'
  BY <1>5 DEF IInv, DeletionInv, UnusedAtTheCheck, Mine, db
<1>7. \A u \in Dels \cup {0} : task'[u].id <= ids
  BY DEF IInv, RecordInv
<1>8. \A u \in Dels \cup {0} : task[u].st \in {"queued", "running", "paused", "cancelled"} =>
         /\ task'[u].id = task[u].id
         /\ task'[u].st \in {"queued", "running", "paused", "cancelled"}
  BY <1>1
<1>9. DeletingHasItsTask'
  BY <1>8 DEF IInv, RecordInv, DeletingHasItsTask, db
<1>10. RecordInv'
  BY <1>7, <1>9 DEF IInv, RecordInv, Harmless, db
<1> QED BY <1>2, <1>4, <1>6, <1>10 DEF IInv

(* create_download                                                         *)
LEMMA CreateDownloadStep ==
    ASSUME IInv, create_download
    PROVE  IInv'
<1>1. /\ ~ Open(0) /\ task' = [task EXCEPT ![0].st = "queued"]
      /\ UNCHANGED <<src, disk, db, dl, x, scan, up>>
      /\ task \in [Dels \cup {0} -> Task] /\ task[0] \in Task /\ 0 \in Dels \cup {0}
      /\ task[0].id <= ids
  BY DEF create_download, IInv, TypeOK, RecordInv
<1>2. PICK v \in Task : v = [task[0] EXCEPT !.st = "queued"]
  BY <1>1 DEF Task, TaskStatus
<1>3. v.st = "queued" /\ v.id = task[0].id
  BY <1>1, <1>2 DEF Task
<1>4. task' = [task EXCEPT ![0] = v]
  BY <1>1, <1>2
<1>5. task[0].st # "running"
  BY <1>1 DEF Open
<1> QED BY <1>1, <1>3, <1>4, <1>5, TaskStep

(* delete_model: a task that was not there before takes the record's id.   *)
LEMMA DeleteModelStep ==
    ASSUME IInv, delete_model
    PROVE  IInv'
<1>1. /\ row # NoRow /\ UNCHANGED <<src, disk, db, dl, x, scan, up>>
      /\ task \in [Dels \cup {0} -> Task] /\ row \in Row /\ row.id <= ids
  BY DEF delete_model, IInv, TypeOK, RecordInv
<1>2. PICK t \in Dels : /\ task[t].st = "none"
                        /\ task' = [task EXCEPT ![t].st = "queued", ![t].id = row.id]
  BY DEF delete_model
<1>3. task[t] \in Task /\ row.id \in Nat
  BY <1>1 DEF Row
<1>4. PICK v \in Task : v = [task[t] EXCEPT !.st = "queued", !.id = row.id]
  BY <1>3 DEF Task, TaskStatus
<1>5. v.id = row.id /\ v.id <= ids
  BY <1>1, <1>3, <1>4 DEF Task
<1>6. task' = [task EXCEPT ![t] = v]
  BY <1>1, <1>2, <1>4
<1>7. /\ task' \in [Dels \cup {0} -> Task] /\ task'[t] = v /\ t \in Dels \cup {0}
      /\ \A u \in Dels \cup {0} : u # t => task'[u] = task[u]
  BY <1>1, <1>6
<1> QED BY <1>1, <1>2, <1>5, <1>7, TaskStep

(* Deploy, Undeploy: no deletion is at work.                               *)
LEMMA DeployStep ==
    ASSUME IInv, Deploy \/ Undeploy
    PROVE  IInv'
<1>1. /\ x.pc = "idle" /\ ref' \subseteq References
      /\ UNCHANGED <<src, disk, row, ids, task, dl, x, scan, up>>
  BY InitialTypes DEF Deploy, Undeploy, References, IInv, TypeOK
<1>2. TypeOK'
  BY <1>1 DEF IInv, TypeOK, disk
<1>3. DownloadInv'
  BY <1>1, DownloadSame DEF disk
<1>4. DeletionInv' /\ RecordInv'
  BY <1>1 DEF IInv, DeletionInv, RecordInv, DeletingHasItsTask, Harmless
<1> QED BY <1>2, <1>3, <1>4 DEF IInv

(* A container scan beside a running deletion leaves a late reference.     *)
LEMMA ScanContainersStep ==
    ASSUME IInv, scan_containers
    PROVE  IInv'
<1>1. /\ ref' \subseteq References /\ x \in Deletion
      /\ UNCHANGED <<src, disk, row, ids, task, dl, scan, up>>
  BY DEF scan_containers, References, IInv, TypeOK
<1>2. PICK late \in BOOLEAN : late = (x.pc \notin {"idle", "x_begin"})
  OBVIOUS
<1>3. \/ ref' = ref \cup {"found"} /\ x' = [x EXCEPT !.late = late]
      \/ ref' = ref \ {"found"} /\ x' = x
  BY <1>2 DEF scan_containers
<1>4. /\ x' \in Deletion /\ x'.pc = x.pc /\ x'.t = x.t
      /\ \/ ref' = ref \cup {"found"} /\ x'.late = late
         \/ ref' = ref \ {"found"} /\ x'.late = x.late
  BY <1>1, <1>3 DEF Deletion
<1>5. TypeOK'
  BY <1>1, <1>4 DEF IInv, TypeOK, disk
<1>6. DownloadInv'
  BY <1>1, DownloadSame DEF disk
<1>7. x.pc \notin {"idle", "x_begin"} => UnusedAtTheCheck'
  <2> SUFFICES ASSUME x.pc \notin {"idle", "x_begin"} PROVE UnusedAtTheCheck'
    OBVIOUS
  <2>1. ref = {} \/ (ref = {"found"} /\ x.late)
    BY DEF IInv, DeletionInv, UnusedAtTheCheck
  <2>2. CASE ref' = ref \cup {"found"} /\ x'.late = late
    <3>1. ref' = {"found"}
      BY <2>1, <2>2
    <3>2. x'.late
      BY <1>2, <2>2
    <3> QED BY <3>1, <3>2 DEF UnusedAtTheCheck
  <2>3. CASE ref' = ref \ {"found"}
    <3>1. ref' = {}
      BY <2>1, <2>3
    <3> QED BY <3>1 DEF UnusedAtTheCheck
  <2> QED BY <1>4, <2>2, <2>3
<1>8. DeletionInv'
  BY <1>1, <1>4, <1>7 DEF IInv, DeletionInv, UnusedAtTheCheck, Mine
<1>9. RecordInv'
  BY <1>1 DEF IInv, RecordInv, DeletingHasItsTask, Harmless
<1> QED BY <1>5, <1>6, <1>8, <1>9 DEF IInv

(* Claim                                                                   *)
LEMMA ClaimStep ==
    ASSUME IInv, NEW t \in DOMAIN task, Claim(t)
    PROVE  IInv'
<1>1. /\ up /\ task[t].st = "queued" /\ task' = [task EXCEPT ![t].st = "running"]
      /\ UNCHANGED <<src, disk, db, scan, up>> /\ TypeOK
      /\ task \in [Dels \cup {0} -> Task] /\ t \in Dels \cup {0} /\ task[t] \in Task
  BY DEF Claim, IInv, TypeOK
<1>2. PICK v \in Task : v = [task[t] EXCEPT !.st = "running"]
  BY <1>1 DEF Task, TaskStatus
<1>3. v.st = "running" /\ v.id = task[t].id
  BY <1>1, <1>2 DEF Task
<1>4. task' = [task EXCEPT ![t] = v]
  BY <1>1, <1>2
<1>5. /\ task' \in [Dels \cup {0} -> Task] /\ task'[t].st = "running"
      /\ \A u \in Dels \cup {0} : task'[u].id = task[u].id
      /\ \A u \in Dels \cup {0} : task'[u].st = task[u].st \/ task'[u].st = "running"
  BY <1>1, <1>3, <1>4
<1>6. RecordInv'
  <2>1. DeletingHasItsTask'
    BY <1>1, <1>5 DEF IInv, RecordInv, DeletingHasItsTask, db
  <2> QED BY <1>1, <1>5, <2>1 DEF IInv, RecordInv, Harmless, db
<1>7. CASE t = 0 /\ dl' = [NoDl EXCEPT !.pc = "d_begin"] /\ x' = x
  <2>1. dl' \in Download /\ dl'.pc = "d_begin"
    BY <1>7, InitialTypes DEF Download
  <2>2. TypeOK'
    BY <1>1, <1>5, <1>7, <2>1 DEF TypeOK, disk, db
  <2>3. dl.pc = "idle"
    BY <1>1, <1>7 DEF IInv, DownloadInv
  <2>4. proc' = {}
    BY <1>1, <2>3 DEF IInv, DownloadInv, NoStrayDownloader, disk
  <2>5. DownloadInv'
    BY <1>1, <1>5, <1>7, <2>1, <2>4 DEF DownloadInv, NoStrayDownloader, Fetched, Verified
  <2>6. DeletionInv'
    BY <1>1, <1>5, <1>7 DEF IInv, DeletionInv, UnusedAtTheCheck, Mine, db
  <2> QED BY <1>6, <2>2, <2>5, <2>6 DEF IInv
<1>8. CASE t # 0 /\ x' = [NoX EXCEPT !.pc = "x_begin", !.t = t] /\ dl' = dl
  <2>1. x' \in Deletion /\ x'.pc = "x_begin" /\ x'.t = t
    BY <1>1, <1>8, InitialTypes DEF Deletion
  <2>2. TypeOK'
    BY <1>1, <1>5, <1>8, <2>1 DEF TypeOK, disk, db
  <2>3. task'[0] = task[0]
    BY <1>1, <1>4, <1>8
  <2>4. DownloadInv'
    BY <1>1, <1>8, <2>3, DownloadSame DEF disk
  <2>5. DeletionInv'
    BY <1>1, <1>5, <1>8, <2>1 DEF DeletionInv
  <2> QED BY <1>6, <2>2, <2>4, <2>5 DEF IInv
<1> QED BY <1>7, <1>8 DEF Claim

(* Control                                                                 *)
LEMMA ControlStep ==
    ASSUME IInv, NEW t \in DOMAIN task, NEW c \in {"pause", "cancel"}, Control(t, c)
    PROVE  IInv'
<1>1. /\ UNCHANGED <<src, disk, db, dl, x, scan, up>>
      /\ task \in [Dels \cup {0} -> Task] /\ t \in Dels \cup {0} /\ task[t] \in Task
      /\ task[t].id <= ids
  BY DEF Control, IInv, TypeOK, RecordInv
<1>2. CASE task[t].st = "running" /\ task' = [task EXCEPT ![t].ctl = c]
  <2>1. PICK v \in Task : v = [task[t] EXCEPT !.ctl = c]
    BY <1>1 DEF Task
  <2>2. v.st = "running" /\ v.id = task[t].id
    BY <1>1, <1>2, <2>1 DEF Task
  <2>3. task' = [task EXCEPT ![t] = v]
    BY <1>1, <1>2, <2>1
  <2> QED BY <1>1, <2>2, <2>3, TaskStep
<1>3. CASE /\ task[t].st # "running"
           /\ task' = [task EXCEPT ![t].st = IF c = "cancel" THEN "cancelled" ELSE "paused"]
  <2>1. PICK st \in {"cancelled", "paused"} : st = IF c = "cancel" THEN "cancelled" ELSE "paused"
    OBVIOUS
  <2>2. PICK v \in Task : v = [task[t] EXCEPT !.st = st]
    BY <1>1 DEF Task, TaskStatus
  <2>3. v.st = st /\ v.id = task[t].id
    BY <1>1, <2>2 DEF Task
  <2>4. task' = [task EXCEPT ![t] = v]
    BY <1>1, <1>3, <2>1, <2>2
  <2> QED BY <1>1, <1>3, <2>3, <2>4, TaskStep
<1> QED BY <1>2, <1>3 DEF Control

(* Resume                                                                  *)
LEMMA ResumeStep ==
    ASSUME IInv, NEW t \in DOMAIN task, Resume(t)
    PROVE  IInv'
<1>1. /\ task[t].st \in {"paused", "failed", "cancelled"} /\ task' = Ended(t, "queued")
      /\ UNCHANGED <<src, disk, db, dl, x, scan, up>> /\ TypeOK
      /\ t \in Dels \cup {0} /\ task[t].id <= ids
  BY DEF Resume, IInv, TypeOK, RecordInv
<1>2. /\ task' \in [Dels \cup {0} -> Task] /\ task'[t].st = "queued"
      /\ task'[t].id = task[t].id
      /\ \A u \in Dels \cup {0} : u # t => task'[u] = task[u]
  BY <1>1, EndedFacts DEF TaskStatus
<1>3. PICK v \in Task : v = task'[t]
  BY <1>1, <1>2
<1> QED BY <1>1, <1>2, <1>3, TaskStep
-----------------------------------------------------------------------------
(* Crash: the handlers, the scan and aria2 are gone.                       *)
LEMMA CrashStep ==
    ASSUME IInv, Crash
    PROVE  IInv'
<1>1. /\ up' = FALSE /\ dl' = NoDl /\ x' = NoX /\ proc' = {} /\ scan' = NoScan
      /\ UNCHANGED <<src, stage, cache, db, task>>
  BY DEF Crash
<1>2. TypeOK'
  BY <1>1, InitialTypes DEF IInv, TypeOK, cache, db
<1>3. DownloadInv' /\ DeletionInv'
  BY <1>1, InitialTypes DEF DownloadInv, NoStrayDownloader, Fetched, Verified, DeletionInv
<1>4. RecordInv'
  BY <1>1, InitialTypes DEF IInv, RecordInv, DeletingHasItsTask, db
<1> QED BY <1>2, <1>3, <1>4 DEF IInv

(* Restart: the scan of the startup, and the running tasks queued again.   *)
LEMMA RestartStep ==
    ASSUME IInv, Restart
    PROVE  IInv'
<1>1. /\ ~ up /\ up' = TRUE /\ UNCHANGED <<src, disk, ref, dl, x, scan>> /\ TypeOK
      /\ task' = [t \in DOMAIN task |-> IF task[t].st = "running"
                    THEN [task[t] EXCEPT !.st = "queued", !.ctl = "none"] ELSE task[t]]
      /\ task \in [Dels \cup {0} -> Task]
  BY DEF Restart, IInv, TypeOK
<1>2. PICK d \in resolve_hf_snapshot : Write(row, Scanned(row, d))
  BY DEF Restart
<1>3. d \in {"none", "snap", "tmp"}
  BY <1>1, Resolved
<1>4. PICK r \in Row \cup {NoRow} : r = row
  BY <1>1 DEF TypeOK
<1>5. Scanned(r, d) \in Row \cup {NoRow} /\ Harmless(r, Scanned(r, d))
  BY <1>1, <1>3, ScannedFacts
<1>6. PICK now \in Row \cup {NoRow} : now = Scanned(r, d)
  BY <1>5
<1>7. Written
  BY <1>1, <1>2, <1>4, <1>5, <1>6, WriteFacts
<1>8. \A t \in Dels \cup {0} :
         /\ task'[t] \in Task /\ task'[t].id = task[t].id
         /\ task'[t].st = IF task[t].st = "running" THEN "queued" ELSE task[t].st
  <2> TAKE t \in Dels \cup {0}
  <2>1. task[t] \in Task
    BY <1>1
  <2>2. task'[t] = IF task[t].st = "running"
                   THEN [task[t] EXCEPT !.st = "queued", !.ctl = "none"] ELSE task[t]
    BY <1>1
  <2>3. CASE task[t].st = "running"
    <3>1. task'[t] = [task[t] EXCEPT !.st = "queued", !.ctl = "none"]
      BY <2>2, <2>3
    <3> QED BY <2>1, <2>3, <3>1 DEF Task, TaskStatus
  <2>4. CASE task[t].st # "running"
    BY <2>1, <2>2, <2>4
  <2> QED BY <2>3, <2>4
<1>9. task' \in [Dels \cup {0} -> Task]
  <2>1. /\ task' = [t \in Dels \cup {0} |-> task'[t]]
    BY <1>1
  <2> QED BY <1>8, <2>1
<1>10. TypeOK'
  BY <1>1, <1>7, <1>9 DEF TypeOK, Written, disk
<1>11. dl.pc = "idle" /\ x.pc = "idle" /\ proc = {}
  BY <1>1 DEF IInv, DownloadInv, DeletionInv, NoStrayDownloader
<1>12. DownloadInv' /\ DeletionInv'
  BY <1>1, <1>11 DEF DownloadInv, NoStrayDownloader, Fetched, Verified, DeletionInv, disk
<1>13. \A t \in Dels : row' # NoRow /\ row'.status = "deleting" /\ row'.owner = t =>
              task'[t].st \in {"queued", "running", "paused", "cancelled"}
  <2>1. \A t \in Dels : t # 0
    BY DelsFacts
  <2>2. \A t \in Dels : row' # NoRow /\ row'.status = "deleting" /\ row'.owner = t =>
              task[t].st \in {"queued", "running", "paused", "cancelled"}
    BY <1>7, <2>1 DEF Written, IInv, RecordInv, DeletingHasItsTask
  <2> QED BY <1>8, <2>2
<1>14. scan'.on => Harmless(scan.was, scan.now)'
  BY <1>1 DEF IInv, RecordInv, Harmless
<1>15. RecordInv'
  BY <1>7, <1>8, <1>13, <1>14, WrittenInv
<1> QED BY <1>10, <1>12, <1>15 DEF IInv
-----------------------------------------------------------------------------
(* The model is there with its record, or there is none.                   *)
LEMMA InitInv == Init => IInv
<1> SUFFICES ASSUME Init PROVE IInv
  OBVIOUS
<1>1. PICK held \in BOOLEAN :
         /\ src \in (IF held THEN {"huggingface", "local"} ELSE {"huggingface"})
         /\ dir = held /\ main = held
         /\ snap = IF held THEN [f \in Files |-> "full"] ELSE NoDir
         /\ row = IF held THEN [Plain(1) EXCEPT !.path = "snap"] ELSE NoRow
         /\ ids = IF held THEN 1 ELSE 0
  BY DEF Init
<1>2. /\ tmp = NoDir /\ stage = Empty /\ proc = {} /\ ref = {}
      /\ task = [t \in Dels \cup {0} |-> [st |-> "none", ctl |-> "none", id |-> 0]]
      /\ dl = NoDl /\ x = NoX /\ scan = NoScan /\ up = TRUE
  BY DEF Init
<1>3. /\ row # NoRow => row \in Row /\ row.id = 1 /\ ids = 1 /\ row.status = "available"
      /\ ids \in Nat
  <2>1. CASE held
    BY <1>1, <2>1 DEF Plain, Row
  <2>2. CASE ~ held
    BY <1>1, <2>2
  <2> QED BY <2>1, <2>2
<1>4. snap \in Snapshot /\ tmp \in Temporary /\ stage \in Staging
  BY <1>1, <1>2 DEF Snapshot, Temporary, Staging, Empty
<1>5. /\ task \in [Dels \cup {0} -> Task]
      /\ \A t \in Dels \cup {0} : task[t].id = 0
  BY <1>2 DEF Task
<1>6. TypeOK
  BY <1>1, <1>2, <1>3, <1>4, <1>5, InitialTypes DEF TypeOK
<1>7. DownloadInv /\ DeletionInv
  BY <1>2, InitialTypes DEF DownloadInv, NoStrayDownloader, Fetched, Verified, DeletionInv
<1>8. RecordInv
  BY <1>2, <1>3, <1>5, InitialTypes DEF RecordInv, DeletingHasItsTask
<1> QED BY <1>6, <1>7, <1>8 DEF IInv

(* Every step keeps the invariant.                                         *)
LEMMA Inductive == IInv /\ [Next]_vars => IInv'
<1> SUFFICES ASSUME IInv, [Next]_vars PROVE IInv'
  OBVIOUS
<1>1. CASE UNCHANGED vars
  BY <1>1 DEF vars, disk, db, IInv, TypeOK, DownloadInv, NoStrayDownloader, Fetched,
     Verified, DeletionInv, UnusedAtTheCheck, Mine, RecordInv, Harmless, DeletingHasItsTask
<1>2. CASE Next
  BY <1>2, HandlerStep, DeleteBeginStep, DeleteLookStep, DeleteAskStep, DeleteRemoveStep,
     DeleteDropStep, DeleteScanStep, DeleteFailStep, ScanReadStep, ScanCommitStep,
     CreateDownloadStep, DeleteModelStep, DeployStep, ScanContainersStep, ClaimStep, ControlStep, ResumeStep,
     CrashStep, RestartStep DEF Next
<1> QED BY <1>1, <1>2

(***************************************************************************)
(* In every reachable state the files, the handlers, the tasks and the     *)
(* record fit together.                                                    *)
(***************************************************************************)
THEOREM Invariance == Spec => []IInv
  BY InitInv, Inductive, PTL DEF Spec

(***************************************************************************)
(* No snapshot directory ever holds a file aria2 had not finished, for any *)
(* number of files, attempts, controls, crashes and repeated downloads.    *)
(***************************************************************************)
THEOREM SnapshotsStayWhole == Spec => []SnapshotsHoldWholeFiles
<1>1. IInv => SnapshotsHoldWholeFiles
  BY DEF IInv, TypeOK, Snapshot, Temporary, SnapshotsHoldWholeFiles, Dirs, In
<1> QED BY <1>1, Invariance, PTL

(***************************************************************************)
(* Every aria2 process is watched by a thread of the download handler.     *)
(***************************************************************************)
THEOREM DownloadersAreWatched == Spec => []NoStrayDownloader
<1>1. IInv => NoStrayDownloader
  BY DEF IInv, DownloadInv
<1> QED BY <1>1, Invariance, PTL

(***************************************************************************)
(* A record marked with a deletion's task keeps that task, and the task    *)
(* can go on or be resumed.                                                *)
(***************************************************************************)
THEOREM MarksAreOwned == Spec => []DeletingHasItsTask
<1>1. IInv => DeletingHasItsTask
  BY DEF IInv, RecordInv
<1> QED BY <1>1, Invariance, PTL

(***************************************************************************)
(* No deletion removes files under a deployment that the manager created,  *)
(* or that a container scan recorded before the run of the handler looked, *)
(* in any interleaving of requests, deployments, scans, controls and       *)
(* restarts.                                                               *)
(***************************************************************************)
THEOREM NothingInUseIsDeleted == Spec => []NoDeleteInUse
<1>1. IInv => NoDeleteInUse
  BY DEF IInv, DeletionInv, NoDeleteInUse
<1> QED BY <1>1, Invariance, PTL
=============================================================================
