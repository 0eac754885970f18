---------------------------- MODULE AgentServer ----------------------------
(***************************************************************************)
(* The host agent's socket server and the manager's client                 *)
(* (host_agent/dgx_ops_agent/server.py, protocol.py and policy.py,         *)
(* backend/app/services/ops_agent.py).                                     *)
(*                                                                         *)
(* A call opens one connection and sends one frame, signed with the time   *)
(* it was made and a nonce of its own, so a call stands for its nonce.  A  *)
(* frame may reach the agent more than once (Duplicate).  The agent serves *)
(* a connection in one of max_connections threads: read the frame, take    *)
(* the time, verify and consume the nonce, dispatch, answer.  A read-only  *)
(* action waits for its job; a shell action only starts it.  The jobs      *)
(* themselves are module JobRunner's.                                      *)
(*                                                                         *)
(* clock counts whole seconds, as int(time.time()) does.  It may pass a    *)
(* boundary between a handler's reading of the time and its use of it;     *)
(* everything else a handler or a client does between two waits takes less *)
(* than a second (Tick).                                                   *)
(***************************************************************************)
EXTENDS Integers, FiniteSets

CONSTANTS
    Calls,          \* OpsAgentClient.call invocations
    KindOf,         \* what each call asks for
    Conns,          \* connections
    Handlers,       \* the slots of serve_forever
    None,           \* no call, no connection
    Backlog,        \* listen(16)
    MaxAge,         \* max_age of requests and _MAX_RESPONSE_AGE_SECONDS
    ReadTimeout,    \* action timeout, termination grace and completion grace
    NonceCapacity,  \* max_entries
    MaxCopies,      \* bound: frames delivered a second time
    MaxRestarts,    \* bound: restarts of the agent
    MaxTime         \* bound: the clock

(* agent.health, job.get and job.cancel; shell.execute; a read-only tool.  *)
Kind == {"query", "shell", "read"}

ASSUME AgentServerAssumption ==
    /\ KindOf \in [Calls -> Kind]
    /\ None \notin Calls \cup Conns
    /\ MaxAge \in Nat /\ ReadTimeout \in Nat
    /\ ReadTimeout + 1 <= MaxAge       \* 15 + 5 + 1 seconds against 30
    /\ Backlog \in Nat /\ NonceCapacity \in Nat \ {0}
    /\ MaxCopies \in Nat /\ MaxRestarts \in Nat /\ MaxTime \in Nat

VARIABLES
    clock,
    call,      \* the client's side of each call
    conn,      \* the connections
    handler,   \* the server's threads
    nonces,    \* NonceCache._entries: call -> expires_at
    job,       \* the job each call started last
    accepted,  \* how often this agent process accepted a call (history)
    up, copies, restarts

vars == <<clock, call, conn, handler, nonces, job, accepted, up, copies, restarts>>

(* What the client makes of the answer: a result, a remote error, a        *)
(* protocol error (stale if the age was the reason), or no answer.         *)
Outcome == {"result", "remote_error", "protocol_error", "stale", "unavailable"}

CallState == [pc : {"idle", "open", "sent", "done"}, timestamp : 0..MaxTime,
              outcome : Outcome]

IdleCall == [pc |-> "idle", timestamp |-> 0, outcome |-> "unavailable"]

(* _response: request_id is None in answers to frames not verified.        *)
Answer == [request_id : Calls \cup {None}, ok : BOOLEAN, timestamp : 0..MaxTime]

NoAnswer == [request_id |-> None, ok |-> FALSE, timestamp |-> 0]

Connection == [state : {"none", "queued", "served", "answered", "closed"},
               call : Calls \cup {None},
               client : BOOLEAN,       \* the client still waits on it
               frame : BOOLEAN,        \* the whole frame was written
               answer : Answer]

NoConnection == [state |-> "none", call |-> None, client |-> FALSE, frame |-> FALSE,
                 answer |-> NoAnswer]

Handler == [pc : {"free", "reading", "verifying", "dispatching", "awaiting", "answering"},
            conn : Conns \cup {None}, now : 0..MaxTime, since : 0..MaxTime, answer : Answer]

FreeHandler == [pc |-> "free", conn |-> None, now |-> 0, since |-> 0, answer |-> NoAnswer]

TypeOK ==
    /\ clock \in 0..MaxTime
    /\ call \in [Calls -> CallState]
    /\ conn \in [Conns -> Connection]
    /\ handler \in [Handlers -> Handler]
    /\ DOMAIN nonces \subseteq Calls
    /\ \A c \in DOMAIN nonces : nonces[c] \in Nat
    /\ job \in [Calls -> {"none", "running", "cancelling", "terminal"}]
    /\ accepted \in [Calls -> Nat]
    /\ up \in BOOLEAN
    /\ copies \in 0..MaxCopies
    /\ restarts \in 0..MaxRestarts

Init ==
    /\ clock = 0
    /\ call = [c \in Calls |-> IdleCall]
    /\ conn = [k \in Conns |-> NoConnection]
    /\ handler = [h \in Handlers |-> FreeHandler]
    /\ nonces = [c \in {} |-> 0]
    /\ job = [c \in Calls |-> "none"]
    /\ accepted = [c \in Calls |-> 0]
    /\ up = TRUE
    /\ copies = 0
    /\ restarts = 0
-----------------------------------------------------------------------------
(* The client.                                                             *)
Queued == {k \in Conns : conn[k].state = "queued"}

Fail(c, outcome) == call' = [call EXCEPT ![c].pc = "done", ![c].outcome = outcome]

(* call and _open_connection: new_request stamps the request first.        *)
Open(c, k) ==
    /\ call[c].pc = "idle"
    /\ IF Cardinality(Queued) < Backlog
       THEN /\ conn[k].state = "none"
            /\ conn' = [conn EXCEPT ![k] = [NoConnection EXCEPT !.state = "queued", !.call = c,
                                                                !.client = TRUE]]
            /\ call' = [call EXCEPT ![c] = [IdleCall EXCEPT !.pc = "open", !.timestamp = clock]]
       ELSE Fail(c, "unavailable") /\ UNCHANGED conn
    /\ UNCHANGED <<clock, handler, nonces, job, accepted, up, copies, restarts>>

ClientOf(k, c) == conn[k].client /\ conn[k].call = c

_write(c, k) ==
    /\ call[c].pc = "open" /\ ClientOf(k, c) /\ conn[k].state \in {"queued", "served"}
    /\ call' = [call EXCEPT ![c].pc = "sent"]
    /\ conn' = [conn EXCEPT ![k].frame = TRUE]
    /\ UNCHANGED <<clock, handler, nonces, job, accepted, up, copies, restarts>>

(* The deadline, or the connection is lost: OpsAgentUnavailable.           *)
GiveUp(c, k) ==
    /\ call[c].pc \in {"open", "sent"} /\ ClientOf(k, c)
    /\ conn[k].state # "answered"
    /\ Fail(c, "unavailable")
    /\ conn' = [conn EXCEPT ![k].client = FALSE]
    /\ UNCHANGED <<clock, handler, nonces, job, accepted, up, copies, restarts>>

(* _read and _validate_response.                                           *)
_validate_response(c, answer) ==
    CASE answer.request_id # c -> "protocol_error"
      [] answer.request_id = c /\ clock - answer.timestamp > MaxAge -> "stale"
      [] OTHER -> IF answer.ok THEN "result" ELSE "remote_error"

Receive(c, k) ==
    /\ call[c].pc \in {"open", "sent"} /\ ClientOf(k, c) /\ conn[k].state = "answered"
    /\ Fail(c, _validate_response(c, conn[k].answer))
    /\ conn' = [conn EXCEPT ![k].client = FALSE, ![k].state = "closed", ![k].answer = NoAnswer]
    /\ UNCHANGED <<clock, handler, nonces, job, accepted, up, copies, restarts>>

(* A frame that was sent reaches the agent again.                          *)
Duplicate(c, k) ==
    /\ copies < MaxCopies
    /\ call[c].pc \in {"sent", "done"} /\ \E j \in Conns : conn[j].call = c /\ conn[j].frame
    /\ conn[k].state = "none"
    /\ conn' = [conn EXCEPT ![k] = [NoConnection EXCEPT !.state = "queued", !.call = c,
                                                        !.frame = TRUE]]
    /\ copies' = copies + 1
    /\ UNCHANGED <<clock, call, handler, nonces, job, accepted, up, restarts>>
-----------------------------------------------------------------------------
(* The server's threads.                                                   *)
Serving(h, pc) == up /\ handler[h].pc = pc

Respond(h, request_id, ok, stamp) ==
    handler' = [handler EXCEPT ![h] = [FreeHandler EXCEPT !.pc = "answering",
                   !.conn = handler[h].conn,
                   !.answer = [request_id |-> request_id, ok |-> ok, timestamp |-> stamp]]]

(* serve_forever: a slot, then accept.                                     *)
Accept(h, k) ==
    /\ Serving(h, "free") /\ conn[k].state = "queued"
    /\ conn' = [conn EXCEPT ![k].state = "served"]
    /\ handler' = [handler EXCEPT ![h] = [FreeHandler EXCEPT !.pc = "reading", !.conn = k]]
    /\ UNCHANGED <<clock, call, nonces, job, accepted, up, copies, restarts>>

(* serve_connection: read_frame; handle reads the clock.                   *)
ReadFrame(h) ==
    /\ Serving(h, "reading") /\ conn[handler[h].conn].frame
    /\ handler' = [handler EXCEPT ![h].pc = "verifying", ![h].now = clock]
    /\ UNCHANGED <<clock, call, conn, nonces, job, accepted, up, copies, restarts>>

(* read_timeout, a closed connection or an invalid frame.                  *)
ReadFails(h) ==
    /\ Serving(h, "reading") /\ ~conn[handler[h].conn].frame
    /\ Respond(h, None, FALSE, clock)
    /\ UNCHANGED <<clock, call, conn, nonces, job, accepted, up, copies, restarts>>

ExpiresEarly(expires_at, now) == expires_at <= now   \* mutant: one second too early

Expired(expires_at, now) == expires_at < now

(***************************************************************************)
(* verify_message and NonceCache.consume, under its lock, both with the    *)
(* time handle read.                                                       *)
(***************************************************************************)
Verify(h) ==
    LET c == conn[handler[h].conn].call
        now == handler[h].now
        live == {d \in DOMAIN nonces : ~Expired(nonces[d], now)}
        full == Cardinality(live) >= NonceCapacity
        fresh == call[c].timestamp >= now - MaxAge
    IN /\ Serving(h, "verifying")
       /\ nonces' = IF ~fresh THEN nonces
                    ELSE IF c \in live \/ full
                    THEN [d \in live |-> nonces[d]]
                    ELSE [d \in live \cup {c} |->
                            IF d = c THEN call[c].timestamp + MaxAge ELSE nonces[d]]
       /\ IF fresh /\ c \notin live /\ ~full
          THEN /\ accepted' = [accepted EXCEPT ![c] = @ + 1]
               /\ handler' = [handler EXCEPT ![h].pc = "dispatching"]
          ELSE Respond(h, None, FALSE, now) /\ UNCHANGED accepted
       /\ UNCHANGED <<clock, call, conn, job, up, copies, restarts>>

StampOfRequest(h) == call[conn[handler[h].conn].call].timestamp    \* mutant

StampOfAnswer(h) == handler[h].now

(***************************************************************************)
(* _dispatch: job.get, job.cancel, agent.health; a shell job or a read job *)
(* that JobRunner.start started; or a rejection (unknown action, policy,   *)
(* missing approval, job not found, failed start).                         *)
(***************************************************************************)
_dispatch(h) ==
    LET c == conn[handler[h].conn].call
    IN /\ Serving(h, "dispatching")
       /\ \/ /\ KindOf[c] \in {"query", "shell"}
             /\ job' = IF KindOf[c] = "shell" THEN [job EXCEPT ![c] = "running"] ELSE job
             /\ Respond(h, c, TRUE, StampOfAnswer(h))
          \/ /\ KindOf[c] = "read"
             /\ job' = [job EXCEPT ![c] = "running"]
             /\ handler' = [handler EXCEPT ![h].pc = "awaiting", ![h].since = clock]
          \/ /\ Respond(h, c, FALSE, StampOfAnswer(h))
             /\ UNCHANGED job
       /\ UNCHANGED <<clock, call, conn, nonces, accepted, up, copies, restarts>>

Overdue(h) == handler[h].pc = "awaiting" /\ clock >= handler[h].since + ReadTimeout

LeavesJob(state) == state                            \* mutant: answers without cancelling

AfterCancel(state) == IF state = "terminal" THEN "terminal" ELSE "cancelling"

(* _await_read_job polls the job, and cancels it at the deadline.          *)
_await_read_job(h) ==
    LET c == conn[handler[h].conn].call
    IN /\ Serving(h, "awaiting")
       /\ \/ /\ job[c] = "terminal"
             /\ Respond(h, c, TRUE, StampOfAnswer(h))
             /\ UNCHANGED job
          \/ /\ job[c] # "terminal" /\ Overdue(h)
             /\ job' = [job EXCEPT ![c] = AfterCancel(@)]
             /\ Respond(h, c, FALSE, StampOfAnswer(h))      \* operation_timeout
       /\ UNCHANGED <<clock, call, conn, nonces, accepted, up, copies, restarts>>

(* write_frame, close, release the slot.                                   *)
_serve_one(h) ==
    LET k == handler[h].conn
    IN /\ Serving(h, "answering")
       /\ conn' = IF conn[k].client
                   THEN [conn EXCEPT ![k].state = "answered", ![k].answer = handler[h].answer]
                   ELSE [conn EXCEPT ![k].state = "closed"]
       /\ handler' = [handler EXCEPT ![h] = FreeHandler]
       /\ UNCHANGED <<clock, call, nonces, job, accepted, up, copies, restarts>>
-----------------------------------------------------------------------------
(* The job runner ends a job, on its own or after a cancel.                *)
JobEnds(c) ==
    /\ job[c] \in {"running", "cancelling"}
    /\ job' = [job EXCEPT ![c] = "terminal"]
    /\ UNCHANGED <<clock, call, conn, handler, nonces, accepted, up, copies, restarts>>

Urgent ==
    \/ \E h \in Handlers : \/ handler[h].pc \in {"dispatching", "answering"}
                           \/ handler[h].pc = "verifying" /\ clock > handler[h].now
                           \/ Overdue(h)
                           \/ handler[h].pc = "awaiting"
                              /\ job[conn[handler[h].conn].call] = "terminal"
    \/ \E k \in Conns : conn[k].state = "answered" /\ conn[k].client

Tick ==
    /\ clock < MaxTime /\ ~Urgent
    /\ clock' = clock + 1
    /\ UNCHANGED <<call, conn, handler, nonces, job, accepted, up, copies, restarts>>

(* The agent dies with the connections it accepted; the listener belongs   *)
(* to systemd, so those in the backlog wait for the next agent.  Recovery  *)
(* (module JobRunner) ends what was running.                               *)
Crash ==
    /\ up /\ restarts < MaxRestarts
    /\ up' = FALSE
    /\ handler' = [h \in Handlers |-> FreeHandler]
    /\ nonces' = [c \in {} |-> 0]
    /\ conn' = [k \in Conns |-> IF conn[k].state = "served"
                                THEN [conn[k] EXCEPT !.state = "closed"] ELSE conn[k]]
    /\ UNCHANGED <<clock, call, job, accepted, copies, restarts>>

Restart ==
    /\ ~up
    /\ up' = TRUE
    /\ restarts' = restarts + 1
    /\ job' = [c \in Calls |-> IF job[c] = "none" THEN "none" ELSE "terminal"]
    /\ accepted' = [c \in Calls |-> 0]
    /\ UNCHANGED <<clock, call, conn, handler, nonces, copies>>

Next ==
    \/ \E c \in Calls, k \in Conns :
          \/ Open(c, k) \/ _write(c, k) \/ GiveUp(c, k) \/ Receive(c, k) \/ Duplicate(c, k)
    \/ \E h \in Handlers :
          \/ \E k \in Conns : Accept(h, k)
          \/ ReadFrame(h) \/ ReadFails(h) \/ Verify(h) \/ _dispatch(h)
          \/ _await_read_job(h) \/ _serve_one(h)
    \/ \E c \in Calls : JobEnds(c)
    \/ Tick \/ Crash \/ Restart

Spec == Init /\ [][Next]_vars
-----------------------------------------------------------------------------
(***************************************************************************)
(* A handler that verifies with the present time never accepts a frame     *)
(* this agent process accepted before: a nonce is forgotten only when its  *)
(* frame is too old to be accepted.  (A handler delayed across a second    *)
(* boundary compares with a time older than the one another handler purged *)
(* the cache with, and a restart empties the cache.)                       *)
(***************************************************************************)
AcceptedOnce ==
    [][\A h \in Handlers :
         LET c == conn[handler[h].conn].call
         IN handler[h].pc = "verifying" /\ handler'[h].pc = "dispatching"
            /\ handler[h].now = clock => accepted[c] = 0]_vars

(***************************************************************************)
(* No answer of the agent is rejected for its age, however long the        *)
(* connection waited for a slot and the read job ran: the answer carries   *)
(* the time its handler began, and the server's deadline for a read job    *)
(* fits in the age the client accepts.                                     *)
(***************************************************************************)
AnswersAreFresh == \A c \in Calls : call[c].outcome # "stale"

(***************************************************************************)
(* A read-only job has a handler that waits for it, or is over, or was     *)
(* cancelled: neither a client that went away nor the server's deadline    *)
(* leaves one running.                                                     *)
(***************************************************************************)
ReadJobIsAwaited ==
    up => \A c \in Calls : KindOf[c] = "read" /\ job[c] = "running"
            => \E h \in Handlers : handler[h].pc = "awaiting" /\ conn[handler[h].conn].call = c
-----------------------------------------------------------------------------
(***************************************************************************)
(* The invariant behind the three properties, in three parts.              *)
(***************************************************************************)

(* A connection is of a call that was made, and an answer the client has   *)
(* not read yet is not too old for it.                                     *)
ConnInv(k) ==
    /\ conn[k].state # "none" => conn[k].call \in Calls /\ call[conn[k].call].pc # "idle"
    /\ conn[k].state = "answered" /\ conn[k].client => clock <= conn[k].answer.timestamp + MaxAge

(* A thread has a connection, and the time since it read the clock is      *)
(* bounded by where it is.                                                 *)
HandlerInv(h) ==
    /\ handler[h].pc # "free" => /\ handler[h].conn \in Conns
                                 /\ conn[handler[h].conn].state # "none"
    /\ handler[h].now <= clock
    /\ handler[h].pc \in {"verifying", "dispatching"} => clock <= handler[h].now + 1
    /\ handler[h].pc = "awaiting" => /\ handler[h].since <= handler[h].now + 1
                                     /\ clock <= handler[h].since + ReadTimeout
    /\ handler[h].pc = "answering" => clock <= handler[h].answer.timestamp + MaxAge

(* The cache has the nonce of every call accepted, with the time its frame *)
(* becomes too old, until the clock has passed that time.                  *)
NonceInv(c) ==
    /\ c \in DOMAIN nonces => nonces[c] = call[c].timestamp + MaxAge
    /\ c \in DOMAIN nonces \/ accepted[c] > 0 => call[c].pc # "idle"
    /\ up /\ accepted[c] > 0 => c \in DOMAIN nonces \/ call[c].timestamp + MaxAge < clock

IInv ==
    /\ TypeOK
    /\ \A k \in Conns : ConnInv(k)
    /\ \A h \in Handlers : HandlerInv(h)
    /\ \A c \in Calls : NonceInv(c)
    /\ AnswersAreFresh
    /\ ReadJobIsAwaited
    /\ ~up => restarts < MaxRestarts
=============================================================================
