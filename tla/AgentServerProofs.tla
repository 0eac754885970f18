-------------------------- MODULE AgentServerProofs --------------------------
(***************************************************************************)
(* The safety properties of AgentServer, for every set of calls,           *)
(* connections and threads, every age limit and every deadline that fits   *)
(* in it.                                                                  *)
(***************************************************************************)
EXTENDS AgentServer, TLAPS

(* What a step keeps of the connections in use and of the calls made.      *)
ConnsKeep ==
    \A k \in Conns : conn[k].state # "none" =>
        conn'[k].state # "none" /\ conn'[k].call = conn[k].call

CallsKeep ==
    \A c \in Calls : call[c].pc # "idle" =>
        call'[c].pc # "idle" /\ call'[c].timestamp = call[c].timestamp

(* A thread the step does not run.                                         *)
LEMMA HandlerSame ==
    ASSUME NEW h \in Handlers, HandlerInv(h), ConnsKeep, handler'[h] = handler[h],
           clock' = clock
    PROVE  HandlerInv(h)'
<1>1. handler'[h].pc # "free" => /\ handler'[h].conn \in Conns
                                 /\ conn'[handler'[h].conn].state # "none"
  BY DEF HandlerInv, ConnsKeep
<1> QED BY <1>1 DEF HandlerInv

(* A connection the step does not touch.                                   *)
LEMMA ConnSame ==
    ASSUME NEW k \in Conns, ConnInv(k), CallsKeep, conn'[k] = conn[k], clock' = clock
    PROVE  ConnInv(k)'
  BY DEF ConnInv, CallsKeep

(* A nonce, where the cache and the count of its call do not change.       *)
LEMMA NonceSame ==
    ASSUME NEW c \in Calls, NonceInv(c), CallsKeep, nonces' = nonces,
           accepted'[c] = accepted[c], clock' = clock, up' = up
    PROVE  NonceInv(c)'
  BY DEF NonceInv, CallsKeep

(* The threads that wait go on waiting, and no job starts.                 *)
LEMMA AwaitedSame ==
    ASSUME ReadJobIsAwaited, \A h \in Handlers : HandlerInv(h), up' = up, ConnsKeep,
           \A c \in Calls : job'[c] = "running" => job[c] = "running",
           \A h \in Handlers : handler[h].pc = "awaiting" =>
              handler'[h].pc = "awaiting" /\ handler'[h].conn = handler[h].conn
    PROVE  ReadJobIsAwaited'
<1> SUFFICES ASSUME up, NEW c \in Calls, KindOf[c] = "read", job'[c] = "running"
             PROVE  \E h \in Handlers : handler'[h].pc = "awaiting"
                                        /\ conn'[handler'[h].conn].call = c
  BY DEF ReadJobIsAwaited
<1>1. PICK h \in Handlers : handler[h].pc = "awaiting" /\ conn[handler[h].conn].call = c
  BY DEF ReadJobIsAwaited
<1>2. handler[h].conn \in Conns /\ conn[handler[h].conn].state # "none"
  BY <1>1 DEF HandlerInv
<1>3. handler'[h].pc = "awaiting" /\ handler'[h].conn = handler[h].conn
      /\ conn'[handler[h].conn].call = c
  BY <1>1, <1>2 DEF ConnsKeep
<1> QED BY <1>3

(* The records the model starts from have their types.                     *)
LEMMA InitialTypes ==
    /\ IdleCall \in CallState /\ NoAnswer \in Answer
    /\ NoConnection \in Connection /\ FreeHandler \in Handler
<1>1. 0 \in 0..MaxTime
  BY AgentServerAssumption
<1>2. IdleCall \in CallState
  BY <1>1 DEF IdleCall, CallState, Outcome
<1>3. NoAnswer \in Answer
  BY <1>1 DEF NoAnswer, Answer
<1>4. NoConnection \in Connection
  BY <1>3 DEF NoConnection, Connection
<1>5. FreeHandler \in Handler
  BY <1>1, <1>3 DEF FreeHandler, Handler
<1> QED BY <1>2, <1>3, <1>4, <1>5
-----------------------------------------------------------------------------
(* A step of the client or of the network.                                 *)
LEMMA ClientInv ==
    ASSUME IInv, ConnsKeep, CallsKeep,
           call' \in [Calls -> CallState], conn' \in [Conns -> Connection],
           copies' \in 0..MaxCopies,
           \A k \in Conns : ConnInv(k)', AnswersAreFresh',
           UNCHANGED <<clock, handler, nonces, job, accepted, up, restarts>>
    PROVE  IInv'
<1>1. TypeOK'
  BY DEF IInv, TypeOK
<1>2. \A h \in Handlers : HandlerInv(h)'
  BY HandlerSame DEF IInv
<1>3. \A c \in Calls : NonceInv(c)'
  BY NonceSame DEF IInv
<1>4. ReadJobIsAwaited'
  BY AwaitedSame DEF IInv
<1> QED BY <1>1, <1>2, <1>3, <1>4 DEF IInv

(* A call that ends keeps its time.                                        *)
LEMMA FailFacts ==
    ASSUME TypeOK, NEW c \in Calls,
           \E outcome \in Outcome : Fail(c, outcome)
    PROVE  /\ call' \in [Calls -> CallState] /\ CallsKeep
           /\ \A d \in Calls : d # c => call'[d] = call[d]
           /\ \A outcome \in Outcome : Fail(c, outcome) => call'[c].outcome = outcome
<1>1. PICK outcome \in Outcome : Fail(c, outcome)
  OBVIOUS
<1>2. call' = [call EXCEPT ![c] = [call[c] EXCEPT !.pc = "done", !.outcome = outcome]]
  BY <1>1 DEF Fail, TypeOK, CallState
<1>3. call \in [Calls -> CallState] /\ call[c] \in CallState
  BY DEF TypeOK
<1>4. /\ [call[c] EXCEPT !.pc = "done", !.outcome = outcome] \in CallState
      /\ [call[c] EXCEPT !.pc = "done", !.outcome = outcome].pc = "done"
      /\ [call[c] EXCEPT !.pc = "done", !.outcome = outcome].timestamp = call[c].timestamp
      /\ [call[c] EXCEPT !.pc = "done", !.outcome = outcome].outcome = outcome
  BY <1>3 DEF CallState
<1>5. call' \in [Calls -> CallState] /\ CallsKeep /\ \A d \in Calls : d # c => call'[d] = call[d]
  BY <1>2, <1>3, <1>4 DEF CallsKeep
<1>6. ASSUME NEW o \in Outcome, Fail(c, o) PROVE call'[c].outcome = o
  BY <1>3, <1>6 DEF Fail, CallState
<1> QED BY <1>5, <1>6

(* Open                                                                    *)
LEMMA OpenStep ==
    ASSUME IInv, NEW c \in Calls, NEW k \in Conns, Open(c, k)
    PROVE  IInv'
<1>1. /\ TypeOK /\ call \in [Calls -> CallState] /\ conn \in [Conns -> Connection]
      /\ clock \in 0..MaxTime /\ copies' \in 0..MaxCopies
      /\ UNCHANGED <<clock, handler, nonces, job, accepted, up, restarts>>
  BY DEF Open, IInv, TypeOK
<1>2. CASE Cardinality(Queued) < Backlog
  <2> DEFINE new == [NoConnection EXCEPT !.state = "queued", !.call = c, !.client = TRUE]
             made == [IdleCall EXCEPT !.pc = "open", !.timestamp = clock]
  <2>1. /\ call[c].pc = "idle" /\ conn[k].state = "none"
        /\ conn' = [conn EXCEPT ![k] = new]
        /\ call' = [call EXCEPT ![c] = made]
    BY <1>2 DEF Open
  <2>2. new \in Connection /\ new.state = "queued" /\ new.call = c
    BY InitialTypes DEF Connection
  <2>3. made \in CallState /\ made.pc = "open" /\ made.outcome # "stale"
    BY <1>1, InitialTypes DEF CallState, IdleCall
  <2> HIDE DEF new, made
  <2>4. call' \in [Calls -> CallState] /\ conn' \in [Conns -> Connection]
    BY <1>1, <2>1, <2>2, <2>3
  <2>5. CallsKeep /\ ConnsKeep
    BY <1>1, <2>1, <2>2, <2>3 DEF CallsKeep, ConnsKeep
  <2>6. \A j \in Conns : ConnInv(j)'
    <3>1. ConnInv(k)'
      BY <1>1, <2>1, <2>2, <2>3 DEF ConnInv
    <3>2. \A j \in Conns : j # k => ConnInv(j)'
      BY <1>1, <2>1, <2>5, ConnSame DEF IInv
    <3> QED BY <3>1, <3>2
  <2>7. AnswersAreFresh'
    BY <1>1, <2>1, <2>3 DEF IInv, AnswersAreFresh
  <2> QED BY <1>1, <2>4, <2>5, <2>6, <2>7, ClientInv
<1>3. CASE ~(Cardinality(Queued) < Backlog)
  <2>1. Fail(c, "unavailable") /\ conn' = conn /\ "unavailable" \in Outcome
    BY <1>3 DEF Open, Outcome
  <2>2. /\ call' \in [Calls -> CallState] /\ CallsKeep /\ call'[c].outcome = "unavailable"
        /\ \A d \in Calls : d # c => call'[d] = call[d]
    BY <1>1, <2>1, FailFacts
  <2>3. ConnsKeep /\ \A j \in Conns : ConnInv(j)'
    BY <1>1, <2>1, <2>2, ConnSame DEF ConnsKeep, IInv
  <2>4. AnswersAreFresh'
    BY <2>2 DEF IInv, AnswersAreFresh
  <2> QED BY <1>1, <2>1, <2>2, <2>3, <2>4, ClientInv
<1> QED BY <1>2, <1>3

(* _write                                                                  *)
LEMMA WriteStep ==
    ASSUME IInv, NEW c \in Calls, NEW k \in Conns, _write(c, k)
    PROVE  IInv'
<1>1. /\ call \in [Calls -> CallState] /\ conn \in [Conns -> Connection]
      /\ copies' \in 0..MaxCopies
      /\ UNCHANGED <<clock, handler, nonces, job, accepted, up, restarts>>
  BY DEF _write, IInv, TypeOK
<1>2. /\ call[c].pc = "open" /\ conn[k].state \in {"queued", "served"}
      /\ call' = [call EXCEPT ![c].pc = "sent"] /\ conn' = [conn EXCEPT ![k].frame = TRUE]
  BY DEF _write
<1>3. /\ call' \in [Calls -> CallState] /\ call'[c].pc = "sent"
      /\ call'[c].timestamp = call[c].timestamp /\ call'[c].outcome = call[c].outcome
      /\ \A d \in Calls : d # c => call'[d] = call[d]
  BY <1>1, <1>2 DEF CallState
<1>4. /\ conn' \in [Conns -> Connection] /\ conn'[k].state = conn[k].state
      /\ conn'[k].call = conn[k].call
      /\ \A j \in Conns : j # k => conn'[j] = conn[j]
  BY <1>1, <1>2 DEF Connection
<1>5. CallsKeep /\ ConnsKeep
  BY <1>3, <1>4 DEF CallsKeep, ConnsKeep
<1>6. \A j \in Conns : ConnInv(j)'
  <2>1. ConnInv(k)'
    BY <1>2, <1>4, <1>5 DEF IInv, ConnInv, CallsKeep
  <2>2. \A j \in Conns : j # k => ConnInv(j)'
    BY <1>1, <1>4, <1>5, ConnSame DEF IInv
  <2> QED BY <2>1, <2>2
<1>7. AnswersAreFresh'
  BY <1>3 DEF IInv, AnswersAreFresh
<1> QED BY <1>1, <1>3, <1>4, <1>5, <1>6, <1>7, ClientInv

(* GiveUp                                                                  *)
LEMMA GiveUpStep ==
    ASSUME IInv, NEW c \in Calls, NEW k \in Conns, GiveUp(c, k)
    PROVE  IInv'
<1>1. /\ TypeOK /\ call \in [Calls -> CallState] /\ conn \in [Conns -> Connection]
      /\ copies' \in 0..MaxCopies
      /\ UNCHANGED <<clock, handler, nonces, job, accepted, up, restarts>>
  BY DEF GiveUp, IInv, TypeOK
<1>2. /\ Fail(c, "unavailable") /\ conn' = [conn EXCEPT ![k].client = FALSE]
      /\ "unavailable" \in Outcome
  BY DEF GiveUp, Outcome
<1>3. /\ call' \in [Calls -> CallState] /\ CallsKeep /\ call'[c].outcome = "unavailable"
      /\ \A d \in Calls : d # c => call'[d] = call[d]
  BY <1>1, <1>2, FailFacts
<1>4. /\ conn' \in [Conns -> Connection] /\ conn'[k].state = conn[k].state
      /\ conn'[k].call = conn[k].call /\ conn'[k].client = FALSE
      /\ \A j \in Conns : j # k => conn'[j] = conn[j]
  BY <1>1, <1>2 DEF Connection
<1>5. ConnsKeep
  BY <1>4 DEF ConnsKeep
<1>6. \A j \in Conns : ConnInv(j)'
  <2>1. ConnInv(k)'
    BY <1>3, <1>4 DEF IInv, ConnInv, CallsKeep
  <2>2. \A j \in Conns : j # k => ConnInv(j)'
    BY <1>1, <1>3, <1>4, ConnSame DEF IInv
  <2> QED BY <2>1, <2>2
<1>7. AnswersAreFresh'
  BY <1>3 DEF IInv, AnswersAreFresh
<1> QED BY <1>1, <1>3, <1>4, <1>5, <1>6, <1>7, ClientInv

(* Receive: the answer on an open connection is young enough.              *)
LEMMA ReceiveStep ==
    ASSUME IInv, NEW c \in Calls, NEW k \in Conns, Receive(c, k)
    PROVE  IInv'
<1> DEFINE outcome == _validate_response(c, conn[k].answer)
<1>1. /\ TypeOK /\ call \in [Calls -> CallState] /\ conn \in [Conns -> Connection]
      /\ copies' \in 0..MaxCopies
      /\ UNCHANGED <<clock, handler, nonces, job, accepted, up, restarts>>
  BY DEF Receive, IInv, TypeOK
<1>2. /\ conn[k].client /\ conn[k].state = "answered"
      /\ Fail(c, outcome)
      /\ conn' = [conn EXCEPT ![k].client = FALSE, ![k].state = "closed",
                              ![k].answer = NoAnswer]
  BY DEF Receive, ClientOf
<1>3. outcome \in Outcome /\ outcome # "stale"
  <2>1. clock <= conn[k].answer.timestamp + MaxAge
    BY <1>2 DEF IInv, ConnInv
  <2>2. clock \in Nat /\ conn[k].answer.timestamp \in Nat /\ MaxAge \in Nat
    BY <1>1, AgentServerAssumption DEF TypeOK, Connection, Answer
  <2>3. ~(clock - conn[k].answer.timestamp > MaxAge)
    BY <2>1, <2>2
  <2>4. outcome \in {"protocol_error", "result", "remote_error"}
    BY <2>3 DEF _validate_response
  <2> QED BY <2>4 DEF Outcome
<1> HIDE DEF outcome
<1>4. /\ call' \in [Calls -> CallState] /\ CallsKeep /\ call'[c].outcome = outcome
      /\ \A d \in Calls : d # c => call'[d] = call[d]
  BY <1>1, <1>2, <1>3, FailFacts
<1>5. /\ conn' \in [Conns -> Connection] /\ conn'[k].state = "closed"
      /\ conn'[k].call = conn[k].call
      /\ \A j \in Conns : j # k => conn'[j] = conn[j]
  BY <1>1, <1>2, InitialTypes DEF Connection
<1>6. ConnsKeep
  BY <1>5 DEF ConnsKeep
<1>7. \A j \in Conns : ConnInv(j)'
  <2>1. ConnInv(k)'
    BY <1>2, <1>4, <1>5 DEF IInv, ConnInv, CallsKeep
  <2>2. \A j \in Conns : j # k => ConnInv(j)'
    BY <1>1, <1>4, <1>5, ConnSame DEF IInv
  <2> QED BY <2>1, <2>2
<1>8. AnswersAreFresh'
  BY <1>3, <1>4 DEF IInv, AnswersAreFresh
<1> QED BY <1>1, <1>4, <1>5, <1>6, <1>7, <1>8, ClientInv

(* Duplicate                                                               *)
LEMMA DuplicateStep ==
    ASSUME IInv, NEW c \in Calls, NEW k \in Conns, Duplicate(c, k)
    PROVE  IInv'
<1> DEFINE new == [NoConnection EXCEPT !.state = "queued", !.call = c, !.frame = TRUE]
<1>1. /\ conn \in [Conns -> Connection] /\ call' \in [Calls -> CallState]
      /\ copies' \in 0..MaxCopies /\ call' = call
      /\ UNCHANGED <<clock, handler, nonces, job, accepted, up, restarts>>
  BY AgentServerAssumption DEF Duplicate, IInv, TypeOK
<1>2. /\ call[c].pc \in {"sent", "done"} /\ conn[k].state = "none"
      /\ conn' = [conn EXCEPT ![k] = new]
  BY DEF Duplicate
<1>3. new \in Connection /\ new.state = "queued" /\ new.call = c
  BY InitialTypes DEF Connection
<1> HIDE DEF new
<1>4. conn' \in [Conns -> Connection] /\ CallsKeep /\ ConnsKeep
  BY <1>1, <1>2, <1>3 DEF CallsKeep, ConnsKeep
<1>5. \A j \in Conns : ConnInv(j)'
  <2>1. ConnInv(k)'
    BY <1>1, <1>2, <1>3 DEF ConnInv
  <2>2. \A j \in Conns : j # k => ConnInv(j)'
    BY <1>1, <1>2, <1>4, ConnSame DEF IInv
  <2> QED BY <2>1, <2>2
<1>6. AnswersAreFresh'
  BY <1>1 DEF IInv, AnswersAreFresh
<1> QED BY <1>1, <1>4, <1>5, <1>6, ClientInv
-----------------------------------------------------------------------------
(* A step of thread h.                                                     *)
LEMMA ServerInv ==
    ASSUME IInv, NEW h \in Handlers,
           handler' \in [Handlers -> Handler],
           \A g \in Handlers : g # h => handler'[g] = handler[g],
           HandlerInv(h)',
           conn' \in [Conns -> Connection], ConnsKeep, \A k \in Conns : ConnInv(k)',
           DOMAIN nonces' \subseteq Calls, \A c \in DOMAIN nonces' : nonces'[c] \in Nat,
           accepted' \in [Calls -> Nat], \A c \in Calls : NonceInv(c)',
           job' \in [Calls -> {"none", "running", "cancelling", "terminal"}],
           ReadJobIsAwaited',
           UNCHANGED <<clock, call, up, copies, restarts>>
    PROVE  IInv'
<1>1. TypeOK'
  BY DEF IInv, TypeOK
<1>2. \A g \in Handlers : HandlerInv(g)'
  BY HandlerSame DEF IInv
<1>3. AnswersAreFresh'
  BY DEF IInv, AnswersAreFresh
<1> QED BY <1>1, <1>2, <1>3 DEF IInv

(* The same, for a step that leaves the connections and the nonces alone.  *)
LEMMA ThreadInv ==
    ASSUME IInv, NEW h \in Handlers,
           handler' \in [Handlers -> Handler],
           \A g \in Handlers : g # h => handler'[g] = handler[g],
           HandlerInv(h)',
           job' \in [Calls -> {"none", "running", "cancelling", "terminal"}],
           ReadJobIsAwaited',
           UNCHANGED <<clock, call, conn, nonces, accepted, up, copies, restarts>>
    PROVE  IInv'
<1>1. CallsKeep /\ ConnsKeep
  BY DEF CallsKeep, ConnsKeep
<1>2. \A k \in Conns : ConnInv(k)'
  BY <1>1, ConnSame DEF IInv
<1>3. \A c \in Calls : NonceInv(c)'
  BY <1>1, NonceSame DEF IInv
<1>4. /\ conn' \in [Conns -> Connection] /\ accepted' \in [Calls -> Nat]
      /\ DOMAIN nonces' \subseteq Calls /\ \A c \in DOMAIN nonces' : nonces'[c] \in Nat
  BY DEF IInv, TypeOK
<1> QED BY <1>1, <1>2, <1>3, <1>4, ServerInv

(* Respond: the thread has an answer with a time that is not too old.      *)
Answers(h) ==
    \E r \in Calls \cup {None}, ok \in BOOLEAN, stamp \in 0..MaxTime :
       Respond(h, r, ok, stamp) /\ clock <= stamp + MaxAge

(* What such an answer leaves in the thread, and that it is still fresh.   *)
LEMMA RespondFacts ==
    ASSUME TypeOK, NEW h \in Handlers, HandlerInv(h), handler[h].pc # "free", Answers(h),
           UNCHANGED <<clock, conn>>
    PROVE  /\ handler' \in [Handlers -> Handler]
           /\ \A g \in Handlers : g # h => handler'[g] = handler[g]
           /\ handler'[h].pc = "answering"
           /\ HandlerInv(h)'
<1>1. PICK r \in Calls \cup {None}, ok \in BOOLEAN, stamp \in 0..MaxTime :
         Respond(h, r, ok, stamp) /\ clock <= stamp + MaxAge
  BY DEF Answers
<1> DEFINE answer == [request_id |-> r, ok |-> ok, timestamp |-> stamp]
           new == [FreeHandler EXCEPT !.pc = "answering", !.conn = handler[h].conn,
                                      !.answer = answer]
<1>2. handler[h].conn \in Conns /\ conn[handler[h].conn].state # "none"
  BY DEF HandlerInv
<1>3. answer \in Answer /\ answer.timestamp = stamp
  BY DEF Answer
<1> HIDE DEF answer
<1>4. /\ new \in Handler /\ new.pc = "answering" /\ new.conn = handler[h].conn
      /\ new.answer = answer /\ new.now = 0
  BY <1>2, <1>3, InitialTypes DEF Handler, FreeHandler
<1>5. handler' = [handler EXCEPT ![h] = new] /\ handler \in [Handlers -> Handler]
  BY <1>1 DEF Respond, answer, TypeOK
<1> HIDE DEF new
<1>6. handler' \in [Handlers -> Handler] /\ handler'[h] = new
      /\ \A g \in Handlers : g # h => handler'[g] = handler[g]
  BY <1>4, <1>5
<1>7. 0 <= clock
  BY AgentServerAssumption DEF TypeOK
<1>8. HandlerInv(h)'
  BY <1>1, <1>2, <1>3, <1>4, <1>6, <1>7 DEF HandlerInv
<1> QED BY <1>4, <1>6, <1>8

(* Accept                                                                  *)
LEMMA AcceptStep ==
    ASSUME IInv, NEW h \in Handlers, NEW k \in Conns, Accept(h, k)
    PROVE  IInv'
<1> DEFINE new == [FreeHandler EXCEPT !.pc = "reading", !.conn = k]
<1>1. /\ handler \in [Handlers -> Handler] /\ conn \in [Conns -> Connection]
      /\ clock \in 0..MaxTime
      /\ UNCHANGED <<clock, call, nonces, job, accepted, up, copies, restarts>>
      /\ handler[h].pc = "free" /\ conn[k].state = "queued"
      /\ conn' = [conn EXCEPT ![k].state = "served"]
      /\ handler' = [handler EXCEPT ![h] = new]
  BY DEF Accept, Serving, IInv, TypeOK
<1>2. new \in Handler /\ new.pc = "reading" /\ new.conn = k /\ new.now = 0
  BY InitialTypes DEF Handler, FreeHandler
<1> HIDE DEF new
<1>3. handler' \in [Handlers -> Handler] /\ handler'[h] = new
      /\ \A g \in Handlers : g # h => handler'[g] = handler[g]
  BY <1>1, <1>2
<1>4. /\ conn' \in [Conns -> Connection] /\ conn'[k].state = "served"
      /\ conn'[k].call = conn[k].call
      /\ \A j \in Conns : j # k => conn'[j] = conn[j]
  BY <1>1 DEF Connection
<1>5. CallsKeep /\ ConnsKeep
  BY <1>1, <1>4 DEF CallsKeep, ConnsKeep
<1>6. HandlerInv(h)'
  <2>1. 0 <= clock
    BY <1>1, AgentServerAssumption
  <2> QED BY <1>1, <1>2, <1>3, <1>4, <2>1 DEF HandlerInv
<1>7. \A j \in Conns : ConnInv(j)'
  <2>1. ConnInv(k)'
    BY <1>1, <1>4 DEF IInv, ConnInv
  <2>2. \A j \in Conns : j # k => ConnInv(j)'
    BY <1>1, <1>4, <1>5, ConnSame DEF IInv
  <2> QED BY <2>1, <2>2
<1>8. \A c \in Calls : NonceInv(c)'
  BY <1>1, <1>5, NonceSame DEF IInv
<1>9. ReadJobIsAwaited'
  BY <1>1, <1>3, <1>5, AwaitedSame DEF IInv
<1>10. /\ accepted' \in [Calls -> Nat] /\ DOMAIN nonces' \subseteq Calls
       /\ \A c \in DOMAIN nonces' : nonces'[c] \in Nat
       /\ job' \in [Calls -> {"none", "running", "cancelling", "terminal"}]
  BY <1>1 DEF IInv, TypeOK
<1> QED BY <1>1, <1>3, <1>4, <1>5, <1>6, <1>7, <1>8, <1>9, <1>10, ServerInv

(* ReadFrame                                                               *)
LEMMA ReadFrameStep ==
    ASSUME IInv, NEW h \in Handlers, ReadFrame(h)
    PROVE  IInv'
<1>1. /\ handler \in [Handlers -> Handler] /\ clock \in 0..MaxTime
      /\ UNCHANGED <<clock, call, conn, nonces, job, accepted, up, copies, restarts>>
      /\ handler[h].pc = "reading"
      /\ handler' = [handler EXCEPT ![h].pc = "verifying", ![h].now = clock]
      /\ job' \in [Calls -> {"none", "running", "cancelling", "terminal"}]
  BY DEF ReadFrame, Serving, IInv, TypeOK
<1>2. /\ handler' \in [Handlers -> Handler] /\ handler'[h].pc = "verifying"
      /\ handler'[h].now = clock /\ handler'[h].conn = handler[h].conn
      /\ \A g \in Handlers : g # h => handler'[g] = handler[g]
  BY <1>1, ZenonT(60) DEF Handler
<1>3. HandlerInv(h)'
  <2>1. clock <= clock /\ clock <= clock + 1
    BY <1>1, AgentServerAssumption
  <2>2. handler[h].conn \in Conns /\ conn[handler[h].conn].state # "none"
    BY <1>1 DEF IInv, HandlerInv
  <2> QED BY <1>1, <1>2, <2>1, <2>2 DEF HandlerInv
<1>4. ReadJobIsAwaited'
  BY <1>1, <1>2, AwaitedSame DEF IInv, ConnsKeep
<1> QED BY <1>1, <1>2, <1>3, <1>4, ThreadInv

(* The present time is not older than itself.                              *)
LEMMA ClockIsFresh ==
    ASSUME TypeOK
    PROVE  clock \in 0..MaxTime /\ clock <= clock + MaxAge
  BY AgentServerAssumption DEF TypeOK

(* ReadFails                                                               *)
LEMMA ReadFailsStep ==
    ASSUME IInv, NEW h \in Handlers, ReadFails(h)
    PROVE  IInv'
<1>1. /\ TypeOK /\ HandlerInv(h) /\ handler[h].pc = "reading"
      /\ UNCHANGED <<clock, call, conn, nonces, job, accepted, up, copies, restarts>>
      /\ job' \in [Calls -> {"none", "running", "cancelling", "terminal"}]
  BY DEF ReadFails, Serving, IInv, TypeOK
<1>2. Answers(h)
  BY <1>1, ClockIsFresh DEF ReadFails, Answers
<1>3. /\ handler' \in [Handlers -> Handler] /\ HandlerInv(h)'
      /\ \A g \in Handlers : g # h => handler'[g] = handler[g]
  BY <1>1, <1>2, RespondFacts
<1>4. ReadJobIsAwaited'
  BY <1>1, <1>3, AwaitedSame DEF IInv, ConnsKeep
<1> QED BY <1>1, <1>3, <1>4, ThreadInv
-----------------------------------------------------------------------------
(* What a thread knows of its request after it took the time.              *)
LEMMA ThreadFacts ==
    ASSUME IInv, NEW h \in Handlers, handler[h].pc \in {"verifying", "dispatching", "awaiting"}
    PROVE  /\ handler[h].conn \in Conns /\ conn[handler[h].conn].call \in Calls
           /\ call[conn[handler[h].conn].call].pc # "idle"
           /\ handler[h].now \in 0..MaxTime /\ handler[h].now <= clock
           /\ clock <= handler[h].now + MaxAge
<1>1. handler[h].conn \in Conns /\ conn[handler[h].conn].state # "none"
  BY DEF IInv, HandlerInv
<1>2. conn[handler[h].conn].call \in Calls /\ call[conn[handler[h].conn].call].pc # "idle"
  BY <1>1 DEF IInv, ConnInv
<1>3. handler[h].now \in 0..MaxTime /\ handler[h].since \in 0..MaxTime /\ clock \in 0..MaxTime
  BY DEF IInv, TypeOK, Handler
<1>4. handler[h].now <= clock
  BY DEF IInv, HandlerInv
<1>5. clock <= handler[h].now + 1 + ReadTimeout
  <2>1. CASE handler[h].pc \in {"verifying", "dispatching"}
    BY <1>3, <2>1, AgentServerAssumption DEF IInv, HandlerInv
  <2>2. CASE handler[h].pc = "awaiting"
    BY <1>3, <2>2, AgentServerAssumption DEF IInv, HandlerInv
  <2> QED BY <2>1, <2>2
<1>6. clock <= handler[h].now + MaxAge
  BY <1>3, <1>5, AgentServerAssumption
<1> QED BY <1>1, <1>2, <1>3, <1>4, <1>6

(***************************************************************************)
(* Verify.  A nonce is purged only when the thread's time, and so the      *)
(* clock, has passed its expiry.                                           *)
(***************************************************************************)
LEMMA VerifyStep ==
    ASSUME IInv, NEW h \in Handlers, Verify(h)
    PROVE  IInv'
<1> DEFINE c == conn[handler[h].conn].call
           now == handler[h].now
           live == {d \in DOMAIN nonces : ~Expired(nonces[d], now)}
           fresh == call[c].timestamp >= now - MaxAge
           full == Cardinality(live) >= NonceCapacity
           expires_at == call[c].timestamp + MaxAge
<1>1. /\ TypeOK /\ HandlerInv(h) /\ handler[h].pc = "verifying"
      /\ UNCHANGED <<clock, call, conn, job, up, copies, restarts>>
      /\ job' \in [Calls -> {"none", "running", "cancelling", "terminal"}]
      /\ conn' \in [Conns -> Connection] /\ accepted \in [Calls -> Nat]
      /\ handler \in [Handlers -> Handler]
  BY DEF Verify, Serving, IInv, TypeOK
<1>2. /\ c \in Calls /\ call[c].pc # "idle" /\ now \in 0..MaxTime /\ now <= clock
      /\ clock <= now + MaxAge /\ handler[h].conn \in Conns
  BY <1>1, ThreadFacts
<1>3. /\ clock \in Nat /\ now \in Nat /\ MaxAge \in Nat
      /\ \A d \in Calls : call[d].timestamp \in Nat
      /\ DOMAIN nonces \subseteq Calls /\ \A d \in DOMAIN nonces : nonces[d] \in Nat
  BY <1>1, <1>2, AgentServerAssumption DEF TypeOK, CallState
<1>4. \/ /\ nonces' \in {nonces, [d \in live |-> nonces[d]]}
         /\ accepted' = accepted /\ Answers(h)
      \/ /\ nonces' = [d \in live \cup {c} |-> IF d = c THEN expires_at ELSE nonces[d]]
         /\ accepted' = [accepted EXCEPT ![c] = @ + 1]
         /\ handler' = [handler EXCEPT ![h].pc = "dispatching"]
  <2>1. CASE ~(fresh /\ c \notin live /\ ~full)
    <3>1. Respond(h, None, FALSE, now) /\ accepted' = accepted
      BY <2>1 DEF Verify
    <3>2. nonces' \in {nonces, [d \in live |-> nonces[d]]}
      BY <2>1 DEF Verify
    <3>3. Answers(h)
      BY <1>2, <3>1 DEF Answers
    <3> QED BY <3>1, <3>2, <3>3
  <2>2. CASE fresh /\ c \notin live /\ ~full
    BY <2>2 DEF Verify
  <2> QED BY <2>1, <2>2
<1>5. /\ handler' \in [Handlers -> Handler] /\ HandlerInv(h)'
      /\ handler'[h].pc # "awaiting"
      /\ \A g \in Handlers : g # h => handler'[g] = handler[g]
  <2>1. CASE Answers(h)
    BY <1>1, <2>1, RespondFacts
  <2>2. CASE handler' = [handler EXCEPT ![h].pc = "dispatching"]
    <3>1. /\ handler' \in [Handlers -> Handler] /\ handler'[h].pc = "dispatching"
          /\ handler'[h].now = handler[h].now /\ handler'[h].conn = handler[h].conn
          /\ \A g \in Handlers : g # h => handler'[g] = handler[g]
      BY <1>1, <2>2 DEF Handler
    <3> QED BY <1>1, <3>1 DEF HandlerInv
  <2> QED BY <1>4, <2>1, <2>2
<1>6. CallsKeep /\ ConnsKeep
  BY <1>1 DEF CallsKeep, ConnsKeep
<1>7. \A k \in Conns : ConnInv(k)'
  BY <1>1, <1>6, ConnSame DEF IInv
<1>8. ReadJobIsAwaited'
  BY <1>1, <1>5, <1>6, AwaitedSame DEF IInv
<1>9. \A d \in Calls : d \in DOMAIN nonces \ live => call[d].timestamp + MaxAge < clock
  BY <1>2, <1>3 DEF IInv, NonceInv, Expired
<1>10. \A d \in DOMAIN nonces' : d \in Calls /\ (d \in DOMAIN nonces \/ d = c)
                                 /\ nonces'[d] = call[d].timestamp + MaxAge
  <2>1. \A d \in DOMAIN nonces : d \in Calls /\ nonces[d] = call[d].timestamp + MaxAge
    BY <1>3 DEF IInv, NonceInv
  <2> QED BY <1>2, <1>4, <2>1
<1>11. accepted' \in [Calls -> Nat] /\ \A d \in Calls : d # c => accepted'[d] = accepted[d]
  BY <1>1, <1>2, <1>4
<1>12. \A d \in Calls : up /\ accepted'[d] > 0 =>
          d \in DOMAIN nonces' \/ call[d].timestamp + MaxAge < clock
  <2>1. \A d \in Calls : up /\ accepted[d] > 0 =>
          d \in DOMAIN nonces \/ call[d].timestamp + MaxAge < clock
    BY DEF IInv, NonceInv
  <2>2. live \subseteq DOMAIN nonces'
    BY <1>4
  <2>3. c \in DOMAIN nonces' \/ accepted' = accepted
    BY <1>4
  <2> HIDE DEF c, live
  <2> QED BY <1>9, <1>11, <2>1, <2>2, <2>3
<1>13. \A d \in Calls : NonceInv(d)'
  <2>1. \A d \in Calls : d \in DOMAIN nonces' \/ accepted'[d] > 0 => call[d].pc # "idle"
    BY <1>2, <1>10, <1>11 DEF IInv, NonceInv
  <2> HIDE DEF c
  <2> QED BY <1>1, <1>10, <1>12, <2>1 DEF NonceInv
<1>14. DOMAIN nonces' \subseteq Calls /\ \A d \in DOMAIN nonces' : nonces'[d] \in Nat
  BY <1>3, <1>10
<1> HIDE DEF c, now, live, fresh, full, expires_at
<1> QED BY <1>1, <1>5, <1>6, <1>7, <1>8, <1>11, <1>13, <1>14, ServerInv

(* _dispatch                                                               *)
LEMMA DispatchStep ==
    ASSUME IInv, NEW h \in Handlers, _dispatch(h)
    PROVE  IInv'
<1> DEFINE c == conn[handler[h].conn].call
<1>1. /\ TypeOK /\ HandlerInv(h) /\ handler[h].pc = "dispatching"
      /\ UNCHANGED <<clock, call, conn, nonces, accepted, up, copies, restarts>>
      /\ handler \in [Handlers -> Handler] /\ clock \in 0..MaxTime
      /\ job \in [Calls -> {"none", "running", "cancelling", "terminal"}]
  BY DEF _dispatch, Serving, IInv, TypeOK
<1>2. /\ c \in Calls /\ handler[h].now \in 0..MaxTime /\ handler[h].now <= clock
      /\ clock <= handler[h].now + MaxAge /\ handler[h].conn \in Conns
  BY <1>1, ThreadFacts
<1>3. ConnsKeep
  BY <1>1 DEF ConnsKeep
<1>4. CASE KindOf[c] \in {"query", "shell"} /\ Respond(h, c, TRUE, StampOfAnswer(h))
           /\ job' = IF KindOf[c] = "shell" THEN [job EXCEPT ![c] = "running"] ELSE job
  <2>1. Answers(h)
    BY <1>2, <1>4 DEF Answers, StampOfAnswer
  <2>2. /\ handler' \in [Handlers -> Handler] /\ HandlerInv(h)'
        /\ \A g \in Handlers : g # h => handler'[g] = handler[g]
    BY <1>1, <2>1, RespondFacts
  <2>3. /\ job' \in [Calls -> {"none", "running", "cancelling", "terminal"}]
        /\ \A d \in Calls : KindOf[d] = "read" => job'[d] = job[d]
    BY <1>1, <1>2, <1>4
  <2>4. ReadJobIsAwaited'
    <3> SUFFICES ASSUME up, NEW d \in Calls, KindOf[d] = "read", job[d] = "running"
                 PROVE  \E g \in Handlers : handler'[g].pc = "awaiting"
                                            /\ conn[handler'[g].conn].call = d
      BY <1>1, <2>3 DEF ReadJobIsAwaited
    <3>1. PICK g \in Handlers : handler[g].pc = "awaiting" /\ conn[handler[g].conn].call = d
      BY DEF IInv, ReadJobIsAwaited
    <3> QED BY <1>1, <2>2, <3>1
  <2> HIDE DEF c
  <2> QED BY <1>1, <2>2, <2>3, <2>4, ThreadInv
<1>5. CASE KindOf[c] = "read" /\ job' = [job EXCEPT ![c] = "running"]
           /\ handler' = [handler EXCEPT ![h].pc = "awaiting", ![h].since = clock]
  <2>1. /\ handler' \in [Handlers -> Handler] /\ handler'[h].pc = "awaiting"
        /\ handler'[h].since = clock /\ handler'[h].conn = handler[h].conn
        /\ handler'[h].now = handler[h].now
        /\ \A g \in Handlers : g # h => handler'[g] = handler[g]
    BY <1>1, <1>5 DEF Handler
  <2>2. HandlerInv(h)'
    <3>1. clock <= clock + ReadTimeout
      BY <1>1, AgentServerAssumption
    <3> QED BY <1>1, <2>1, <3>1 DEF HandlerInv
  <2>3. /\ job' \in [Calls -> {"none", "running", "cancelling", "terminal"}]
        /\ \A d \in Calls : d # c => job'[d] = job[d]
    BY <1>1, <1>2, <1>5
  <2>4. ReadJobIsAwaited'
    <3> SUFFICES ASSUME up, NEW d \in Calls, KindOf[d] = "read", job'[d] = "running"
                 PROVE  \E g \in Handlers : handler'[g].pc = "awaiting"
                                            /\ conn[handler'[g].conn].call = d
      BY <1>1 DEF ReadJobIsAwaited
    <3>1. CASE d = c
      BY <2>1, <3>1
    <3>2. CASE d # c
      <4>1. PICK g \in Handlers : handler[g].pc = "awaiting" /\ conn[handler[g].conn].call = d
        BY <2>3, <3>2 DEF IInv, ReadJobIsAwaited
      <4> QED BY <1>1, <2>1, <4>1
    <3> QED BY <3>1, <3>2
  <2> HIDE DEF c
  <2> QED BY <1>1, <2>1, <2>2, <2>3, <2>4, ThreadInv
<1>6. CASE Respond(h, c, FALSE, StampOfAnswer(h)) /\ job' = job
  <2>1. Answers(h)
    BY <1>2, <1>6 DEF Answers, StampOfAnswer
  <2>2. /\ handler' \in [Handlers -> Handler] /\ HandlerInv(h)'
        /\ \A g \in Handlers : g # h => handler'[g] = handler[g]
    BY <1>1, <2>1, RespondFacts
  <2>3. ReadJobIsAwaited'
    BY <1>1, <1>3, <1>6, <2>2, AwaitedSame DEF IInv
  <2> QED BY <1>1, <1>6, <2>2, <2>3, ThreadInv
<1> QED BY <1>4, <1>5, <1>6 DEF _dispatch

(* _await_read_job: a thread stops waiting only when the job it waits for  *)
(* is terminal or cancelled.                                               *)
LEMMA AwaitStep ==
    ASSUME IInv, NEW h \in Handlers, _await_read_job(h)
    PROVE  IInv'
<1> DEFINE c == conn[handler[h].conn].call
<1>1. /\ TypeOK /\ HandlerInv(h) /\ handler[h].pc = "awaiting"
      /\ UNCHANGED <<clock, call, conn, nonces, accepted, up, copies, restarts>>
      /\ job \in [Calls -> {"none", "running", "cancelling", "terminal"}]
  BY DEF _await_read_job, Serving, IInv, TypeOK
<1>2. /\ c \in Calls /\ handler[h].now \in 0..MaxTime
      /\ clock <= handler[h].now + MaxAge
  BY <1>1, ThreadFacts
<1>3. Answers(h)
  BY <1>2 DEF _await_read_job, Answers, StampOfAnswer
<1>4. /\ handler' \in [Handlers -> Handler] /\ HandlerInv(h)'
      /\ \A g \in Handlers : g # h => handler'[g] = handler[g]
  BY <1>1, <1>3, RespondFacts
<1>5. /\ job' \in [Calls -> {"none", "running", "cancelling", "terminal"}]
      /\ job'[c] # "running" /\ \A d \in Calls : d # c => job'[d] = job[d]
  BY <1>1, <1>2 DEF _await_read_job, AfterCancel
<1>6. ReadJobIsAwaited'
  <2> SUFFICES ASSUME up, NEW d \in Calls, KindOf[d] = "read", job'[d] = "running"
               PROVE  \E g \in Handlers : handler'[g].pc = "awaiting"
                                          /\ conn[handler'[g].conn].call = d
    BY <1>1 DEF ReadJobIsAwaited
  <2>1. d # c /\ job[d] = "running"
    BY <1>5
  <2>2. PICK g \in Handlers : handler[g].pc = "awaiting" /\ conn[handler[g].conn].call = d
    BY <2>1 DEF IInv, ReadJobIsAwaited
  <2> QED BY <1>4, <2>1, <2>2
<1> HIDE DEF c
<1> QED BY <1>1, <1>4, <1>5, <1>6, ThreadInv

(* _serve_one                                                              *)
LEMMA ServeOneStep ==
    ASSUME IInv, NEW h \in Handlers, _serve_one(h)
    PROVE  IInv'
<1> DEFINE k == handler[h].conn
<1>1. /\ TypeOK /\ handler[h].pc = "answering" /\ conn \in [Conns -> Connection]
      /\ UNCHANGED <<clock, call, nonces, job, accepted, up, copies, restarts>>
      /\ handler' = [handler EXCEPT ![h] = FreeHandler]
      /\ handler \in [Handlers -> Handler] /\ clock \in 0..MaxTime
      /\ conn' = IF conn[k].client
                   THEN [conn EXCEPT ![k].state = "answered", ![k].answer = handler[h].answer]
                   ELSE [conn EXCEPT ![k].state = "closed"]
  BY DEF _serve_one, Serving, IInv, TypeOK
<1>2. k \in Conns /\ conn[k].state # "none" /\ clock <= handler[h].answer.timestamp + MaxAge
  BY <1>1 DEF IInv, HandlerInv
<1>3. /\ handler' \in [Handlers -> Handler] /\ handler'[h] = FreeHandler
      /\ \A g \in Handlers : g # h => handler'[g] = handler[g]
  BY <1>1, InitialTypes
<1>4. handler[h].answer \in Answer /\ conn[k] \in Connection
  BY <1>1, <1>2 DEF Handler
<1>5. /\ conn' \in [Conns -> Connection] /\ conn'[k].call = conn[k].call
      /\ \/ conn'[k].state = "answered" /\ conn'[k].answer = handler[h].answer
         \/ conn'[k].state = "closed"
      /\ \A j \in Conns : j # k => conn'[j] = conn[j]
  <2> HIDE DEF k
  <2>1. CASE conn[k].client
    BY <1>1, <1>2, <1>4, <2>1 DEF Connection
  <2>2. CASE ~conn[k].client
    BY <1>1, <1>2, <1>4, <2>2 DEF Connection
  <2> QED BY <2>1, <2>2
<1>6. CallsKeep /\ ConnsKeep
  BY <1>1, <1>2, <1>5 DEF CallsKeep, ConnsKeep
<1>7. HandlerInv(h)'
  <2>1. FreeHandler.pc = "free" /\ FreeHandler.now = 0 /\ 0 <= clock
    BY <1>1, AgentServerAssumption DEF FreeHandler
  <2> QED BY <1>1, <1>3, <2>1 DEF HandlerInv
<1>8. \A j \in Conns : ConnInv(j)'
  <2>1. \A j \in Conns : j = k => ConnInv(j)'
    <3>1. conn[k].call \in Calls /\ call[conn[k].call].pc # "idle"
      BY <1>2 DEF IInv, ConnInv
    <3> HIDE DEF k
    <3> QED BY <1>1, <1>2, <1>5, <3>1 DEF ConnInv
  <2>2. \A j \in Conns : j # k => ConnInv(j)'
    BY <1>1, <1>5, <1>6, ConnSame DEF IInv
  <2> QED BY <2>1, <2>2
<1>9. \A c \in Calls : NonceInv(c)'
  BY <1>1, <1>6, NonceSame DEF IInv
<1>10. ReadJobIsAwaited'
  BY <1>1, <1>3, <1>6, AwaitedSame DEF IInv
<1>11. /\ accepted' \in [Calls -> Nat] /\ DOMAIN nonces' \subseteq Calls
       /\ \A c \in DOMAIN nonces' : nonces'[c] \in Nat
       /\ job' \in [Calls -> {"none", "running", "cancelling", "terminal"}]
  BY <1>1 DEF TypeOK
<1> HIDE DEF k
<1> QED BY <1>1, <1>3, <1>5, <1>6, <1>7, <1>8, <1>9, <1>10, <1>11, ServerInv
-----------------------------------------------------------------------------
(* JobEnds                                                                 *)
LEMMA JobEndsStep ==
    ASSUME IInv, NEW c \in Calls, JobEnds(c)
    PROVE  IInv'
<1>1. /\ UNCHANGED <<clock, call, conn, handler, nonces, accepted, up, copies, restarts>>
      /\ job \in [Calls -> {"none", "running", "cancelling", "terminal"}]
      /\ job' = [job EXCEPT ![c] = "terminal"]
  BY DEF JobEnds, IInv, TypeOK
<1>2. CallsKeep /\ ConnsKeep
  BY <1>1 DEF CallsKeep, ConnsKeep
<1>3. TypeOK'
  BY <1>1 DEF IInv, TypeOK
<1>4. ReadJobIsAwaited'
  BY <1>1, <1>2, AwaitedSame DEF IInv
<1>5. AnswersAreFresh'
  BY <1>1 DEF IInv, AnswersAreFresh
<1>6. /\ \A k \in Conns : ConnInv(k)'
      /\ \A h \in Handlers : HandlerInv(h)'
      /\ \A d \in Calls : NonceInv(d)'
  BY <1>1, <1>2, ConnSame, HandlerSame, NonceSame DEF IInv
<1> QED BY <1>1, <1>3, <1>4, <1>5, <1>6 DEF IInv

(***************************************************************************)
(* Tick.  Time passes only while no thread and no client has something due *)
(* this second (Urgent), which is what bounds the age of an answer.        *)
(***************************************************************************)
LEMMA TickStep ==
    ASSUME IInv, Tick
    PROVE  IInv'
<1>1. /\ UNCHANGED <<call, conn, handler, nonces, job, accepted, up, copies, restarts>>
      /\ clock' = clock + 1 /\ clock < MaxTime /\ clock \in 0..MaxTime /\ clock \in Nat
      /\ ~Urgent
  BY AgentServerAssumption DEF Tick, IInv, TypeOK
<1>2. TypeOK'
  <2>1. clock + 1 \in 0..MaxTime
    BY <1>1, AgentServerAssumption
  <2> QED BY <1>1, <2>1 DEF IInv, TypeOK
<1>3. ASSUME NEW k \in Conns PROVE ConnInv(k)'
  BY <1>1 DEF IInv, ConnInv, Urgent
<1>4. ASSUME NEW h \in Handlers PROVE HandlerInv(h)'
  <2>1. /\ handler[h].now \in Nat /\ handler[h].since \in Nat /\ MaxAge \in Nat
        /\ ReadTimeout \in Nat
    BY AgentServerAssumption DEF IInv, TypeOK, Handler
  <2>2. handler[h].now <= clock + 1
    BY <1>1, <2>1 DEF IInv, HandlerInv
  <2>3. handler[h].pc \notin {"dispatching", "answering"}
    BY <1>1 DEF Urgent
  <2>4. handler[h].pc = "verifying" => clock + 1 <= handler[h].now + 1
    BY <1>1, <2>1 DEF Urgent
  <2>5. handler[h].pc = "awaiting" => clock + 1 <= handler[h].since + ReadTimeout
    BY <1>1, <2>1 DEF Urgent, Overdue
  <2> QED BY <1>1, <2>2, <2>3, <2>4, <2>5 DEF IInv, HandlerInv
<1>5. ASSUME NEW c \in Calls PROVE NonceInv(c)'
  <2>1. call[c].timestamp \in Nat /\ MaxAge \in Nat
    BY AgentServerAssumption DEF IInv, TypeOK, CallState
  <2>2. call[c].timestamp + MaxAge < clock => call[c].timestamp + MaxAge < clock + 1
    BY <1>1, <2>1
  <2> QED BY <1>1, <2>2 DEF IInv, NonceInv
<1>6. AnswersAreFresh'
  BY <1>1 DEF IInv, AnswersAreFresh
<1>7. ReadJobIsAwaited'
  BY <1>1 DEF IInv, ReadJobIsAwaited
<1> QED BY <1>1, <1>2, <1>3, <1>4, <1>5, <1>6, <1>7 DEF IInv

(* Crash                                                                   *)
LEMMA CrashStep ==
    ASSUME IInv, Crash
    PROVE  IInv'
<1>1. /\ UNCHANGED <<clock, call, job, accepted, copies, restarts>>
      /\ up' = FALSE /\ restarts < MaxRestarts
      /\ handler' = [h \in Handlers |-> FreeHandler]
      /\ nonces' = [c \in {} |-> 0]
      /\ conn \in [Conns -> Connection] /\ clock \in 0..MaxTime
      /\ conn' = [k \in Conns |-> IF conn[k].state = "served"
                                THEN [conn[k] EXCEPT !.state = "closed"] ELSE conn[k]]
  BY DEF Crash, IInv, TypeOK
<1>2. ASSUME NEW k \in Conns
      PROVE  /\ conn'[k] \in Connection /\ conn'[k].call = conn[k].call
             /\ \/ conn'[k] = conn[k]
                \/ conn[k].state # "none" /\ conn'[k].state = "closed"
  <2>1. conn[k] \in Connection
    BY <1>1
  <2>2. CASE conn[k].state = "served"
    BY <1>1, <2>1, <2>2 DEF Connection
  <2>3. CASE conn[k].state # "served"
    BY <1>1, <2>1, <2>3
  <2> QED BY <2>2, <2>3
<1>3. TypeOK'
  <2>1. conn' \in [Conns -> Connection]
    BY <1>1, <1>2
  <2>2. handler' \in [Handlers -> Handler]
    BY <1>1, InitialTypes
  <2> QED BY <1>1, <2>1, <2>2 DEF IInv, TypeOK
<1>4. ASSUME NEW k \in Conns PROVE ConnInv(k)'
  BY <1>1, <1>2 DEF IInv, ConnInv
<1>5. ASSUME NEW h \in Handlers PROVE HandlerInv(h)'
  <2>1. handler'[h].pc = "free" /\ handler'[h].now = 0 /\ 0 <= clock
    BY <1>1, AgentServerAssumption DEF FreeHandler
  <2> QED BY <1>1, <2>1 DEF HandlerInv
<1>6. ASSUME NEW c \in Calls PROVE NonceInv(c)'
  BY <1>1 DEF IInv, NonceInv
<1>7. AnswersAreFresh' /\ ReadJobIsAwaited'
  BY <1>1 DEF IInv, AnswersAreFresh, ReadJobIsAwaited
<1> QED BY <1>1, <1>3, <1>4, <1>5, <1>6, <1>7 DEF IInv

(* Restart                                                                 *)
LEMMA RestartStep ==
    ASSUME IInv, Restart
    PROVE  IInv'
<1>1. /\ UNCHANGED <<clock, call, conn, handler, nonces, copies>>
      /\ up' = TRUE /\ restarts' = restarts + 1 /\ restarts < MaxRestarts
      /\ job' = [c \in Calls |-> IF job[c] = "none" THEN "none" ELSE "terminal"]
      /\ accepted' = [c \in Calls |-> 0]
  BY DEF Restart, IInv
<1>2. CallsKeep /\ ConnsKeep
  BY <1>1 DEF CallsKeep, ConnsKeep
<1>3. TypeOK'
  <2>1. restarts + 1 \in 0..MaxRestarts
    BY <1>1, AgentServerAssumption DEF IInv, TypeOK
  <2> QED BY <1>1, <2>1 DEF IInv, TypeOK
<1>4. /\ \A k \in Conns : ConnInv(k)'
      /\ \A h \in Handlers : HandlerInv(h)'
  BY <1>1, <1>2, ConnSame, HandlerSame DEF IInv
<1>5. ASSUME NEW c \in Calls PROVE NonceInv(c)'
  <2>1. ~(accepted'[c] > 0)
    BY <1>1
  <2> QED BY <1>1, <2>1 DEF IInv, NonceInv
<1>6. AnswersAreFresh' /\ ReadJobIsAwaited'
  BY <1>1 DEF IInv, AnswersAreFresh, ReadJobIsAwaited
<1> QED BY <1>1, <1>3, <1>4, <1>5, <1>6 DEF IInv
-----------------------------------------------------------------------------
(* The initial states satisfy the invariant.                               *)
LEMMA InitInv ==
    ASSUME Init
    PROVE  IInv
<1>1. TypeOK
  BY InitialTypes, AgentServerAssumption DEF Init, TypeOK
<1>2. \A k \in Conns : ConnInv(k)
  BY DEF Init, ConnInv, NoConnection
<1>3. \A h \in Handlers : HandlerInv(h)
  BY DEF Init, HandlerInv, FreeHandler
<1>4. \A c \in Calls : NonceInv(c)
  BY DEF Init, NonceInv
<1>5. AnswersAreFresh /\ ReadJobIsAwaited
  BY DEF Init, AnswersAreFresh, ReadJobIsAwaited, IdleCall
<1> QED BY <1>1, <1>2, <1>3, <1>4, <1>5 DEF Init, IInv

(* Every step keeps the invariant.                                         *)
LEMMA Inductive == IInv /\ [Next]_vars => IInv'
<1> SUFFICES ASSUME IInv, [Next]_vars PROVE IInv'
  OBVIOUS
<1>1. CASE UNCHANGED vars
  <2>1. CallsKeep /\ ConnsKeep
    BY <1>1 DEF vars, CallsKeep, ConnsKeep
  <2>2. TypeOK' /\ AnswersAreFresh' /\ ReadJobIsAwaited'
    BY <1>1 DEF vars, IInv, TypeOK, AnswersAreFresh, ReadJobIsAwaited
  <2>3. /\ \A k \in Conns : ConnInv(k)'
        /\ \A h \in Handlers : HandlerInv(h)'
        /\ \A c \in Calls : NonceInv(c)'
    BY <1>1, <2>1, ConnSame, HandlerSame, NonceSame DEF vars, IInv
  <2> QED BY <1>1, <2>2, <2>3 DEF vars, IInv
<1>2. ASSUME NEW c \in Calls, NEW k \in Conns,
             Open(c, k) \/ _write(c, k) \/ GiveUp(c, k) \/ Receive(c, k) \/ Duplicate(c, k)
      PROVE  IInv'
  BY <1>2, OpenStep, WriteStep, GiveUpStep, ReceiveStep, DuplicateStep
<1>3. ASSUME NEW h \in Handlers,
             \/ \E k \in Conns : Accept(h, k)
             \/ ReadFrame(h) \/ ReadFails(h) \/ Verify(h) \/ _dispatch(h)
             \/ _await_read_job(h) \/ _serve_one(h)
      PROVE  IInv'
  BY <1>3, AcceptStep, ReadFrameStep, ReadFailsStep, VerifyStep, DispatchStep, AwaitStep,
     ServeOneStep
<1>4. CASE (\E c \in Calls : JobEnds(c)) \/ Tick \/ Crash \/ Restart
  BY <1>4, JobEndsStep, TickStep, CrashStep, RestartStep
<1> QED BY <1>1, <1>2, <1>3, <1>4 DEF Next

(***************************************************************************)
(* The invariant of the agent's server: types, connections, threads, the   *)
(* nonce cache.                                                            *)
(***************************************************************************)
THEOREM Invariance == Spec => []IInv
  BY InitInv, Inductive, PTL DEF Spec

(***************************************************************************)
(* No answer is too old for the client that waits for it, whatever the     *)
(* number of threads and however long a connection was queued, as long as  *)
(* the read deadline and the second a thread may lose fit in the age.      *)
(***************************************************************************)
THEOREM AnswersStayFresh == Spec => []AnswersAreFresh
<1>1. IInv => AnswersAreFresh
  BY DEF IInv
<1> QED BY <1>1, Invariance, PTL

(***************************************************************************)
(* A read-only job never runs without a thread that will end it.           *)
(***************************************************************************)
THEOREM ReadJobsAreAwaited == Spec => []ReadJobIsAwaited
<1>1. IInv => ReadJobIsAwaited
  BY DEF IInv
<1> QED BY <1>1, Invariance, PTL

(***************************************************************************)
(* The nonce cache lets no frame be accepted twice by a thread that        *)
(* verifies with the present time, for every cache capacity and every      *)
(* number of copies.                                                       *)
(***************************************************************************)
THEOREM FramesAreAcceptedOnce == Spec => AcceptedOnce
<1> DEFINE Once == \A h \in Handlers :
                      LET c == conn[handler[h].conn].call
                      IN handler[h].pc = "verifying" /\ handler'[h].pc = "dispatching"
                         /\ handler[h].now = clock => accepted[c] = 0
<1>1. IInv /\ [Next]_vars => [Once]_vars
  <2> SUFFICES ASSUME IInv, [Next]_vars, NEW h \in Handlers,
                      handler[h].pc = "verifying", handler'[h].pc = "dispatching",
                      handler[h].now = clock
               PROVE  accepted[conn[handler[h].conn].call] = 0
    OBVIOUS
  <2> DEFINE c == conn[handler[h].conn].call
             live == {d \in DOMAIN nonces : ~Expired(nonces[d], clock)}
  <2>1. /\ c \in Calls /\ handler \in [Handlers -> Handler] /\ clock \in Nat /\ MaxAge \in Nat
        /\ call[c].timestamp \in Nat /\ accepted[c] \in Nat
    BY ThreadFacts, AgentServerAssumption DEF IInv, TypeOK, CallState
  <2>2. Verify(h)
    <3>1. handler' # handler
      OBVIOUS
    <3>2. PICK g \in Handlers :
             \/ \E k \in Conns : Accept(g, k)
             \/ ReadFrame(g) \/ ReadFails(g) \/ Verify(g) \/ _dispatch(g)
             \/ _await_read_job(g) \/ _serve_one(g)
      <4>1. ~Crash
        BY <2>1 DEF Crash, FreeHandler
      <4> QED BY <3>1, <4>1 DEF Next, vars, Open, _write, GiveUp, Receive, Duplicate, JobEnds,
                 Tick, Restart
    <3>3. \A f \in Handlers : f # g => handler'[f] = handler[f]
      BY <2>1, <3>2 DEF Accept, ReadFrame, ReadFails, Verify, _dispatch, _await_read_job,
                        _serve_one, Respond
    <3>4. g = h
      BY <3>3
    <3> QED BY <3>2, <3>4 DEF Accept, ReadFrame, ReadFails, _dispatch, _await_read_job,
                              _serve_one, Serving
  <2>3. c \notin live /\ call[c].timestamp >= clock - MaxAge
    <3>1. CASE ~(call[c].timestamp >= clock - MaxAge /\ c \notin live
                /\ ~(Cardinality(live) >= NonceCapacity))
      <4>1. Respond(h, None, FALSE, clock)
        BY <2>2, <3>1 DEF Verify
      <4>2. handler'[h].pc = "answering"
        BY <2>1, <4>1 DEF Respond, FreeHandler
      <4> QED BY <4>2
    <3> QED BY <3>1
  <2>4. up /\ NonceInv(c)
    BY <2>1, <2>2 DEF Verify, Serving, IInv
  <2>5. ~(call[c].timestamp + MaxAge < clock)
    BY <2>1, <2>3
  <2>6. c \notin DOMAIN nonces
    <3>1. ASSUME c \in DOMAIN nonces PROVE FALSE
      <4>1. nonces[c] = call[c].timestamp + MaxAge
        BY <2>4, <3>1 DEF NonceInv
      <4>2. Expired(nonces[c], clock)
        BY <2>3, <3>1
      <4> QED BY <2>5, <4>1, <4>2 DEF Expired
    <3> QED BY <3>1
  <2>7. ~(accepted[c] > 0)
    BY <2>4, <2>5, <2>6 DEF NonceInv
  <2> QED BY <2>1, <2>7
<1> QED BY <1>1, Invariance, PTL DEF Spec, AcceptedOnce
=============================================================================
