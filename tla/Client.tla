------------------------------- MODULE Client -------------------------------
(***************************************************************************)
(* client.Client: Start runs one goroutine that dials, serves the          *)
(* connection until it ends, reports ConnErr, and dials again, not more    *)
(* often than once per Interval, until the context is done.  SendMsg uses  *)
(* the connection last stored in connPointer.  A connection is a           *)
(* HandlerManager with its owner, here reduced to its transport (open or   *)
(* closed) and to the messages that SendMsg gave it.  Time is the time     *)
(* since dialStartAt, counted up to Interval.                              *)
(***************************************************************************)
EXTENDS Naturals

CONSTANTS MaxGen,    \* bound on the number of dials that succeed
          Interval,  \* the least time between dials (one second), in ticks
          Calls,     \* Client.SendMsg calls by the application
          BeginCalls \* the ones made by the ConnectedBegin callback

ASSUME IntervalPositive == Interval \in Nat \ {0} /\ MaxGen \in Nat
ASSUME BeginCallsAreCalls == BeginCalls \subseteq Calls

Gens == 1 .. MaxGen   \* connections, in the order they were made

VARIABLES
  parent,      \* the context given to Start is done
  cancelled,   \* c.cancel() has been called
  pc,          \* position of the goroutine of Start
  elapsed,     \* time since dialStartAt, at most Interval
  done,        \* c.done: "nil", "open" or "closed"
  stoped,      \* c.stoped
  stop,        \* the Stop call, and what it returned
  gen,         \* number of connections made
  open,        \* the ones whose transport is open
  reported,    \* the ones ConnErr was called for
  connPointer, \* the connection in c.connPointer, 0 for nil
  call, used,  \* each SendMsg call, and the connection it loaded
  msg          \* its message there: "none", "queued" or "written"

loopVars == <<pc, elapsed, done, stoped>>
netVars == <<gen, open, reported, connPointer>>
callVars == <<call, used, msg>>
ctxVars == <<parent, cancelled, stop>>
vars == <<loopVars, netVars, callVars, ctxVars>>

CtxDone == parent \/ cancelled

Init ==
  /\ parent = FALSE /\ cancelled = FALSE /\ stop = "idle"
  /\ pc = "off" /\ elapsed = Interval /\ done = "nil" /\ stoped = FALSE
  /\ gen = 0 /\ open = {} /\ reported = {} /\ connPointer = 0
  /\ call = [c \in Calls |-> "idle"] /\ used = [c \in Calls |-> 0]
  /\ msg = [c \in Calls |-> "none"]
-----------------------------------------------------------------------------
(* Start and Stop.  lifecycleMu makes each one atomic up to cancel().      *)

Start ==
  /\ pc = "off" /\ pc' = "loop"
  /\ done' = "open" /\ stoped' = FALSE
  /\ UNCHANGED <<elapsed, netVars, callVars, ctxVars>>

\* cancel, if Start has stored it, and return c.done as it was read.
Stop ==
  /\ stop = "idle"
  /\ stop' = IF done = "nil" THEN "nil" ELSE "done"
  /\ cancelled' = (cancelled \/ done # "nil")
  /\ UNCHANGED <<loopVars, netVars, callVars, parent>>

ParentCancel ==
  /\ ~parent /\ parent' = TRUE
  /\ UNCHANGED <<loopVars, netVars, callVars, cancelled, stop>>

Tick ==
  /\ elapsed < Interval /\ elapsed' = elapsed + 1
  /\ UNCHANGED <<pc, done, stoped, netVars, callVars, ctxVars>>
-----------------------------------------------------------------------------
(* start: the loop.                                                        *)

\* case <-ctx.Done(): start returns.
LoopQuit ==
  /\ pc = "loop" /\ CtxDone /\ pc' = "cancel"
  /\ stoped' = TRUE
  /\ UNCHANGED <<elapsed, done, netVars, callVars, ctxVars>>

\* Mutant: the loop does not look at the context before it dials.
DialUnchecked ==
  /\ pc = "loop" /\ pc' = "dial"
  /\ elapsed' = 0
  /\ UNCHANGED <<done, stoped, netVars, callVars, ctxVars>>

\* default: dialStartAt = time.Now(), and DialContext is called.
Dial ==
  /\ pc = "loop" /\ ~CtxDone /\ pc' = "dial"
  /\ elapsed' = 0
  /\ UNCHANGED <<done, stoped, netVars, callVars, ctxVars>>

DialErr ==
  /\ pc = "dial" /\ pc' = "sleep"
  /\ UNCHANGED <<elapsed, done, stoped, netVars, callVars, ctxVars>>

\* DialContext returned a connection (perhaps though the context is done) and
\* NewHandlerManager started its tasks, the ConnectedBegin callback included.
DialOk ==
  /\ pc = "dial" /\ gen < MaxGen /\ pc' = "store"
  /\ gen' = gen + 1 /\ open' = open \cup {gen + 1}
  /\ UNCHANGED <<elapsed, done, stoped, reported, connPointer, callVars, ctxVars>>

\* c.connPointer.Store(handlerManager.GetConnection())
StorePointer ==
  /\ pc = "store" /\ pc' = "serve"
  /\ connPointer' = gen
  /\ UNCHANGED <<elapsed, done, stoped, gen, open, reported, callVars, ctxVars>>

\* The peer, a user or a failing loop made the HandlerManager stop itself,
\* which closes the transport.  Its owner finds out later.
ConnEnds ==
  /\ gen \in open /\ open' = open \ {gen}
  /\ UNCHANGED <<loopVars, gen, reported, connPointer, callVars, ctxVars>>

\* Mutant: the HandlerManager's context is not a child of the client's.
ConnErrDetached ==
  /\ pc = "serve" /\ gen \notin open /\ pc' = "close"
  /\ reported' = reported \cup {gen}
  /\ UNCHANGED <<elapsed, done, stoped, gen, open, connPointer, callVars, ctxVars>>

\* Mutant: ConnErr is not called for a stop from outside.
ConnErrOnFailure ==
  /\ pc = "serve" /\ (CtxDone \/ gen \notin open) /\ pc' = "close"
  /\ reported' = IF CtxDone THEN reported ELSE reported \cup {gen}
  /\ UNCHANGED <<elapsed, done, stoped, gen, open, connPointer, callVars, ctxVars>>

\* Mutant: dialAndRun leaves the connection running and does not wait for it.
RunUnawaited ==
  /\ pc = "serve" /\ pc' = "sleep"
  /\ UNCHANGED <<elapsed, done, stoped, netVars, callVars, ctxVars>>

\* Mutant: the select waits for the client's own context only.
ConnErrOnStop ==
  /\ pc = "serve" /\ CtxDone /\ pc' = "close"
  /\ reported' = reported \cup {gen}
  /\ UNCHANGED <<elapsed, done, stoped, gen, open, connPointer, callVars, ctxVars>>

\* <-handlerManager.Ctx().Done(), then StopWithTimeout and ConnErr.
ConnErr ==
  /\ pc = "serve" /\ (CtxDone \/ gen \notin open) /\ pc' = "close"
  /\ reported' = reported \cup {gen}
  /\ UNCHANGED <<elapsed, done, stoped, gen, open, connPointer, callVars, ctxVars>>

\* Mutant: no deferred conn.Close().
CloseConnSkipped ==
  /\ pc = "close" /\ pc' = "sleep"
  /\ UNCHANGED <<elapsed, done, stoped, netVars, callVars, ctxVars>>

\* defer conn.Close()
CloseConn ==
  /\ pc = "close" /\ pc' = "sleep"
  /\ open' = open \ {gen}
  /\ UNCHANGED <<elapsed, done, stoped, gen, reported, connPointer, callVars, ctxVars>>

\* SleepAtLeast(ctx, dialStartAt, time.Second) returned.  Its early return for
\* a negative elapsed time is left out: dialStartAt carries a monotonic reading.
Wake ==
  /\ pc = "sleep" /\ (elapsed = Interval \/ CtxDone) /\ pc' = "loop"
  /\ UNCHANGED <<elapsed, done, stoped, netVars, callVars, ctxVars>>

\* cancel(), after start returned.
CancelSelf ==
  /\ pc = "cancel" /\ pc' = "finish"
  /\ cancelled' = TRUE
  /\ UNCHANGED <<elapsed, done, stoped, netVars, callVars, parent, stop>>

\* defer close(done)
CloseDone ==
  /\ pc = "finish" /\ pc' = "end"
  /\ done' = "closed"
  /\ UNCHANGED <<elapsed, stoped, netVars, callVars, ctxVars>>
-----------------------------------------------------------------------------
(* sendMsgContext: load the pointer, then SendMsgContext on what it held.  *)

SendMsg(c) ==
  /\ call[c] = "idle"
  /\ c \in BeginCalls => gen > 0
  /\ used' = [used EXCEPT ![c] = connPointer]
  /\ call' = [call EXCEPT ![c] = IF connPointer = 0 THEN "ErrConn" ELSE "sending"]
  /\ UNCHANGED <<loopVars, netVars, msg, ctxVars>>

\* The message got into msgChan, perhaps though the connection has ended.
SendQueue(c) ==
  /\ call[c] = "sending" /\ msg[c] = "none"
  /\ msg' = [msg EXCEPT ![c] = "queued"]
  /\ UNCHANGED <<loopVars, netVars, call, used, ctxVars>>

\* The send loop wrote the frame, which needs an open transport; the caller
\* may have given up before.
SendWrite(c) ==
  /\ msg[c] = "queued" /\ used[c] \in open
  /\ msg' = [msg EXCEPT ![c] = "written"]
  /\ UNCHANGED <<loopVars, netVars, call, used, ctxVars>>

\* The caller finds the acknowledgement, at any time after the write.
SendOk(c) ==
  /\ call[c] = "sending" /\ msg[c] = "written"
  /\ call' = [call EXCEPT ![c] = "nil"]
  /\ UNCHANGED <<loopVars, netVars, used, msg, ctxVars>>

\* Any error: a failed write, the end of the connection or of the caller's
\* context.  The message may be queued or even written all the same.
SendErr(c) ==
  /\ call[c] = "sending"
  /\ call' = [call EXCEPT ![c] = "err"]
  /\ UNCHANGED <<loopVars, netVars, used, msg, ctxVars>>
-----------------------------------------------------------------------------
LoopStep ==
  \/ LoopQuit \/ Dial \/ StorePointer \/ ConnErr \/ CloseConn \/ Wake
  \/ CancelSelf \/ CloseDone

Next ==
  \/ Start \/ Stop \/ ParentCancel \/ Tick
  \/ LoopStep \/ DialErr \/ DialOk \/ ConnEnds
  \/ \E c \in Calls :
       SendMsg(c) \/ SendQueue(c) \/ SendWrite(c) \/ SendOk(c) \/ SendErr(c)

\* The goroutine of Start runs, time passes, and DialContext returns once its
\* context is done.  A dial may otherwise take forever, and nothing forces a
\* connection to end or anybody to call Start or Stop.
Fairness ==
  /\ WF_vars(LoopStep) /\ WF_vars(Tick)
  /\ WF_vars(CtxDone /\ (DialErr \/ DialOk))

Safety == Init /\ [][Next]_vars
Spec == Safety /\ Fairness
-----------------------------------------------------------------------------
TypeOK ==
  /\ parent \in BOOLEAN /\ cancelled \in BOOLEAN /\ stoped \in BOOLEAN
  /\ pc \in {"off", "loop", "dial", "store", "serve", "close", "sleep",
             "cancel", "finish", "end"}
  /\ elapsed \in 0 .. Interval
  /\ done \in {"nil", "open", "closed"} /\ stop \in {"idle", "nil", "done"}
  /\ gen \in 0 .. MaxGen /\ open \subseteq Gens /\ reported \subseteq Gens
  /\ connPointer \in 0 .. gen /\ gen <= connPointer + 1
  /\ call \in [Calls -> {"idle", "sending", "nil", "err", "ErrConn"}]
  /\ used \in [Calls -> 0 .. MaxGen]
  /\ msg \in [Calls -> {"none", "queued", "written"}]

\* The README's promise of at least one second between dials: it holds for
\* failing dials, for connections that end at once, and when Stop cuts the
\* sleep short (the loop must then not dial again).
DialSpacing == [][pc # "dial" /\ pc' = "dial" => elapsed = Interval]_vars

\* At most one transport is open, the newest one, and every older connection
\* was reported to ConnErr before its successor was dialled.
OneConnection ==
  /\ open \subseteq {gen}
  /\ \A g \in Gens : g < gen => g \in reported

\* connPointer outlives its connection and is stored after ConnectedBegin has
\* started, so SendMsg may hold an outdated one, and a message may be queued on
\* a connection that is over or whose caller has given up.  Such a message is
\* never written: not once the loop has moved on to the next dial, so that it
\* cannot mix with the next connection's, and not after done was closed.
WritesOnCurrent ==
  [][\A c \in Calls : msg[c] = "queued" /\ msg'[c] = "written" =>
       used[c] = gen /\ pc \in {"store", "serve", "close"}]_vars

\* When done is closed the client is gone: stopped, no transport open, and
\* ConnErr called for every connection there ever was.
DoneMeansGone ==
  done = "closed" => stoped /\ open = {} /\ reported = 1 .. gen

\* Once the context of a started client is done (Stop, or the parent), done is
\* closed, whether that came during a dial, a connection or the sleep.
StopCompletes == (done # "nil" /\ CtxDone) ~> (done = "closed")

\* A started client without an open transport dials again, until its context
\* is done: after a connection that ended while it was being served, one that
\* ended before its pointer was stored, and after a dial that failed.
Redials == (done = "open" /\ gen \notin open) ~> (pc = "dial" \/ CtxDone)
=============================================================================
