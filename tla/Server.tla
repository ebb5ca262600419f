------------------------------- MODULE Server -------------------------------
(***************************************************************************)
(* server.Server: Start creates the context and the done channel and runs  *)
(* acceptAmount acceptors; each acceptor admits connections up to          *)
(* maxConnCount and waits for the ones it admitted when it returns; Stop,  *)
(* the parent context or a failing Accept end the server, and done is      *)
(* closed once everything has been waited for.  A connection being served  *)
(* (handlerTcpConn) is a HandlerManager with its owner: it ends by itself  *)
(* at any time, and it does end once the server's context is done          *)
(* (StopEnds in HandlerManager).                                           *)
(***************************************************************************)
EXTENDS Integers, FiniteSets

CONSTANTS Acceptors,  \* the acceptAmount goroutines that run accept
          Conns,      \* the connections clients open
          Stoppers,   \* goroutines that call Stop, once each
          MaxConn     \* maxConnCount; 0 is no limit

ASSUME MaxConnNat == MaxConn \in Nat
ASSUME Finite == IsFiniteSet(Acceptors) /\ IsFiniteSet(Conns)

VARIABLES
  start,      \* progress of startOnce's function; "run": Start has returned
  parent,     \* the context given to Start is done
  cancelled,  \* m.cancel() has been called
  listening,  \* m.listener is open
  isRun,      \* m.isRun
  done,       \* m.done: "nil", "open" or "closed"
  connCount,  \* m.connCount
  acc,        \* position of each acceptor in accept
  conn, by,   \* state of each connection, and the acceptor that accepted it
  stop        \* position of each Stop call, and what it returned

vars == <<start, parent, cancelled, listening, isRun, done, connCount, acc,
          conn, by, stop>>
lifeVars == <<start, parent, isRun, done, stop>>

None == "none"
CtxDone == parent \/ cancelled

Init ==
  /\ start = "idle" /\ parent = FALSE /\ cancelled = FALSE
  /\ listening = TRUE /\ isRun = FALSE /\ done = "nil" /\ connCount = 0
  /\ acc = [a \in Acceptors |-> "off"]
  /\ conn = [c \in Conns |-> "new"] /\ by = [c \in Conns |-> None]
  /\ stop = [s \in Stoppers |-> "idle"]
-----------------------------------------------------------------------------
(* Start, the goroutine it leaves behind, and Stop.                        *)

\* m.ctx, m.cancel = context.WithCancel(ctx)
StartCtx ==
  /\ start = "idle" /\ start' = "ctx"
  /\ UNCHANGED <<parent, cancelled, listening, isRun, done, connCount, acc, conn, by, stop>>

\* m.done = make(chan struct{})
StartDone ==
  /\ start = "ctx" /\ start' = "done"
  /\ done' = "open"
  /\ UNCHANGED <<parent, cancelled, listening, isRun, connCount, acc, conn, by, stop>>

\* m.setRunning(true); the acceptors and the goroutine that closes the
\* listener are started.
StartRun ==
  /\ start = "done" /\ start' = "run"
  /\ isRun' = TRUE
  /\ acc' = [a \in Acceptors |-> "accept"]
  /\ UNCHANGED <<parent, cancelled, listening, done, connCount, conn, by, stop>>

\* <-m.ctx.Done(); m.listener.Close()
WatcherClose ==
  /\ start \in {"run", "stop", "over"} /\ CtxDone /\ listening
  /\ listening' = FALSE
  /\ UNCHANGED <<lifeVars, cancelled, connCount, acc, conn, by>>

\* wg.Wait(), then stop() up to the Unlock.
StopRunning ==
  /\ start = "run" /\ start' = "stop"
  /\ \A a \in Acceptors : acc[a] = "end"
  /\ isRun' = FALSE
  /\ UNCHANGED <<parent, cancelled, listening, done, connCount, acc, conn, by, stop>>

\* close(m.done)
CloseDone ==
  /\ start = "stop" /\ start' = "over"
  /\ done' = "closed"
  /\ UNCHANGED <<parent, cancelled, listening, isRun, connCount, acc, conn, by, stop>>

\* Stop reads m.cancel without synchronisation: nil before Start's write of
\* it, the function once Start has returned, either one in between.
Stop(s) ==
  /\ stop[s] = "idle"
  /\ \/ /\ start \notin {"run", "stop", "over"}
        /\ stop' = [stop EXCEPT ![s] = "nil"]
        /\ UNCHANGED cancelled
     \/ /\ start # "idle"
        /\ stop' = [stop EXCEPT ![s] = "close"]
        /\ cancelled' = TRUE
  /\ UNCHANGED <<start, parent, listening, isRun, done, connCount, acc, conn, by>>

\* m.listener.Close(); return m.done, which may not have been made yet.
StopClose(s) ==
  /\ stop[s] = "close"
  /\ listening' = FALSE
  /\ \E r \in {"nil", "done"} :
       /\ r = "nil" => start \notin {"run", "stop", "over"}
       /\ r = "done" => done # "nil"
       /\ stop' = [stop EXCEPT ![s] = r]
  /\ UNCHANGED <<start, parent, cancelled, isRun, done, connCount, acc, conn, by>>

ParentCancel ==
  /\ ~parent /\ parent' = TRUE
  /\ UNCHANGED <<start, cancelled, listening, isRun, done, connCount, acc, conn, by, stop>>
-----------------------------------------------------------------------------
(* accept: the loop of one acceptor.                                       *)

AccGoto(a, from, to) == acc[a] = from /\ acc' = [acc EXCEPT ![a] = to]
InHand(a, c) == by[c] = a /\ conn[c] = "hand"

Accept(a, c) ==
  /\ isRun /\ listening /\ conn[c] = "new"
  /\ AccGoto(a, "accept", "count")
  /\ conn' = [conn EXCEPT ![c] = "hand"] /\ by' = [by EXCEPT ![c] = a]
  /\ UNCHANGED <<lifeVars, cancelled, listening, connCount>>

\* The listener was closed, or isRun is false.
AcceptClosed(a) ==
  /\ ~listening \/ ~isRun
  /\ AccGoto(a, "accept", "cancel")
  /\ UNCHANGED <<lifeVars, cancelled, listening, connCount, conn, by>>

\* Accept failed on an open listener: any error ends the acceptor.
AcceptFault(a) ==
  /\ isRun /\ listening
  /\ AccGoto(a, "accept", "cancel")
  /\ UNCHANGED <<lifeVars, cancelled, listening, connCount, conn, by>>

\* Mutant: the limit is off by one.
CountUpOffByOne(a) ==
  /\ connCount' = connCount + 1
  /\ AccGoto(a, "count",
       IF MaxConn > 0 /\ connCount > MaxConn THEN "reject" ELSE "spawn")
  /\ UNCHANGED <<lifeVars, cancelled, listening, conn, by>>

\* count := m.connCount.Add(1), and the test of count.
CountUp(a) ==
  /\ connCount' = connCount + 1
  /\ AccGoto(a, "count",
       IF MaxConn > 0 /\ connCount + 1 > MaxConn THEN "reject" ELSE "spawn")
  /\ UNCHANGED <<lifeVars, cancelled, listening, conn, by>>

\* Mutant: a rejected connection keeps its place in the count.
RejectUncounted(a) ==
  /\ AccGoto(a, "reject", "drop")
  /\ UNCHANGED <<lifeVars, cancelled, listening, connCount, conn, by>>

\* Mutant: the place of a rejected connection is given back twice.
RejectTwice(a) ==
  /\ connCount' = connCount - 2
  /\ AccGoto(a, "reject", "drop")
  /\ UNCHANGED <<lifeVars, cancelled, listening, conn, by>>

\* m.connCount.Add(-1)
Reject(a) ==
  /\ connCount' = connCount - 1
  /\ AccGoto(a, "reject", "drop")
  /\ UNCHANGED <<lifeVars, cancelled, listening, conn, by>>

\* conn.Close(); continue
CloseRejected(a, c) ==
  /\ InHand(a, c)
  /\ AccGoto(a, "drop", "accept")
  /\ conn' = [conn EXCEPT ![c] = "closed"]
  /\ UNCHANGED <<lifeVars, cancelled, listening, connCount, by>>

\* wg.Add(1) and the goroutine that runs handlerTcpConn.
Spawn(a, c) ==
  /\ InHand(a, c)
  /\ AccGoto(a, "spawn", "accept")
  /\ conn' = [conn EXCEPT ![c] = "serving"]
  /\ UNCHANGED <<lifeVars, cancelled, listening, connCount, by>>

Admitted(a) == {c \in Conns : by[c] = a /\ conn[c] # "closed"}

\* Mutant: the two defers of accept in the opposite order.
CancelAfterWait(a) ==
  /\ Admitted(a) = {}
  /\ AccGoto(a, "cancel", "wait")
  /\ cancelled' = TRUE
  /\ UNCHANGED <<lifeVars, listening, connCount, conn, by>>

\* The deferred m.cancel().
AcceptCancel(a) ==
  /\ AccGoto(a, "cancel", "wait")
  /\ cancelled' = TRUE
  /\ UNCHANGED <<lifeVars, listening, connCount, conn, by>>

\* Mutant: the acceptor returns without waiting for its connections.
AcceptEndEarly(a) ==
  /\ AccGoto(a, "wait", "end")
  /\ UNCHANGED <<lifeVars, cancelled, listening, connCount, conn, by>>

\* The deferred wg.Wait().
AcceptEnd(a) ==
  /\ Admitted(a) = {}
  /\ AccGoto(a, "wait", "end")
  /\ UNCHANGED <<lifeVars, cancelled, listening, connCount, conn, by>>
-----------------------------------------------------------------------------
(* The goroutine of one connection.                                        *)

ConnGoto(c, from, to) == conn[c] = from /\ conn' = [conn EXCEPT ![c] = to]

\* handlerTcpConn returned: StopWithTimeout and ConnErr are over.
HandlerReturn(c) ==
  /\ ConnGoto(c, "serving", "served")
  /\ UNCHANGED <<lifeVars, cancelled, listening, connCount, acc, by>>

\* defer m.connCount.Add(-1)
CountDown(c) ==
  /\ ConnGoto(c, "served", "closing")
  /\ connCount' = connCount - 1
  /\ UNCHANGED <<lifeVars, cancelled, listening, acc, by>>

\* defer conn.Close(), then defer wg.Done()
CloseConn(c) ==
  /\ ConnGoto(c, "closing", "closed")
  /\ UNCHANGED <<lifeVars, cancelled, listening, connCount, acc, by>>
-----------------------------------------------------------------------------
StartStep == StartCtx \/ StartDone \/ StartRun
LastStep == StopRunning \/ CloseDone
AccStep(a) ==
  \/ AcceptClosed(a) \/ CountUp(a) \/ Reject(a) \/ AcceptCancel(a) \/ AcceptEnd(a)
  \/ \E c \in Conns : CloseRejected(a, c) \/ Spawn(a, c)
ConnStep(c) == CountDown(c) \/ CloseConn(c)

Next ==
  \/ StartStep \/ WatcherClose \/ LastStep \/ ParentCancel
  \/ \E s \in Stoppers : Stop(s) \/ StopClose(s)
  \/ \E a \in Acceptors :
       AccStep(a) \/ AcceptFault(a) \/ \E c \in Conns : Accept(a, c)
  \/ \E c \in Conns : HandlerReturn(c) \/ ConnStep(c)

\* The server's goroutines run; a connection ends once its context is done.
\* Clients need not connect and nobody has to call Start or Stop.
Fairness ==
  /\ WF_vars(StartDone \/ StartRun) /\ WF_vars(WatcherClose) /\ WF_vars(LastStep)
  /\ \A s \in Stoppers : WF_vars(StopClose(s))
  /\ \A a \in Acceptors : WF_vars(AccStep(a))
  /\ \A c \in Conns : WF_vars(CtxDone /\ HandlerReturn(c)) /\ WF_vars(ConnStep(c))

Safety == Init /\ [][Next]_vars
Spec == Safety /\ Fairness
-----------------------------------------------------------------------------
TypeOK ==
  /\ start \in {"idle", "ctx", "done", "run", "stop", "over"}
  /\ done \in {"nil", "open", "closed"}
  /\ connCount \in Nat
  /\ acc \in [Acceptors -> {"off", "accept", "count", "reject", "drop", "spawn",
                            "cancel", "wait", "end"}]
  /\ conn \in [Conns -> {"new", "hand", "serving", "served", "closing", "closed"}]
  /\ by \in [Conns -> Acceptors \cup {None}]
  /\ stop \in [Stoppers -> {"idle", "close", "nil", "done"}]
  /\ parent \in BOOLEAN /\ cancelled \in BOOLEAN
  /\ listening \in BOOLEAN /\ isRun \in BOOLEAN

\* The places taken: connections counted and admitted or about to be, and
\* connections counted only to be rejected.
Served == {c \in Conns : conn[c] \in {"serving", "served"}}
Admitting == {a \in Acceptors : acc[a] = "spawn"}
Rejecting == {a \in Acceptors : acc[a] = "reject"}

\* connCount never loses or keeps a place, whatever the acceptors and the
\* ending connections do at the same time.
CountExact ==
  connCount = Cardinality(Served) + Cardinality(Admitting) + Cardinality(Rejecting)

\* WithMaxConnCount: several acceptors together never admit more connections
\* than the limit, though each adds first and looks afterwards.
LimitHeld ==
  MaxConn > 0 => Cardinality(Served) + Cardinality(Admitting) <= MaxConn

\* When done is closed everything has been waited for: no acceptor runs, every
\* connection ever accepted (rejected ones included) is closed and uncounted.
DoneMeansDrained ==
  done = "closed" =>
    /\ \A a \in Acceptors : acc[a] = "end"
    /\ \A c \in Conns : conn[c] \in {"new", "closed"}
    /\ connCount = 0

\* Whatever ends the server (Stop, also one that races with Start, the parent
\* context, or one acceptor's Accept failing), all of it ends: the listener is
\* closed, the other acceptors and all connections end, done is closed.
StopCompletes ==
  (start # "idle" /\ (CtxDone \/ \E a \in Acceptors : acc[a] = "cancel"))
    ~> (done = "closed" /\ ~listening)
=============================================================================
