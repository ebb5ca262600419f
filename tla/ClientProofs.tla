---------------------------- MODULE ClientProofs ----------------------------
(***************************************************************************)
(* The safety properties of Client, for every number of reconnections, any *)
(* dial interval and any number of SendMsg calls.  The inductive invariant *)
(* says, for each position of the loop, which transport may be open, which *)
(* connections have been reported, and why the loop is where it is.        *)
(***************************************************************************)
EXTENDS Client, TLAPS

\* The loop is between two connections.
Between == {"off", "loop", "dial", "sleep", "cancel", "finish", "end"}

\* Only the newest connection can be open, not even that one between two
\* connections, and exactly the connections that are over have been reported.
Reports ==
  /\ open \subseteq {gen}
  /\ pc \in Between => open = {}
  /\ pc \in Between \cup {"close"} => reported = 1 .. gen
  /\ pc \in {"store", "serve"} => gen > 0 /\ reported = 1 .. gen - 1

\* The way out of the loop sets stoped before it closes done.
Leaving ==
  /\ pc = "off" <=> done = "nil"
  /\ pc = "end" <=> done = "closed"
  /\ pc \in {"cancel", "finish", "end"} => stoped

\* The loop is at its top only when the interval has passed or the context,
\* which stays done, does not let it dial.
Spaced ==
  /\ pc = "off" => elapsed = Interval
  /\ pc = "loop" => elapsed = Interval \/ CtxDone

\* connPointer names the newest connection except while it is being stored.
Pointer == gen = IF pc = "store" THEN connPointer + 1 ELSE connPointer

\* TypeOK without the Boolean variables and without what Pointer says.
Control ==
  /\ pc \in {"off", "loop", "dial", "store", "serve", "close", "sleep",
             "cancel", "finish", "end"}
  /\ elapsed \in 0 .. Interval
  /\ done \in {"nil", "open", "closed"} /\ stop \in {"idle", "nil", "done"}
  /\ gen \in 0 .. MaxGen /\ open \subseteq Gens /\ reported \subseteq Gens
  /\ connPointer \in 0 .. MaxGen
  /\ call \in [Calls -> {"idle", "sending", "nil", "err", "ErrConn"}]
  /\ used \in [Calls -> 0 .. MaxGen]
  /\ msg \in [Calls -> {"none", "queued", "written"}]

Flags == parent \in BOOLEAN /\ cancelled \in BOOLEAN /\ stoped \in BOOLEAN

IInv == Control /\ Flags /\ Reports /\ Leaving /\ Spaced /\ Pointer
-----------------------------------------------------------------------------
LEMMA InitInv == Init => IInv
<1> SUFFICES ASSUME Init PROVE IInv
  OBVIOUS
<1> USE IntervalPositive DEF Init
<1>1. Control
  BY DEF Control, Gens
<1>2. Flags
  BY DEF Flags
<1>3. Reports /\ Leaving /\ Spaced /\ Pointer
  BY DEF Reports, Leaving, Spaced, Pointer, Between
<1> QED BY <1>1, <1>2, <1>3 DEF IInv

\* Every step of the loop, of the callers, of the peer and of time.
LEMMA NextInv == IInv /\ [Next]_vars => IInv'
<1> SUFFICES ASSUME IInv, [Next]_vars PROVE IInv'
  OBVIOUS
<1> USE IntervalPositive DEF IInv
<1> USE DEF loopVars, netVars, callVars, ctxVars
<1>1. CASE Start \/ Stop \/ ParentCancel \/ Tick
  <2> USE <1>1 DEF Start, Stop, ParentCancel, Tick
  <2>1. Control'
    BY DEF Control
  <2>2. Flags'
    BY DEF Flags
  <2>3. Reports' /\ Pointer'
    BY DEF Control, Reports, Pointer, Between
  <2>4. Leaving'
    BY DEF Leaving
  <2>5. Spaced'
    <3>1. CASE Tick
      BY <3>1 DEF Control, Spaced, CtxDone
    <3>2. CASE Start \/ Stop \/ ParentCancel
      BY <3>2 DEF Spaced, CtxDone
    <3> QED BY <3>1, <3>2
  <2> QED BY <2>1, <2>2, <2>3, <2>4, <2>5
<1>2. CASE LoopQuit \/ Dial \/ DialErr \/ Wake \/ CancelSelf \/ CloseDone
  <2> USE <1>2 DEF LoopQuit, Dial, DialErr, Wake, CancelSelf, CloseDone
  <2>1. Control'
    BY DEF Control
  <2>2. Flags'
    BY DEF Flags
  <2>3. Reports' /\ Pointer'
    BY DEF Control, Reports, Pointer, Between
  <2>4. Leaving'
    BY DEF Leaving
  <2>5. Spaced'
    BY DEF Control, Spaced, CtxDone
  <2> QED BY <2>1, <2>2, <2>3, <2>4, <2>5
<1>3. CASE DialOk
  <2> USE <1>3 DEF DialOk
  <2>1. Control'
    BY DEF Control, Gens
  <2>2. Flags' /\ Leaving' /\ Spaced'
    BY DEF Flags, Leaving, Spaced, CtxDone
  <2>3. Reports' /\ Pointer'
    BY DEF Control, Reports, Pointer, Between
  <2> QED BY <2>1, <2>2, <2>3
<1>4. CASE StorePointer \/ ConnEnds \/ ConnErr \/ CloseConn
  <2> USE <1>4 DEF StorePointer, ConnEnds, ConnErr, CloseConn
  <2>1. Flags' /\ Leaving' /\ Spaced'
    BY DEF Flags, Leaving, Spaced, CtxDone
  <2>2. CASE ConnErr
    <3>1. gen \in 1 .. MaxGen /\ reported = 1 .. gen - 1 /\ reported' = reported \cup {gen}
      BY <2>2 DEF Control, Reports
    <3>2. reported' = 1 .. gen
      BY <3>1
    <3>3. Control'
      BY <2>2, <3>1, <3>2 DEF Control, Gens
    <3>4. Reports' /\ Pointer'
      BY <2>2, <3>2 DEF Control, Reports, Pointer, Between
    <3> QED BY <2>1, <3>3, <3>4
  <2>3. CASE ~ConnErr
    <3>1. Control'
      BY <2>3 DEF Control
    <3>2. Reports' /\ Pointer'
      BY <2>3 DEF Control, Reports, Pointer, Between
    <3> QED BY <2>1, <3>1, <3>2
  <2> QED BY <2>2, <2>3
<1>5. ASSUME NEW c \in Calls,
             SendMsg(c) \/ SendQueue(c) \/ SendWrite(c) \/ SendOk(c) \/ SendErr(c)
      PROVE  IInv'
  <2> USE <1>5 DEF SendMsg, SendQueue, SendWrite, SendOk, SendErr
  <2>1. Control'
    BY DEF Control
  <2>2. Flags' /\ Leaving' /\ Spaced' /\ Reports' /\ Pointer'
    BY DEF Flags, Leaving, Spaced, CtxDone, Reports, Pointer
  <2> QED BY <2>1, <2>2
<1>6. CASE UNCHANGED vars
  BY <1>6 DEF vars, Control, Flags, Leaving, Spaced, CtxDone, Reports, Pointer
<1> QED BY <1>1, <1>2, <1>3, <1>4, <1>5, <1>6 DEF Next, LoopStep

LEMMA SafetyInv == Safety => []IInv
BY InitInv, NextInv, PTL DEF Safety
-----------------------------------------------------------------------------
\* Type correctness; connPointer is never more than one connection behind.
THEOREM TypeCorrect == Safety => []TypeOK
<1>1. IInv => TypeOK
  BY DEF IInv, Control, Flags, Pointer, TypeOK
<1> QED BY <1>1, SafetyInv, PTL

\* One transport at a time, and a ConnErr between any two connections.
THEOREM OneAtATime == Safety => []OneConnection
<1>1. IInv => OneConnection
  BY DEF IInv, Control, Reports, OneConnection, Between, Gens
<1> QED BY <1>1, SafetyInv, PTL

\* Whoever waits on done finds the client gone.
THEOREM DoneCorrect == Safety => []DoneMeansGone
<1>1. IInv => DoneMeansGone
  BY DEF IInv, Reports, Leaving, DoneMeansGone, Between
<1> QED BY <1>1, SafetyInv, PTL

\* Two dials begin at least Interval apart, in every execution.
THEOREM SpacingCorrect == Safety => DialSpacing
<1>1. IInv /\ [Next]_vars => [pc # "dial" /\ pc' = "dial" => elapsed = Interval]_vars
  <2> SUFFICES ASSUME IInv, Next, pc # "dial", pc' = "dial" PROVE elapsed = Interval
    OBVIOUS
  <2>1. Dial
    BY DEF Next, LoopStep, Start, Stop, ParentCancel, Tick, LoopQuit, StorePointer,
       ConnErr, CloseConn, Wake, CancelSelf, CloseDone, DialErr, DialOk, ConnEnds,
       SendMsg, SendQueue, SendWrite, SendOk, SendErr, loopVars
  <2> QED BY <2>1 DEF Dial, IInv, Spaced
<1> QED BY <1>1, SafetyInv, PTL DEF Safety, DialSpacing

\* A message that SendMsg queued on an outdated connPointer, or left behind
\* when its caller gave up, is written only while its connection is the newest
\* one and the loop has not left it.
THEOREM StaleNotWritten == Safety => WritesOnCurrent
<1> DEFINE A == \A c \in Calls : msg[c] = "queued" /\ msg'[c] = "written" =>
                  used[c] = gen /\ pc \in {"store", "serve", "close"}
<1>1. IInv /\ [Next]_vars => [A]_vars
  <2> SUFFICES ASSUME IInv, Next, NEW c \in Calls,
                      msg[c] = "queued", msg'[c] = "written"
               PROVE  used[c] = gen /\ pc \in {"store", "serve", "close"}
    OBVIOUS
  <2>1. msg \in [Calls -> {"none", "queued", "written"}]
    BY DEF IInv, Control
  <2>2. \E d \in Calls : SendQueue(d) \/ SendWrite(d)
    BY DEF Next, LoopStep, Start, Stop, ParentCancel, Tick, LoopQuit, Dial,
       StorePointer, ConnErr, CloseConn, Wake, CancelSelf, CloseDone, DialErr,
       DialOk, ConnEnds, SendMsg, SendOk, SendErr, callVars
  <2>3. SendWrite(c)
    BY <2>1, <2>2 DEF SendQueue, SendWrite
  <2> QED BY <2>3 DEF SendWrite, IInv, Control, Reports, Between
<1> QED BY <1>1, SafetyInv, PTL DEF Safety, WritesOnCurrent

\* A client whose done is closed stays gone: it dials no more, no transport is
\* opened, and no message is written, not even one queued before.  (The caller
\* of one that was written before may still be about to return nil.)
THEOREM StaysGone ==
  Safety => [][done = "closed" =>
                 /\ UNCHANGED <<done, pc, gen, open>> /\ open = {}
                 /\ \A c \in Calls : msg'[c] = "written" => msg[c] = "written"]_vars
<1> DEFINE Gone == /\ UNCHANGED <<done, pc, gen, open>> /\ open = {}
                   /\ \A c \in Calls : msg'[c] = "written" => msg[c] = "written"
<1>1. IInv /\ [Next]_vars => [done = "closed" => Gone]_vars
  <2> SUFFICES ASSUME IInv, Next, done = "closed" PROVE Gone
    OBVIOUS
  <2>1. pc = "end" /\ open = {} /\ msg \in [Calls -> {"none", "queued", "written"}]
    BY DEF IInv, Control, Leaving, Reports, Between
  <2>2. ~Start /\ ~LoopStep /\ ~DialErr /\ ~DialOk /\ ~ConnEnds
    BY <2>1 DEF Start, LoopStep, LoopQuit, Dial, StorePointer, ConnErr, CloseConn, Wake,
       CancelSelf, CloseDone, DialErr, DialOk, ConnEnds
  <2>3. CASE Stop \/ ParentCancel \/ Tick
    BY <2>1, <2>3 DEF Stop, ParentCancel, Tick, loopVars, netVars, callVars
  <2>4. ASSUME NEW d \in Calls,
               SendMsg(d) \/ SendQueue(d) \/ SendWrite(d) \/ SendOk(d) \/ SendErr(d)
        PROVE  Gone
    BY <2>1, <2>4 DEF SendMsg, SendQueue, SendWrite, SendOk, SendErr, loopVars, netVars
  <2> QED BY <2>2, <2>3, <2>4 DEF Next
<1> QED BY <1>1, SafetyInv, PTL DEF Safety
=============================================================================
