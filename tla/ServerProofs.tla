---------------------------- MODULE ServerProofs ----------------------------
(***************************************************************************)
(* The safety properties of Server, for every number of acceptors, of      *)
(* connections and of Stop calls, and every limit.  CountExact carries     *)
(* LimitHeld; Drained, which ties the end of an acceptor to the end of its *)
(* connections, and Phase, which ties both to the progress of Start, carry *)
(* DoneMeansDrained.                                                       *)
(***************************************************************************)
EXTENDS Server, FiniteSetTheorems, TLAPS

\* TypeOK without the lower bound of connCount, which follows from CountExact.
Control ==
  /\ start \in {"idle", "ctx", "done", "run", "stop", "over"}
  /\ done \in {"nil", "open", "closed"}
  /\ connCount \in Int
  /\ acc \in [Acceptors -> {"off", "accept", "count", "reject", "drop", "spawn",
                            "cancel", "wait", "end"}]
  /\ conn \in [Conns -> {"new", "hand", "serving", "served", "closing", "closed"}]
  /\ by \in [Conns -> Acceptors \cup {None}]
  /\ stop \in [Stoppers -> {"idle", "close", "nil", "done"}]

Flags ==
  /\ parent \in BOOLEAN /\ cancelled \in BOOLEAN
  /\ listening \in BOOLEAN /\ isRun \in BOOLEAN

Types == Control /\ Flags

\* No acceptor runs before Start started it or after StopRunning waited for
\* it, and done is closed last.
Phase ==
  /\ start \in {"idle", "ctx", "done"} => \A a \in Acceptors : acc[a] = "off"
  /\ start \in {"stop", "over"} => \A a \in Acceptors : acc[a] = "end"
  /\ done = "closed" => start = "over"

\* An acceptor that has ended has waited for the connections it accepted, and
\* every connection was accepted by one.
Drained ==
  /\ \A c \in Conns : conn[c] # "new" => by[c] \in Acceptors
  /\ \A a \in Acceptors, c \in Conns : acc[a] = "end" /\ by[c] = a => conn[c] = "closed"

IInv == Types /\ CountExact /\ LimitHeld /\ Phase /\ Drained
-----------------------------------------------------------------------------
\* The three sets whose sizes make up the count are finite.
LEMMA PlacesFinite ==
  /\ IsFiniteSet(Served) /\ IsFiniteSet(Admitting) /\ IsFiniteSet(Rejecting)
  /\ Cardinality(Served) \in Nat /\ Cardinality(Admitting) \in Nat
  /\ Cardinality(Rejecting) \in Nat
BY Finite, FS_Subset, FS_CardinalityType DEF Served, Admitting, Rejecting

\* The sizes of the next state, likewise.
LEMMA PlacesFiniteNext ==
  /\ IsFiniteSet(Served') /\ IsFiniteSet(Admitting') /\ IsFiniteSet(Rejecting')
  /\ Cardinality(Served') \in Nat /\ Cardinality(Admitting') \in Nat
  /\ Cardinality(Rejecting') \in Nat
BY Finite, FS_Subset, FS_CardinalityType DEF Served, Admitting, Rejecting

\* With an exact count TypeOK is what is left of Types.
LEMMA TypesTypeOK ==
  ASSUME Types, CountExact
  PROVE  TypeOK
BY PlacesFinite DEF Types, Control, Flags, TypeOK, CountExact

LEMMA InitInv == Init => IInv
<1> SUFFICES ASSUME Init PROVE IInv
  OBVIOUS
<1>1. Served = {} /\ Admitting = {} /\ Rejecting = {}
  BY DEF Init, Served, Admitting, Rejecting
<1>2. CountExact /\ LimitHeld
  BY <1>1, FS_EmptySet, MaxConnNat DEF Init, CountExact, LimitHeld
<1>3. Types
  <2>1. Control
    BY DEF Init, Control
  <2>2. Flags
    BY DEF Init, Flags
  <2> QED BY <2>1, <2>2 DEF Types
<1>4. Phase /\ Drained
  BY DEF Init, Phase, Drained
<1> QED BY <1>2, <1>3, <1>4 DEF IInv

\* The type part, for every step.
LEMMA NextTypes == Types /\ [Next]_vars => Types'
<1> SUFFICES ASSUME Control, Flags, [Next]_vars PROVE Control' /\ Flags'
  BY DEF Types
<1> USE DEF lifeVars
<1>1. CASE StartStep \/ WatcherClose \/ LastStep \/ ParentCancel
  <2> USE <1>1 DEF StartStep, StartCtx, StartDone, StartRun, WatcherClose, LastStep,
      StopRunning, CloseDone, ParentCancel
  <2>1. Control'
    BY DEF Control
  <2>2. Flags'
    BY DEF Flags
  <2> QED BY <2>1, <2>2
<1>2. ASSUME NEW s \in Stoppers, Stop(s) \/ StopClose(s) PROVE Control' /\ Flags'
  <2> USE <1>2 DEF Stop, StopClose
  <2>1. Control'
    BY DEF Control
  <2>2. Flags'
    BY DEF Flags
  <2> QED BY <2>1, <2>2
<1>3. ASSUME NEW a \in Acceptors,
             AcceptClosed(a) \/ AcceptFault(a) \/ AcceptCancel(a) \/ AcceptEnd(a)
             \/ CountUp(a) \/ Reject(a)
      PROVE  Control' /\ Flags'
  <2> USE <1>3 DEF AcceptClosed, AcceptFault, AcceptCancel, AcceptEnd, CountUp, Reject,
      AccGoto
  <2>1. Control'
    BY DEF Control
  <2>2. Flags'
    BY DEF Flags
  <2> QED BY <2>1, <2>2
<1>4. ASSUME NEW a \in Acceptors, NEW c \in Conns,
             Accept(a, c) \/ CloseRejected(a, c) \/ Spawn(a, c)
      PROVE  Control' /\ Flags'
  BY <1>4 DEF Accept, CloseRejected, Spawn, AccGoto, Control, Flags
<1>5. ASSUME NEW c \in Conns, HandlerReturn(c) \/ CountDown(c) \/ CloseConn(c)
      PROVE  Control' /\ Flags'
  BY <1>5 DEF HandlerReturn, CountDown, CloseConn, ConnGoto, Control, Flags
<1>6. CASE UNCHANGED vars
  BY <1>6 DEF vars, Control, Flags
<1> QED BY <1>1, <1>2, <1>3, <1>4, <1>5, <1>6 DEF Next, AccStep, ConnStep

\* The count: the steps that move a place from one set to another or change
\* connCount do both at once.
LEMMA NextCount ==
  ASSUME Control, CountExact, LimitHeld, Phase, [Next]_vars
  PROVE  CountExact' /\ LimitHeld'
<1> USE DEF Control, lifeVars
<1> USE PlacesFinite, PlacesFiniteNext
<1>1. ASSUME UNCHANGED connCount, Served' = Served, Admitting' = Admitting,
             Rejecting' = Rejecting
      PROVE  CountExact' /\ LimitHeld'
  BY <1>1 DEF CountExact, LimitHeld
<1>2. CASE StartRun
  <2>1. Admitting = {} /\ Rejecting = {} /\ Admitting' = {} /\ Rejecting' = {}
    BY <1>2 DEF StartRun, Phase, Admitting, Rejecting
  <2> QED BY <1>1, <1>2, <2>1 DEF StartRun, Served
<1>3. CASE StartCtx \/ StartDone \/ WatcherClose \/ LastStep \/ ParentCancel
  BY <1>1, <1>3 DEF StartCtx, StartDone, WatcherClose, LastStep, StopRunning,
     CloseDone, ParentCancel, Served, Admitting, Rejecting
<1>4. ASSUME NEW s \in Stoppers, Stop(s) \/ StopClose(s) PROVE CountExact' /\ LimitHeld'
  BY <1>1, <1>4 DEF Stop, StopClose, Served, Admitting, Rejecting
<1>5. ASSUME NEW a \in Acceptors,
             AcceptClosed(a) \/ AcceptFault(a) \/ AcceptCancel(a) \/ AcceptEnd(a)
      PROVE  CountExact' /\ LimitHeld'
  BY <1>1, <1>5 DEF AcceptClosed, AcceptFault, AcceptCancel, AcceptEnd, AccGoto, Served,
     Admitting, Rejecting
<1>6. ASSUME NEW a \in Acceptors, CountUp(a) PROVE CountExact' /\ LimitHeld'
  <2>1. /\ connCount' = connCount + 1 /\ Served' = Served
        /\ a \notin Admitting /\ a \notin Rejecting
    BY <1>6 DEF CountUp, AccGoto, Served, Admitting, Rejecting
  <2>2. CASE MaxConn > 0 /\ connCount + 1 > MaxConn
    <3>1. Admitting' = Admitting /\ Rejecting' = Rejecting \cup {a}
      BY <1>6, <2>2 DEF CountUp, AccGoto, Admitting, Rejecting
    <3>2. Cardinality(Rejecting') = Cardinality(Rejecting) + 1
      BY <2>1, <3>1, FS_AddElement
    <3> QED BY <2>1, <3>1, <3>2 DEF CountExact, LimitHeld
  <2>3. CASE ~(MaxConn > 0 /\ connCount + 1 > MaxConn)
    <3>1. Admitting' = Admitting \cup {a} /\ Rejecting' = Rejecting
      BY <1>6, <2>3 DEF CountUp, AccGoto, Admitting, Rejecting
    <3>2. Cardinality(Admitting') = Cardinality(Admitting) + 1
      BY <2>1, <3>1, FS_AddElement
    <3> QED BY <2>1, <2>3, <3>1, <3>2, MaxConnNat DEF CountExact, LimitHeld
  <2> QED BY <2>2, <2>3
<1>7. ASSUME NEW a \in Acceptors, Reject(a) PROVE CountExact' /\ LimitHeld'
  <2>1. /\ connCount' = connCount - 1 /\ Served' = Served /\ Admitting' = Admitting
        /\ a \in Rejecting /\ Rejecting' = Rejecting \ {a}
    BY <1>7 DEF Reject, AccGoto, Served, Admitting, Rejecting
  <2>2. Cardinality(Rejecting') = Cardinality(Rejecting) - 1
    BY <2>1, FS_RemoveElement
  <2> QED BY <2>1, <2>2 DEF CountExact, LimitHeld
<1>8. ASSUME NEW a \in Acceptors, NEW c \in Conns, Accept(a, c) \/ CloseRejected(a, c)
      PROVE  CountExact' /\ LimitHeld'
  BY <1>1, <1>8 DEF Accept, CloseRejected, InHand, AccGoto, Served, Admitting, Rejecting
<1>9. ASSUME NEW a \in Acceptors, NEW c \in Conns, Spawn(a, c)
      PROVE  CountExact' /\ LimitHeld'
  <2>1. /\ UNCHANGED connCount /\ Rejecting' = Rejecting
        /\ c \notin Served /\ Served' = Served \cup {c}
        /\ a \in Admitting /\ Admitting' = Admitting \ {a}
    BY <1>9 DEF Spawn, InHand, AccGoto, Served, Admitting, Rejecting
  <2>2. /\ Cardinality(Served') = Cardinality(Served) + 1
        /\ Cardinality(Admitting') = Cardinality(Admitting) - 1
    BY <2>1, FS_AddElement, FS_RemoveElement
  <2> QED BY <2>1, <2>2, MaxConnNat DEF CountExact, LimitHeld
<1>10. ASSUME NEW c \in Conns, CountDown(c) PROVE CountExact' /\ LimitHeld'
  <2>1. /\ connCount' = connCount - 1 /\ Admitting' = Admitting /\ Rejecting' = Rejecting
        /\ c \in Served /\ Served' = Served \ {c}
    BY <1>10 DEF CountDown, ConnGoto, Served, Admitting, Rejecting
  <2>2. Cardinality(Served') = Cardinality(Served) - 1
    BY <2>1, FS_RemoveElement
  <2> QED BY <2>1, <2>2, MaxConnNat DEF CountExact, LimitHeld
<1>11. ASSUME NEW c \in Conns, HandlerReturn(c) \/ CloseConn(c)
       PROVE  CountExact' /\ LimitHeld'
  BY <1>1, <1>11 DEF HandlerReturn, CloseConn, ConnGoto, Served, Admitting, Rejecting
<1>12. CASE UNCHANGED vars
  BY <1>1, <1>12 DEF vars, Served, Admitting, Rejecting
<1> QED
  BY <1>2, <1>3, <1>4, <1>5, <1>6, <1>7, <1>8, <1>9, <1>10, <1>11, <1>12
     DEF Next, StartStep, AccStep, ConnStep

\* The order in which the server is started and drained.
LEMMA NextDrained ==
  ASSUME Control, Phase, Drained, [Next]_vars
  PROVE  Phase' /\ Drained'
<1> USE DEF Control, lifeVars
<1>1. CASE StartStep \/ WatcherClose \/ LastStep \/ ParentCancel
  BY <1>1 DEF StartStep, StartCtx, StartDone, StartRun, WatcherClose, LastStep,
     StopRunning, CloseDone, ParentCancel, Phase, Drained
<1>2. ASSUME NEW s \in Stoppers, Stop(s) \/ StopClose(s) PROVE Phase' /\ Drained'
  BY <1>2 DEF Stop, StopClose, Phase, Drained
<1>3. ASSUME NEW a \in Acceptors,
             AcceptClosed(a) \/ AcceptFault(a) \/ AcceptCancel(a) \/ CountUp(a) \/ Reject(a)
      PROVE  Phase' /\ Drained'
  BY <1>3 DEF AcceptClosed, AcceptFault, AcceptCancel, CountUp, Reject, AccGoto, Phase,
     Drained
<1>4. ASSUME NEW a \in Acceptors, AcceptEnd(a) PROVE Phase' /\ Drained'
  BY <1>4 DEF AcceptEnd, Admitted, AccGoto, Phase, Drained
<1>5. ASSUME NEW a \in Acceptors, NEW c \in Conns,
             Accept(a, c) \/ CloseRejected(a, c) \/ Spawn(a, c)
      PROVE  Phase' /\ Drained'
  <2>1. Phase'
    BY <1>5 DEF Accept, CloseRejected, Spawn, AccGoto, Phase
  <2>2. Drained'
    BY <1>5 DEF Accept, CloseRejected, Spawn, AccGoto, InHand, Drained
  <2> QED BY <2>1, <2>2
<1>6. ASSUME NEW c \in Conns, HandlerReturn(c) \/ CountDown(c) \/ CloseConn(c)
      PROVE  Phase' /\ Drained'
  BY <1>6 DEF HandlerReturn, CountDown, CloseConn, ConnGoto, Phase, Drained
<1>7. CASE UNCHANGED vars
  BY <1>7 DEF vars, Phase, Drained
<1> QED BY <1>1, <1>2, <1>3, <1>4, <1>5, <1>6, <1>7 DEF Next, AccStep, ConnStep

LEMMA NextInv == IInv /\ [Next]_vars => IInv'
BY NextTypes, NextCount, NextDrained DEF IInv, Types

LEMMA SafetyInv == Safety => []IInv
BY InitInv, NextInv, PTL DEF Safety
-----------------------------------------------------------------------------
\* Type correctness; in particular connCount never becomes negative.
THEOREM TypeCorrect == Safety => []TypeOK
<1>1. IInv => TypeOK
  BY TypesTypeOK DEF IInv
<1> QED BY <1>1, SafetyInv, PTL

\* connCount is the number of places taken, whatever the acceptors and the
\* ending connections do at the same time.
THEOREM CountCorrect == Safety => []CountExact
BY SafetyInv, PTL DEF IInv

\* Any number of acceptors together keep to WithMaxConnCount.
THEOREM LimitCorrect == Safety => []LimitHeld
BY SafetyInv, PTL DEF IInv

\* Whoever waits on the channel Stop returned finds the server drained.
THEOREM DrainCorrect == Safety => []DoneMeansDrained
<1>1. IInv => DoneMeansDrained
  <2> SUFFICES ASSUME IInv, done = "closed" PROVE DoneMeansDrained
    BY DEF DoneMeansDrained
  <2>0. TypeOK
    BY TypesTypeOK DEF IInv
  <2>1. \A a \in Acceptors : acc[a] = "end"
    BY DEF IInv, Phase
  <2>2. \A c \in Conns : conn[c] \in {"new", "closed"}
    BY <2>1 DEF IInv, Drained
  <2>3. Served = {} /\ Admitting = {} /\ Rejecting = {}
    BY <2>1, <2>2 DEF Served, Admitting, Rejecting
  <2>4. connCount = 0
    BY <2>3, FS_EmptySet DEF IInv, CountExact
  <2> QED BY <2>1, <2>2, <2>4 DEF DoneMeansDrained
<1> QED BY <1>1, SafetyInv, PTL

\* A server whose done is closed stays drained: no connection is accepted,
\* counted or served afterwards, although clients may still be connecting, a
\* Stop be under way and the listener be open for a while.
THEOREM StaysDrained ==
  Safety => [][done = "closed" => UNCHANGED <<done, connCount, acc, conn, by>>]_vars
<1>1. IInv /\ [Next]_vars
        => [done = "closed" => UNCHANGED <<done, connCount, acc, conn, by>>]_vars
  <2> SUFFICES ASSUME IInv, Next, done = "closed"
               PROVE  UNCHANGED <<done, connCount, acc, conn, by>>
    OBVIOUS
  <2>1. start = "over" /\ \A a \in Acceptors : acc[a] = "end"
    BY DEF IInv, Phase
  <2>2. \A c \in Conns : conn[c] \in {"new", "closed"}
    BY <2>1 DEF IInv, Types, Control, Drained
  <2>3. ~StartStep /\ ~LastStep
    BY <2>1 DEF StartStep, LastStep, StartCtx, StartDone, StartRun, StopRunning, CloseDone
  <2>4. ~\E a \in Acceptors :
          AccStep(a) \/ AcceptFault(a) \/ \E c \in Conns : Accept(a, c)
    BY <2>1 DEF AccStep, AcceptClosed, CountUp, Reject, AcceptCancel, AcceptEnd,
       CloseRejected, Spawn, AcceptFault, Accept, AccGoto
  <2>5. ~\E c \in Conns : HandlerReturn(c) \/ ConnStep(c)
    BY <2>2 DEF HandlerReturn, ConnStep, CountDown, CloseConn, ConnGoto
  <2>6. WatcherClose \/ ParentCancel \/ \E s \in Stoppers : Stop(s) \/ StopClose(s)
    BY <2>3, <2>4, <2>5 DEF Next
  <2> QED BY <2>6 DEF WatcherClose, ParentCancel, Stop, StopClose, lifeVars
<1> QED BY <1>1, SafetyInv, PTL DEF Safety
=============================================================================
