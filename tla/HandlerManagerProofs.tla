------------------------ MODULE HandlerManagerProofs ------------------------
(***************************************************************************)
(* A HandlerManager uses its TaskGo and its Connection only through their  *)
(* operations, so what is proved of the two holds here.  TaskGo is proved  *)
(* in TaskGoProofs; Connection here, where C is Connection for the same    *)
(* constants and variables.                                                *)
(***************************************************************************)
EXTENDS HandlerManager, FiniteSetTheorems, TLAPS

TGP == INSTANCE TaskGoProofs WITH Stoppers <- {"owner"}

(***************************************************************************)
(* The Connection by itself, C without a HandlerManager around it: its     *)
(* safety properties hold for every set of calls and every capacity.       *)
(* Their conjunction is inductive: QueueOK says that a message is in the   *)
(* channel once and unacknowledged, so the one Take removes is not queued  *)
(* behind itself, and that a call which has not queued its message has     *)
(* left no trace.                                                          *)
(***************************************************************************)

\* The channel holds a message once and only while nobody has acknowledged it;
\* a call that has not queued its message has left no trace.
QueueOK ==
  /\ Len(msgChan) <= ChanCap
  /\ \A i, j \in 1 .. Len(msgChan) : msgChan[i] = msgChan[j] => i = j
  /\ \A i \in 1 .. Len(msgChan) : ack[msgChan[i]] = "none"
  /\ \A c \in Calls : call[c] \in {"idle", "select"} =>
       /\ ack[c] = "none"
       /\ \A i \in 1 .. Len(msgChan) : msgChan[i] # c

\* A result from an acknowledgement is that of the call's own message.
ResultIsAck ==
  \A c \in Calls : call[c] \in C!AckErr => ack[c] = call[c]

ConnInv == C!TypeOK /\ QueueOK /\ ResultIsAck

LEMMA ConnInit == C!Init => ConnInv
<1> SUFFICES ASSUME C!Init PROVE ConnInv
  OBVIOUS
<1>1. C!TypeOK
  <2>1. call \in [Calls -> {"idle", "select", "wait"} \cup C!Results]
    BY DEF C!Init
  <2>2. callCtx \in [Calls -> BOOLEAN] /\ connCtx \in BOOLEAN
    BY DEF C!Init
  <2>3. msgChan \in Seq(Calls) /\ ack \in [Calls -> {"none", "busy"} \cup C!AckErr]
    BY DEF C!Init
  <2> QED BY <2>1, <2>2, <2>3 DEF C!TypeOK
<1>2. QueueOK
  BY ChanCapAssumption DEF C!Init, QueueOK
<1>3. ResultIsAck
  BY DEF C!Init, ResultIsAck, C!AckErr
<1> QED BY <1>1, <1>2, <1>3 DEF ConnInv

\* A call that moves without touching the queue or its acknowledgement, and
\* whose result (if it has one from AckErr) is its acknowledgement.
LEMMA GotoKeeps ==
  ASSUME ConnInv, NEW c \in Calls, NEW from, NEW to \in {"select"} \cup C!Results,
         C!Goto(c, from, to), UNCHANGED <<callCtx, msgChan, ack, connCtx>>,
         to = "select" => from = "idle",
         to \in C!AckErr => ack[c] = to
  PROVE  ConnInv'
<1> USE DEF ConnInv, C!Goto
<1>1. C!TypeOK'
  <2>1. call' \in [Calls -> {"idle", "select", "wait"} \cup C!Results]
    BY DEF C!TypeOK
  <2> QED BY <2>1 DEF C!TypeOK
<1>2. QueueOK'
  BY DEF QueueOK, C!TypeOK, C!Results, C!AckErr
<1>3. ResultIsAck'
  BY DEF ResultIsAck, C!TypeOK, C!AckErr
<1> QED BY <1>1, <1>2, <1>3

\* Every branch of sendMsg, every step of the consumer, CancelCall and Close
\* preserve the invariant.
LEMMA ConnNext == ConnInv /\ [C!Next]_(C!vars) => ConnInv'
<1> SUFFICES ASSUME ConnInv, [C!Next]_(C!vars) PROVE ConnInv'
  OBVIOUS
<1> USE DEF ConnInv
<1>1. ASSUME NEW c \in Calls, C!SendMsg(c) PROVE ConnInv'
  BY <1>1, GotoKeeps DEF C!SendMsg, C!AckErr
<1>2. ASSUME NEW c \in Calls, C!ReturnClosed(c) \/ C!ReturnCtx(c) PROVE ConnInv'
  BY <1>2, GotoKeeps DEF C!ReturnClosed, C!ReturnCtx, C!Results, C!AckErr
<1>3. ASSUME NEW c \in Calls, C!ReturnAck(c) PROVE ConnInv'
  BY <1>3, GotoKeeps DEF C!ReturnAck, C!Results, C!AckErr
<1>4. ASSUME NEW c \in Calls, C!Enqueue(c) PROVE ConnInv'
  <2> USE <1>4 DEF C!Enqueue, C!Goto
  <2>1. C!TypeOK'
    <3>1. call' \in [Calls -> {"idle", "select", "wait"} \cup C!Results]
      BY DEF C!TypeOK
    <3>2. msgChan' \in Seq(Calls)
      BY DEF C!TypeOK
    <3> QED BY <3>1, <3>2 DEF C!TypeOK
  <2>2. /\ Len(msgChan') = Len(msgChan) + 1
        /\ \A i \in 1 .. Len(msgChan) : msgChan'[i] = msgChan[i]
        /\ msgChan'[Len(msgChan) + 1] = c
    BY DEF C!TypeOK
  <2>3. Len(msgChan) \in Nat /\ Len(msgChan') <= ChanCap
    BY <2>2, ChanCapAssumption DEF C!TypeOK
  <2>4. /\ ack[c] = "none"
        /\ \A i \in 1 .. Len(msgChan) : msgChan[i] # c
    BY DEF QueueOK
  <2>5. \A i, j \in 1 .. Len(msgChan') : msgChan'[i] = msgChan'[j] => i = j
    BY <2>2, <2>3, <2>4 DEF QueueOK
  <2>6. \A i \in 1 .. Len(msgChan') : ack'[msgChan'[i]] = "none"
    BY <2>2, <2>3, <2>4 DEF QueueOK
  <2>7. ASSUME NEW d \in Calls, call'[d] \in {"idle", "select"}
        PROVE  ack'[d] = "none" /\ \A i \in 1 .. Len(msgChan') : msgChan'[i] # d
    BY <2>2, <2>3, <2>7 DEF QueueOK, C!TypeOK
  <2>8. ResultIsAck'
    BY DEF ResultIsAck, C!TypeOK, C!AckErr
  <2> QED BY <2>1, <2>3, <2>5, <2>6, <2>7, <2>8 DEF QueueOK
<1>5. ASSUME NEW c \in Calls, C!CancelCall(c) PROVE ConnInv'
  <2>1. C!TypeOK'
    <3>1. callCtx' \in [Calls -> BOOLEAN]
      BY <1>5 DEF C!CancelCall, C!TypeOK
    <3> QED BY <1>5, <3>1 DEF C!CancelCall, C!TypeOK
  <2> QED BY <1>5, <2>1 DEF C!CancelCall, QueueOK, ResultIsAck
<1>6. ASSUME NEW c \in Calls, C!Take(c) PROVE ConnInv'
  <2> USE <1>6 DEF C!Take
  <2>1. C!TypeOK'
    <3>1. ack' \in [Calls -> {"none", "busy"} \cup C!AckErr]
      BY DEF C!TypeOK
    <3>2. msgChan' \in Seq(Calls)
      BY DEF C!TypeOK
    <3> QED BY <3>1, <3>2 DEF C!TypeOK
  <2>2. /\ Len(msgChan') = Len(msgChan) - 1 /\ Len(msgChan) \in Nat \ {0}
        /\ \A i \in 1 .. Len(msgChan') : msgChan'[i] = msgChan[i + 1]
        /\ c = msgChan[1]
    BY DEF C!TypeOK
  <2>3. \A i \in 1 .. Len(msgChan') : msgChan'[i] # c
    BY <2>2 DEF QueueOK
  <2>4. QueueOK'
    <3>1. Len(msgChan') <= ChanCap
      BY <2>2, ChanCapAssumption DEF QueueOK
    <3>2. \A i, j \in 1 .. Len(msgChan') : msgChan'[i] = msgChan'[j] => i = j
      BY <2>2 DEF QueueOK
    <3>3. \A i \in 1 .. Len(msgChan') : ack'[msgChan'[i]] = "none"
      BY <2>2, <2>3 DEF QueueOK, C!TypeOK
    <3>4. ASSUME NEW d \in Calls, call'[d] \in {"idle", "select"}
          PROVE  ack'[d] = "none" /\ \A i \in 1 .. Len(msgChan') : msgChan'[i] # d
      BY <2>2, <3>4 DEF QueueOK, C!TypeOK
    <3> QED BY <3>1, <3>2, <3>3, <3>4 DEF QueueOK
  <2>5. ResultIsAck'
    BY DEF ResultIsAck, C!TypeOK, C!AckErr
  <2> QED BY <2>1, <2>4, <2>5
<1>7. ASSUME NEW c \in Calls, NEW e \in C!AckErr, C!Ack(c, e) PROVE ConnInv'
  <2> USE <1>7 DEF C!Ack
  <2>1. C!TypeOK'
    <3>1. ack' \in [Calls -> {"none", "busy"} \cup C!AckErr]
      BY DEF C!TypeOK
    <3> QED BY <3>1 DEF C!TypeOK
  <2>2. QueueOK'
    BY DEF QueueOK, C!TypeOK
  <2>3. ResultIsAck'
    BY DEF ResultIsAck, C!TypeOK, C!AckErr
  <2> QED BY <2>1, <2>2, <2>3
<1>8. CASE C!Close
  BY <1>8 DEF C!Close, C!TypeOK, QueueOK, ResultIsAck
<1>9. CASE UNCHANGED C!vars
  BY <1>9 DEF C!vars, C!TypeOK, QueueOK, ResultIsAck
<1> QED
  BY <1>1, <1>2, <1>3, <1>4, <1>5, <1>6, <1>7, <1>8, <1>9 DEF C!Next, C!CallStep

LEMMA ConnAlways == C!Safety => []ConnInv
BY ConnInit, ConnNext, PTL DEF C!Safety

\* A Connection keeps its queue and its acknowledgements consistent with any
\* consumer that takes a message before it acknowledges it, once.
THEOREM ConnectionCorrect == C!Safety => [](C!TypeOK /\ QueueOK /\ ResultIsAck)
BY ConnAlways, PTL DEF ConnInv
-----------------------------------------------------------------------------
(* The two components inside a HandlerManager.                             *)

LEMMA TasksAreFinite == IsFiniteSet(Tasks)
<1>1. Tasks = (({} \cup {"begin"}) \cup {"read"}) \cup {"send"}
  BY DEF Tasks
<1> QED BY <1>1, FS_EmptySet, FS_AddElement

\* Every step of the HandlerManager is a step of its Connection or leaves it
\* alone.
LEMMA ConnectionStep == [Next]_vars => [C!Next]_(C!vars)
<1> SUFFICES ASSUME [Next]_vars PROVE C!Next \/ UNCHANGED connVars
  BY DEF connVars, C!vars
<1>1. CASE UNCHANGED vars
  BY <1>1 DEF vars
<1>2. CASE StartBegin \/ StartRead \/ StartSend
  BY <1>2 DEF StartBegin, StartRead, StartSend
<1>3. CASE StopMerr \/ StopNet \/ StopCancel \/ ReadExit \/ SendExit \/ BeginExit
  BY <1>3 DEF StopMerr, StopNet, StopCancel, ReadExit, SendExit, BeginExit
<1>4. CASE StopConn \/ UserClose
  BY <1>4 DEF StopConn, UserClose, C!Close, C!Next
<1>5. CASE ReadMsg \/ HandlerReturn \/ HandlerPanic \/ ReadErr \/ SendQuit \/ SendMerr
  BY <1>5 DEF ReadMsg, HandlerReturn, HandlerPanic, ReadErr, SendQuit, SendMerr
<1>6. ASSUME NEW c \in Calls, SendTake(c) PROVE C!Next
  BY <1>6 DEF SendTake, C!Take, C!Next
<1>7. ASSUME NEW c \in Calls, WriteOk(c) \/ WriteErr(c) \/ WriteTooLong(c) PROVE C!Next
  <2>1. \E e \in C!AckErr : C!Ack(c, e)
    BY <1>7 DEF WriteOk, WriteErr, WriteTooLong, C!Ack, C!AckErr
  <2> QED BY <2>1 DEF C!Next
<1>8. ASSUME NEW c \in Calls, WritePanic(c) PROVE UNCHANGED connVars
  BY <1>8 DEF WritePanic
<1>9. CASE OwnerStop \/ OwnerWait \/ OwnerCloseDone \/ OwnerConnErr \/ OwnerClose
  BY <1>9 DEF OwnerStop, OwnerWait, OwnerCloseDone, OwnerConnErr, OwnerClose
<1>10. ASSUME NEW c \in Calls, CallStart(c) PROVE C!Next
  BY <1>10 DEF CallStart, C!SendMsg, C!Goto, C!Next
<1>11. ASSUME NEW c \in Calls, CallStep(c) PROVE C!Next
  <2>1. C!CallStep(c)
    BY <1>11 DEF CallStep, C!CallStep, C!Enqueue,
       C!ReturnClosed, C!ReturnCtx, C!ReturnAck, C!AckErr, C!Goto
  <2> QED BY <2>1 DEF C!Next
<1>12. ASSUME NEW c \in Calls, CallCancel(c) PROVE C!Next
  BY <1>12 DEF CallCancel, C!CancelCall, C!Next
<1>13. CASE ParentCancel \/ PeerFault
  BY <1>13 DEF ParentCancel, PeerFault
<1> QED
  BY <1>1, <1>2, <1>3, <1>4, <1>5, <1>6, <1>7, <1>8, <1>9, <1>10, <1>11, <1>12, <1>13
     DEF Next, TaskStep, OwnerStep, EnvStep

\* Every step of the HandlerManager is a step of its TaskGo or leaves it alone.
LEMMA TaskGoStep == [Next]_vars => [TGP!Next]_(TGP!vars)
<1> SUFFICES ASSUME [Next]_vars PROVE TGP!Next \/ UNCHANGED tgVars
  BY DEF tgVars, TGP!vars
<1> USE DEF Tasks
<1>1. CASE UNCHANGED vars
  BY <1>1 DEF vars
<1>2. CASE StartBegin \/ StartRead \/ StartSend
  BY <1>2 DEF StartBegin, StartRead, StartSend, TG!Go, TG!Register,
     TGP!Go, TGP!Register, TGP!Next
<1>3. CASE ReadExit \/ SendExit \/ BeginExit
  <2>1. \E t \in Tasks : TG!Done(t)
    BY <1>3 DEF ReadExit, SendExit, BeginExit
  <2> QED BY <2>1 DEF TG!Done, TG!Finish, TG!DoneChCap,
             TGP!Done, TGP!Finish, TGP!DoneChCap, TGP!Next
<1>4. CASE StopMerr \/ StopConn \/ StopNet \/ StopCancel
  BY <1>4 DEF StopMerr, StopConn, StopNet, StopCancel
<1>5. CASE ReadMsg \/ HandlerReturn \/ HandlerPanic \/ ReadErr \/ SendQuit \/ SendMerr
  BY <1>5 DEF ReadMsg, HandlerReturn, HandlerPanic, ReadErr, SendQuit, SendMerr
<1>6. ASSUME NEW c \in Calls,
             SendTake(c) \/ WriteOk(c) \/ WriteErr(c) \/ WriteTooLong(c) \/ WritePanic(c)
      PROVE  UNCHANGED tgVars
  BY <1>6 DEF SendTake, WriteOk, WriteErr, WriteTooLong, WritePanic
<1>7. CASE OwnerStop
  BY <1>7 DEF OwnerStop, TG!StopAndWait, TGP!StopAndWait, TGP!Next
<1>8. CASE OwnerWait
  <2>1. \E s \in {"owner"} : \/ TGP!Cancel(s) \/ TGP!StopFinished(s)
                             \/ TGP!StopTimeout(s) \/ TGP!StopReport(s)
    BY <1>8 DEF OwnerWait, TG!Cancel, TGP!Cancel, TG!StopFinished, TGP!StopFinished,
       TG!StopTimeout, TGP!StopTimeout, TG!StopReport, TGP!StopReport,
       TG!Running, TGP!Running
  <2> QED BY <2>1 DEF TGP!Next
<1>9. CASE OwnerCloseDone \/ OwnerConnErr \/ OwnerClose
  BY <1>9 DEF OwnerCloseDone, OwnerConnErr, OwnerClose
<1>10. ASSUME NEW c \in Calls, CallStart(c) \/ CallStep(c) \/ CallCancel(c)
       PROVE  UNCHANGED tgVars
  BY <1>10 DEF CallStart, CallStep, CallCancel
<1>11. CASE UserClose \/ ParentCancel \/ PeerFault
  BY <1>11 DEF UserClose, ParentCancel, PeerFault
<1> QED
  BY <1>1, <1>2, <1>3, <1>4, <1>5, <1>6, <1>7, <1>8, <1>9, <1>10, <1>11
     DEF Next, TaskStep, OwnerStep, EnvStep

\* The Connection inside a HandlerManager behaves as a Connection.
THEOREM ContainsConnection == Safety => C!Safety
<1>1. Init => C!Init
  BY DEF Init, C!Init
<1> QED BY <1>1, ConnectionStep, PTL DEF Safety, C!Safety

\* The TaskGo inside a HandlerManager behaves as a TaskGo.
THEOREM ContainsTaskGo == Safety => TGP!Safety
<1>1. Init => TGP!Init
  BY DEF Init, TG!Init, TGP!Init
<1> QED BY <1>1, TaskGoStep, PTL DEF Safety, TGP!Safety

\* So their invariants hold in every HandlerManager.
LEMMA ComponentInv == Safety => [](TGP!IInv /\ ConnInv)
<1>1. TGP!Safety => []TGP!IInv
  <2>1. TGP!IsFiniteSet(Tasks)
    BY TasksAreFinite DEF IsFiniteSet, TGP!IsFiniteSet
  <2> QED BY TGP!SafetyInv, <2>1
<1>2. C!Safety => []ConnInv
  BY ConnAlways, ChanCapAssumption, RolesAreCalls
<1> QED BY <1>1, <1>2, ContainsConnection, ContainsTaskGo, PTL
-----------------------------------------------------------------------------
(* The messages on the wire are the ones acknowledged with nil, and after a *)
(* partial frame the send loop is over.                                     *)
WireOK ==
  /\ wire \in Seq(Calls)
  /\ \A i \in 1 .. Len(wire) : ack[wire[i]] = "nil"
  /\ \A c \in Calls : ack[c] = "nil" => \E i \in 1 .. Len(wire) : wire[i] = c

TornStops == torn => sendPc \notin {"off", "select", "write"}

SendNotStarted == owner \in {"begin", "read", "send"} => sendPc = "off"

WriteInv == WireOK /\ TornStops /\ SendNotStarted

\* A step that leaves the wire alone and acknowledges nothing with nil, and
\* takes back no acknowledgement, preserves WireOK.
LEMMA WireKept ==
  ASSUME WireOK, UNCHANGED wire,
         \A c \in Calls : ack'[c] = "nil" <=> ack[c] = "nil"
  PROVE  WireOK'
<1>1. \A i \in 1 .. Len(wire) : wire[i] \in Calls
  BY DEF WireOK
<1> QED BY <1>1 DEF WireOK

LEMMA WriteInvStep == ConnInv /\ WriteInv /\ [Next]_vars => WriteInv'
<1> SUFFICES ASSUME ConnInv, WriteInv, [Next]_vars PROVE WriteInv'
  OBVIOUS
<1> USE DEF WriteInv
<1>0. ack \in [Calls -> {"none", "busy"} \cup C!AckErr]
  BY DEF ConnInv, C!TypeOK
<1>1. ASSUME NEW c \in Calls, WriteOk(c) PROVE WriteInv'
  <2> USE <1>1 DEF WriteOk
  <2>1. /\ ack[c] = "busy" /\ ack' = [ack EXCEPT ![c] = "nil"]
        /\ wire' = Append(wire, c) /\ UNCHANGED torn
    BY DEF C!Ack
  <2>2. /\ wire \in Seq(Calls) /\ wire' \in Seq(Calls)
        /\ Len(wire') = Len(wire) + 1 /\ Len(wire) \in Nat
        /\ \A i \in 1 .. Len(wire) : wire'[i] = wire[i] /\ wire[i] \in Calls
        /\ wire'[Len(wire) + 1] = c
    BY <2>1 DEF WireOK
  <2>3. \A i \in 1 .. Len(wire') : ack'[wire'[i]] = "nil"
    BY <1>0, <2>1, <2>2 DEF WireOK
  <2>4. ASSUME NEW d \in Calls, ack'[d] = "nil"
        PROVE  \E i \in 1 .. Len(wire') : wire'[i] = d
    <3>1. CASE d = c
      BY <2>2, <3>1
    <3>2. CASE d # c
      <4>1. PICK i \in 1 .. Len(wire) : wire[i] = d
        BY <1>0, <2>1, <2>4, <3>2 DEF WireOK
      <4> QED BY <2>2, <4>1
    <3> QED BY <3>1, <3>2
  <2>5. TornStops' /\ SendNotStarted'
    BY <2>1 DEF TornStops, SendNotStarted, ownerVars
  <2> QED BY <2>2, <2>3, <2>4, <2>5 DEF WireOK
<1>2. ASSUME NEW c \in Calls, WriteErr(c) \/ WriteTooLong(c) PROVE WriteInv'
  <2>1. UNCHANGED wire /\ (\A d \in Calls : ack'[d] = "nil" <=> ack[d] = "nil")
    BY <1>0, <1>2 DEF WriteErr, WriteTooLong, C!Ack, netVars
  <2>2. TornStops' /\ SendNotStarted'
    BY <1>2 DEF WriteErr, WriteTooLong, TornStops, SendNotStarted, netVars, ownerVars
  <2> QED BY <2>1, <2>2, WireKept
<1>3. ASSUME NEW c \in Calls, SendTake(c) PROVE WriteInv'
  <2>1. UNCHANGED wire /\ (\A d \in Calls : ack'[d] = "nil" <=> ack[d] = "nil")
    BY <1>0, <1>3 DEF SendTake, C!Take, netVars
  <2>2. TornStops' /\ SendNotStarted'
    BY <1>3 DEF SendTake, TornStops, SendNotStarted, netVars, ownerVars
  <2> QED BY <2>1, <2>2, WireKept
<1>4. ASSUME NEW c \in Calls, WritePanic(c) PROVE WriteInv'
  BY <1>4, WireKept DEF WritePanic, TornStops, SendNotStarted, connVars, ownerVars
<1>5. CASE SendQuit \/ SendMerr \/ SendExit
  <2>1. UNCHANGED <<ack, wire, torn>>
    BY <1>5 DEF SendQuit, SendMerr, SendExit, connVars, netVars
  <2>2. TornStops' /\ SendNotStarted'
    BY <1>5, <2>1 DEF SendQuit, SendMerr, SendExit, TornStops, SendNotStarted, ownerVars
  <2> QED BY <2>1, <2>2, WireKept
<1>6. CASE StartSend
  <2>1. UNCHANGED <<ack, wire, torn>> /\ ~torn
    BY <1>6 DEF StartSend, connVars, netVars, TornStops, SendNotStarted
  <2>2. TornStops' /\ SendNotStarted'
    BY <1>6, <2>1 DEF StartSend, TornStops, SendNotStarted
  <2> QED BY <2>1, <2>2, WireKept
<1>7. ASSUME UNCHANGED <<ack, wire, torn, sendPc>>,
             owner' \in {"begin", "read", "send"} => owner \in {"begin", "read", "send"}
      PROVE  WriteInv'
  BY <1>7, WireKept DEF TornStops, SendNotStarted
<1>8. CASE StartBegin \/ StartRead
  BY <1>7, <1>8 DEF StartBegin, StartRead, connVars, loopVars, netVars
<1>9. CASE StopMerr \/ StopConn \/ StopNet \/ StopCancel
  BY <1>7, <1>9 DEF StopMerr, StopConn, StopNet, StopCancel, C!Close, connVars,
     loopVars, netVars, ownerVars
<1>10. CASE ReadExit \/ BeginExit \/ ReadMsg \/ HandlerReturn \/ HandlerPanic \/ ReadErr
  BY <1>7, <1>10 DEF ReadExit, BeginExit, ReadMsg, HandlerReturn, HandlerPanic,
     ReadErr, connVars, loopVars, netVars, ownerVars
<1>11. CASE OwnerStop \/ OwnerWait \/ OwnerCloseDone \/ OwnerConnErr \/ OwnerClose
  BY <1>7, <1>11 DEF OwnerStop, OwnerWait, OwnerCloseDone, OwnerConnErr, OwnerClose,
     connVars, loopVars, netVars, ownerVars
<1>12. ASSUME NEW c \in Calls, CallStart(c) \/ CallStep(c) \/ CallCancel(c)
       PROVE  WriteInv'
  BY <1>7, <1>12 DEF CallStart, CallStep, CallCancel, C!SendMsg, C!CallStep, C!Enqueue,
     C!ReturnClosed, C!ReturnCtx, C!ReturnAck, C!CancelCall, loopVars, netVars, ownerVars
<1>13. CASE UserClose \/ ParentCancel \/ PeerFault
  BY <1>7, <1>13 DEF UserClose, ParentCancel, PeerFault, C!Close, connVars, loopVars,
     netVars, ownerVars
<1>14. CASE UNCHANGED vars
  BY <1>7, <1>14 DEF vars, connVars, loopVars, netVars, ownerVars
<1> QED
  BY <1>1, <1>2, <1>3, <1>4, <1>5, <1>6, <1>8, <1>9, <1>10, <1>11, <1>12, <1>13, <1>14
     DEF Next, TaskStep, OwnerStep, EnvStep

LEMMA WriteInvAlways == Safety => [](ConnInv /\ WriteInv)
<1>1. Init => WriteInv
  BY DEF Init, C!Init, WriteInv, WireOK, TornStops, SendNotStarted
<1> QED BY <1>1, WriteInvStep, ComponentInv, PTL DEF Safety

\* SendMsg returns nil only for a message whose frame is on the wire: for any
\* number of callers, any channel capacity and any way the connection ends.
THEOREM NilIsWritten == Safety => []NilMeansWritten
<1>1. ConnInv /\ WriteInv => NilMeansWritten
  BY DEF ConnInv, ResultIsAck, C!AckErr, WriteInv, WireOK, NilMeansWritten
<1> QED BY <1>1, WriteInvAlways, PTL
-----------------------------------------------------------------------------
(* HandlerManager implements MsgDelivery.                                  *)

Statuses == [c \in Calls |-> StatusOf(c)]

\* A step of one call changes the status of that call only.
LEMMA StatusStep ==
  ASSUME NEW c \in Calls, NEW r, call \in [Calls -> {"idle", "select", "wait"} \cup C!Results],
         call' = [call EXCEPT ![c] = r]
  PROVE  Statuses' = [Statuses EXCEPT ![c] = StatusOf(c)']
BY DEF Statuses, StatusOf, C!InFlight

\* Each step is one step of the contract or invisible to it.
LEMMA DeliveryStep == ConnInv /\ WriteInv /\ [Next]_vars => [MD!Next]_(MD!vars)
<1> SUFFICES ASSUME ConnInv, WriteInv, [Next]_vars
             PROVE  MD!Next \/ UNCHANGED <<Statuses, wire, torn>>
  BY DEF MD!vars, Statuses
<1>0. /\ call \in [Calls -> {"idle", "select", "wait"} \cup C!Results]
      /\ ack \in [Calls -> {"none", "busy"} \cup C!AckErr]
  BY DEF ConnInv, C!TypeOK
<1>1. ASSUME UNCHANGED <<call, wire, torn>> PROVE UNCHANGED <<Statuses, wire, torn>>
  BY <1>1 DEF Statuses, StatusOf, C!InFlight
<1>2. ASSUME NEW c \in Calls, WriteOk(c) PROVE MD!Next
  <2>1. /\ ack[c] = "busy" /\ UNCHANGED <<call, torn>> /\ ~torn
        /\ wire' = Append(wire, c)
    BY <1>2 DEF WriteOk, C!Ack, WriteInv, TornStops
  <2>2. StatusOf(c) # "idle"
    BY <1>0, <2>1 DEF ConnInv, QueueOK, StatusOf, C!InFlight
  <2>3. ~ \E i \in 1 .. Len(wire) : wire[i] = c
    BY <2>1 DEF WriteInv, WireOK
  <2>4. UNCHANGED Statuses
    BY <2>1 DEF Statuses, StatusOf, C!InFlight
  <2>5. MD!Deliver(c)
    BY <2>1, <2>2, <2>3, <2>4 DEF MD!Deliver, MD!Delivered, Statuses
  <2> QED BY <2>5 DEF MD!Next
<1>3. ASSUME NEW c \in Calls, WriteErr(c) \/ WritePanic(c)
      PROVE  MD!Next \/ UNCHANGED <<Statuses, wire, torn>>
  <2>1. UNCHANGED <<call, wire>> /\ ~torn /\ torn' \in {torn, TRUE}
    BY <1>3 DEF WriteErr, WritePanic, C!Ack, connVars, WriteInv, TornStops
  <2>2. UNCHANGED Statuses
    BY <2>1 DEF Statuses, StatusOf, C!InFlight
  <2>3. CASE torn' = TRUE
    BY <2>1, <2>2, <2>3 DEF MD!Tear, MD!Next, Statuses
  <2>4. CASE torn' = torn
    BY <2>1, <2>2, <2>4
  <2> QED BY <2>1, <2>3, <2>4
<1>4. ASSUME NEW c \in Calls, CallStart(c) PROVE MD!Next
  <2>1. /\ call[c] = "idle" /\ call' = [call EXCEPT ![c] = "select"]
        /\ UNCHANGED <<wire, torn>>
    BY <1>4 DEF CallStart, C!SendMsg, C!Goto, netVars
  <2>2. Statuses' = [Statuses EXCEPT ![c] = StatusOf(c)']
    BY <1>0, <2>1, StatusStep
  <2>3. StatusOf(c) = "idle" /\ StatusOf(c)' = "pending"
    BY <1>0, <2>1 DEF StatusOf, C!InFlight
  <2>4. MD!Begin(c)
    BY <2>1, <2>2, <2>3 DEF MD!Begin, MD!Step, Statuses
  <2> QED BY <2>4 DEF MD!Next
<1>5. ASSUME NEW c \in Calls, CallStep(c)
      PROVE  MD!Next \/ UNCHANGED <<Statuses, wire, torn>>
  <2>1. UNCHANGED <<wire, torn>>
    BY <1>5 DEF CallStep, netVars
  <2>2. CASE C!Enqueue(c)
    <3>1. call[c] = "select" /\ call' = [call EXCEPT ![c] = "wait"]
      BY <2>2 DEF C!Enqueue, C!Goto
    <3>2. StatusOf(c) = "pending" /\ StatusOf(c)' = "pending"
      BY <1>0, <3>1 DEF StatusOf, C!InFlight
    <3>3. Statuses' = [Statuses EXCEPT ![c] = StatusOf(c)']
      BY <1>0, <3>1, StatusStep
    <3> QED BY <2>1, <3>2, <3>3 DEF Statuses
  <2>3. ASSUME NEW r \in C!Results, call[c] \in {"select", "wait"},
               call' = [call EXCEPT ![c] = r],
               r = "nil" => ack[c] = "nil"
        PROVE  MD!Next
    <3>1. Statuses' = [Statuses EXCEPT ![c] = StatusOf(c)']
      BY <1>0, <2>3, StatusStep
    <3>2. StatusOf(c) = "pending"
      BY <2>3 DEF StatusOf, C!InFlight
    <3>3. StatusOf(c)' = IF r = "nil" THEN "ok" ELSE "err"
      BY <1>0, <2>3 DEF StatusOf, C!InFlight, C!Results, C!AckErr
    <3>4. CASE r = "nil"
      <4>1. MD!Delivered(c)
        BY <2>3, <3>4 DEF WriteInv, WireOK, MD!Delivered
      <4> QED BY <2>1, <3>1, <3>2, <3>3, <3>4, <4>1
              DEF MD!ReturnOk, MD!Step, MD!Next, Statuses
    <3>5. CASE r # "nil"
      BY <2>1, <3>1, <3>2, <3>3, <3>5 DEF MD!ReturnErr, MD!Step, MD!Next, Statuses
    <3> QED BY <3>4, <3>5
  <2>4. CASE C!ReturnClosed(c) \/ C!ReturnCtx(c) \/ C!ReturnAck(c)
    BY <2>3, <2>4 DEF C!ReturnClosed, C!ReturnCtx, C!ReturnAck, C!Goto, C!AckErr,
       C!Results, C!AckErr
  <2> QED BY <1>5, <2>2, <2>4 DEF CallStep, C!CallStep
<1>6. CASE StartBegin \/ StartRead \/ StartSend \/ StopMerr \/ StopConn \/ StopNet \/ StopCancel
  BY <1>1, <1>6 DEF StartBegin, StartRead, StartSend, StopMerr, StopConn, StopNet,
     StopCancel, C!Close, connVars, netVars
<1>7. CASE ReadExit \/ SendExit \/ BeginExit \/ ReadMsg \/ HandlerReturn \/ HandlerPanic
           \/ ReadErr \/ SendQuit \/ SendMerr
  BY <1>1, <1>7 DEF ReadExit, SendExit, BeginExit, ReadMsg, HandlerReturn, HandlerPanic,
     ReadErr, SendQuit, SendMerr, connVars, netVars
<1>8. ASSUME NEW c \in Calls, SendTake(c) \/ WriteTooLong(c) \/ CallCancel(c)
      PROVE  UNCHANGED <<Statuses, wire, torn>>
  BY <1>1, <1>8 DEF SendTake, WriteTooLong, CallCancel, C!Take, C!Ack, C!CancelCall, netVars
<1>9. CASE OwnerStop \/ OwnerWait \/ OwnerCloseDone \/ OwnerConnErr \/ OwnerClose
  BY <1>1, <1>9 DEF OwnerStop, OwnerWait, OwnerCloseDone, OwnerConnErr, OwnerClose,
     connVars, netVars
<1>10. CASE UserClose \/ ParentCancel \/ PeerFault
  BY <1>1, <1>10 DEF UserClose, ParentCancel, PeerFault, C!Close, connVars, netVars
<1>11. CASE UNCHANGED vars
  BY <1>1, <1>11 DEF vars, connVars, netVars
<1> QED
  BY <1>2, <1>3, <1>4, <1>5, <1>6, <1>7, <1>8, <1>9, <1>10, <1>11
     DEF Next, TaskStep, OwnerStep, EnvStep

\* The queue, the loops and the stop implement what SendMsg promises.
THEOREM DeliveryCorrect == Safety => ImplementsMsgDelivery
<1>1. Init => MD!Init
  <2> SUFFICES ASSUME Init PROVE MD!Init
    OBVIOUS
  <2>1. \A c \in Calls : StatusOf(c) = "idle"
    BY DEF Init, C!Init, StatusOf, C!InFlight
  <2>2. Statuses = [c \in Calls |-> "idle"]
    BY <2>1 DEF Statuses
  <2> QED BY <2>2 DEF Init, MD!Init, Statuses
<1> QED BY <1>1, WriteInvAlways, DeliveryStep, PTL DEF Safety, ImplementsMsgDelivery, MD!Spec
-----------------------------------------------------------------------------
(* The error ConnErr gets names the cause of the end.                      *)

Late == {"stopping", "connErr", "close", "end"}

\* How far stop() has come, and who else may have closed what it closes.
StopOrder ==
  /\ once # "idle" => err # "nil"
  /\ connCtx => userClosed \/ once \in {"net", "cancel", "over"}
  /\ netClosed => once \in {"cancel", "over"} \/ owner = "end"
  /\ hCtx => once = "over"
  /\ owner \in Late => parentCtx \/ hCtx

\* Why a loop that has not recorded an error is at its stop(), and why a
\* Write failed.
LoopCause ==
  /\ readPc = "stop" /\ err = "nil" => panicked
  /\ sendPc = "stop" /\ err = "nil" => parentCtx \/ userClosed \/ panicked
  /\ sendPc = "writeErr" => peerFault \/ netClosed

CauseInv == StopOrder /\ LoopCause /\ ErrNamesCause

\* A transport found closed before any error was recorded was closed by the
\* owner, after the parent's cancellation.
LEMMA ClosedByOwner ==
  ASSUME StopOrder, netClosed, err = "nil"
  PROVE  parentCtx /\ owner = "end"
BY DEF StopOrder, Late

LEMMA CauseInvStep == CauseInv /\ [Next]_vars => CauseInv'
<1> SUFFICES ASSUME CauseInv, [Next]_vars PROVE CauseInv'
  OBVIOUS
<1> USE DEF CauseInv
<1> DEFINE causeVars == <<once, err, hCtx, readPc, sendPc, connCtx, owner, parentCtx,
                          userClosed, peerFault, panicked, netClosed>>
<1>1. ASSUME UNCHANGED causeVars PROVE CauseInv'
  BY <1>1 DEF StopOrder, LoopCause, ErrNamesCause
<1>2. CASE StopMerr
  BY <1>2 DEF StopMerr, Merr, Stopping, StopOrder, LoopCause, ErrNamesCause, Late,
     connVars, loopVars, ownerVars, envVars, netVars
<1>3. CASE StopConn \/ StopNet \/ StopCancel
  BY <1>3 DEF StopConn, StopNet, StopCancel, C!Close, StopOrder, LoopCause,
     ErrNamesCause, Late, connVars, loopVars, ownerVars, envVars, netVars
<1>4. CASE ReadExit \/ SendExit \/ ReadMsg \/ HandlerReturn \/ HandlerPanic
  BY <1>4 DEF ReadExit, SendExit, ReadMsg, HandlerReturn, HandlerPanic, StopOrder,
     LoopCause, ErrNamesCause, Late, connVars, stopVars, ownerVars, envVars, netVars
<1>5. CASE ReadErr
  <2>1. err = "nil" => peerFault \/ (parentCtx /\ owner = "end")
    BY <1>5, ClosedByOwner DEF ReadErr
  <2> QED BY <1>5, <2>1 DEF ReadErr, Merr, StopOrder, LoopCause, ErrNamesCause, Late,
          connVars, ownerVars, envVars, netVars
<1>6. CASE SendQuit
  <2>1. err = "nil" => parentCtx \/ userClosed
    BY <1>6 DEF SendQuit, hCtxDone, StopOrder
  <2> QED BY <1>6, <2>1 DEF SendQuit, StopOrder, LoopCause, ErrNamesCause, Late,
          connVars, stopVars, ownerVars, envVars, netVars
<1>7. CASE SendMerr
  <2>1. sendPc = "writeErr" /\ err = "nil" => peerFault \/ (parentCtx /\ owner = "end")
    BY ClosedByOwner DEF LoopCause
  <2> QED BY <1>7, <2>1 DEF SendMerr, Merr, StopOrder, LoopCause, ErrNamesCause, Late,
          connVars, ownerVars, envVars, netVars
<1>8. ASSUME NEW c \in Calls,
             SendTake(c) \/ WriteOk(c) \/ WriteErr(c) \/ WriteTooLong(c) \/ WritePanic(c)
      PROVE  CauseInv'
  <2>1. UNCHANGED <<once, err, hCtx, readPc, connCtx, owner, parentCtx, userClosed,
                    peerFault, netClosed>>
    BY <1>8 DEF SendTake, WriteOk, WriteErr, WriteTooLong, WritePanic, C!Take, C!Ack,
       connVars, stopVars, ownerVars, envVars, netVars
  <2>2. CASE WritePanic(c)
    BY <2>1, <2>2 DEF WritePanic, StopOrder, LoopCause, ErrNamesCause, Late
  <2>3. CASE ~WritePanic(c)
    <3>1. /\ UNCHANGED panicked /\ sendPc' # "stop"
          /\ sendPc' = "writeErr" => peerFault \/ netClosed
      BY <1>8, <2>3 DEF SendTake, WriteOk, WriteErr, WriteTooLong, envVars
    <3> QED BY <2>1, <3>1 DEF StopOrder, LoopCause, ErrNamesCause, Late
  <2> QED BY <2>2, <2>3
<1>9. CASE StartBegin \/ StartRead \/ StartSend
  BY <1>9 DEF StartBegin, StartRead, StartSend, StopOrder, LoopCause, ErrNamesCause, Late,
     connVars, loopVars, stopVars, envVars, netVars
<1>10. CASE OwnerStop \/ OwnerCloseDone \/ OwnerConnErr \/ OwnerClose
  BY <1>10 DEF OwnerStop, OwnerCloseDone, OwnerConnErr, OwnerClose, hCtxDone, StopOrder,
     LoopCause, ErrNamesCause, Late, connVars, loopVars, stopVars, envVars, netVars
<1>11. CASE BeginExit \/ OwnerWait
  BY <1>1, <1>11 DEF BeginExit, OwnerWait, connVars, loopVars, stopVars, ownerVars,
     envVars, netVars
<1>12. ASSUME NEW c \in Calls, CallStart(c) \/ CallStep(c) \/ CallCancel(c)
       PROVE  CauseInv'
  BY <1>1, <1>12 DEF CallStart, CallStep, CallCancel, C!SendMsg, C!CallStep, C!Enqueue,
     C!ReturnClosed, C!ReturnCtx, C!ReturnAck, C!CancelCall, loopVars, stopVars,
     ownerVars, envVars, netVars
<1>13. CASE UserClose \/ ParentCancel \/ PeerFault
  BY <1>13 DEF UserClose, ParentCancel, PeerFault, C!Close, StopOrder, LoopCause,
     ErrNamesCause, Late, connVars, loopVars, stopVars, ownerVars, netVars
<1>14. CASE UNCHANGED vars
  BY <1>1, <1>14 DEF vars, connVars, loopVars, stopVars, ownerVars, envVars, netVars
<1> QED
  BY <1>2, <1>3, <1>4, <1>5, <1>6, <1>7, <1>8, <1>9, <1>10, <1>11, <1>12, <1>13, <1>14
     DEF Next, TaskStep, OwnerStep, EnvStep

\* h.err names the real cause: stop() never turns the close it does itself
\* into an I/O error of the peer, and an end caused here is not blamed on it.
THEOREM CauseCorrect == Safety => []ErrNamesCause
<1>1. Init => CauseInv
  BY DEF Init, C!Init, CauseInv, StopOrder, LoopCause, ErrNamesCause, Late
<1> QED BY <1>1, CauseInvStep, PTL DEF Safety, CauseInv
-----------------------------------------------------------------------------
(* Why ConnErr got a nil error.                                            *)

\* A loop and its task in TaskGo go together, and a loop ends behind stop().
LoopTasks ==
  /\ readPc = "off" <=> task["read"] = "none"
  /\ readPc = "end" <=> task["read"] = "done"
  /\ sendPc = "off" <=> task["send"] = "none"
  /\ sendPc = "end" <=> task["send"] = "done"
  /\ readPc = "end" \/ sendPc = "end" => once = "over"

\* The owner starts both loops before it waits, and is the only stopper.
OwnerOrder ==
  /\ owner \notin {"begin", "read"} => task["read"] # "none"
  /\ owner \notin {"begin", "read", "send"} => task["send"] # "none"
  /\ owner \notin Late <=> stopper["owner"] = "idle"
  /\ status = "stoped" => stopper["owner"] # "idle"
  /\ stopper["owner"] # "already"
  /\ owner \in {"connErr", "close", "end"} => stopper["owner"] \in TG!Returned
  /\ connErr = "nil" => owner \in {"close", "end"}

\* What a timed-out StopAndWait did not report had ended.
UnreportedEnded ==
  stopper["owner"] = "err" =>
    \A t \in {"read", "send"} : t \in report["owner"] \/ task[t] = "done"

StuckInv == LoopTasks /\ OwnerOrder /\ UnreportedEnded /\ ConnErrNilOnlyWhenStuck

\* When StopWithTimeout has returned and h.err is still nil, the parent ended
\* the connection and neither loop did.
LEMMA NilErrIsStuck ==
  ASSUME TGP!IInv, CauseInv, StuckInv, owner = "connErr", err = "nil"
  PROVE  parentCtx /\ {"read", "send"} \subseteq report["owner"]
<1>1. once = "idle" /\ ~hCtx
  BY DEF CauseInv, StopOrder
<1>2. parentCtx
  BY <1>1 DEF CauseInv, StopOrder, Late
<1>3. task["read"] # "done" /\ task["send"] # "done"
  BY <1>1 DEF StuckInv, LoopTasks
<1>4. task["read"] = "running"
  BY <1>3 DEF StuckInv, OwnerOrder, TGP!IInv, TGP!TypeOK, Tasks
<1>5. stopper["owner"] # "finished"
  BY <1>4 DEF TGP!IInv, TGP!FinishedMeansNoneRunning, TGP!Running, Tasks
<1>6. stopper["owner"] = "err"
  BY <1>5 DEF StuckInv, OwnerOrder, TG!Returned
<1> QED BY <1>2, <1>3, <1>6 DEF StuckInv, UnreportedEnded

LEMMA StuckInvStep ==
  TGP!IInv /\ CauseInv /\ StuckInv /\ [Next]_vars => StuckInv'
<1> SUFFICES ASSUME TGP!IInv, CauseInv, StuckInv, [Next]_vars PROVE StuckInv'
  OBVIOUS
<1> USE DEF StuckInv
<1>0. /\ task \in [Tasks -> {"none", "running", "done"}]
      /\ stopper \in [{"owner"} -> TGP!StopperState]
      /\ report \in [{"owner"} -> SUBSET Tasks]
      /\ status \in {"open", "stoped"}
  BY DEF TGP!IInv, TGP!TypeOK
<1> USE <1>0 DEF Tasks
<1>1. ASSUME UNCHANGED <<tgVars, readPc, sendPc, once, ownerVars>>,
             parentCtx => parentCtx'
      PROVE  StuckInv'
  BY <1>1 DEF LoopTasks, OwnerOrder, UnreportedEnded, ConnErrNilOnlyWhenStuck, Late,
     tgVars, ownerVars
<1>2. CASE StartBegin \/ StartRead \/ StartSend
  BY <1>2 DEF StartBegin, StartRead, StartSend, TG!Go, TG!Register, LoopTasks, OwnerOrder,
     UnreportedEnded, ConnErrNilOnlyWhenStuck, Late, loopVars, stopVars, envVars
<1>3. CASE ReadExit \/ SendExit
  BY <1>3 DEF ReadExit, SendExit, TG!Done, TG!Finish, LoopTasks, OwnerOrder,
     UnreportedEnded, ConnErrNilOnlyWhenStuck, Late, stopVars, ownerVars, envVars
<1>4. CASE BeginExit
  BY <1>4 DEF BeginExit, TG!Done, TG!Finish, LoopTasks, OwnerOrder, UnreportedEnded,
     ConnErrNilOnlyWhenStuck, Late, loopVars, stopVars, ownerVars, envVars
<1>5. CASE StopMerr \/ StopConn \/ StopNet \/ StopCancel
  BY <1>5 DEF StopMerr, StopConn, StopNet, StopCancel, LoopTasks, OwnerOrder,
     UnreportedEnded, ConnErrNilOnlyWhenStuck, Late, tgVars, loopVars, ownerVars, envVars
<1>6. CASE ReadMsg \/ HandlerReturn \/ HandlerPanic \/ ReadErr \/ SendQuit \/ SendMerr
  BY <1>6 DEF ReadMsg, HandlerReturn, HandlerPanic, ReadErr, SendQuit, SendMerr, LoopTasks,
     OwnerOrder, UnreportedEnded, ConnErrNilOnlyWhenStuck, Late, tgVars, stopVars,
     ownerVars, envVars
<1>7. ASSUME NEW c \in Calls,
             SendTake(c) \/ WriteOk(c) \/ WriteErr(c) \/ WriteTooLong(c) \/ WritePanic(c)
      PROVE  StuckInv'
  <2>1. /\ UNCHANGED <<tgVars, readPc, once, ownerVars, parentCtx>>
        /\ sendPc \notin {"off", "end"} /\ sendPc' \notin {"off", "end"}
    BY <1>7 DEF SendTake, WriteOk, WriteErr, WriteTooLong, WritePanic, stopVars, ownerVars,
       envVars
  <2> QED BY <2>1 DEF LoopTasks, OwnerOrder, UnreportedEnded, ConnErrNilOnlyWhenStuck, Late,
          tgVars, ownerVars
<1>8. CASE OwnerStop
  BY <1>8 DEF OwnerStop, TG!StopAndWait, LoopTasks, OwnerOrder, UnreportedEnded,
     ConnErrNilOnlyWhenStuck, Late, loopVars, stopVars, envVars
<1>9. CASE OwnerWait
  <2>1. UNCHANGED <<task, readPc, sendPc, once, owner, connErr, parentCtx, status>>
    BY <1>9 DEF OwnerWait, TG!Cancel, TG!StopFinished, TG!StopTimeout, TG!StopReport,
       loopVars, stopVars, ownerVars, envVars
  <2>2. /\ stopper["owner"] \notin {"idle"} \cup TG!Returned
        /\ stopper'["owner"] \notin {"idle", "already"}
    BY <1>9 DEF OwnerWait, TG!Cancel, TG!StopFinished, TG!StopTimeout, TG!StopReport,
       TG!Returned
  <2>3. stopper'["owner"] = "err" => report'["owner"] = {t \in Tasks : task[t] = "running"}
    BY <1>9 DEF OwnerWait, TG!Cancel, TG!StopFinished, TG!StopTimeout, TG!StopReport,
       TG!Running
  <2>4. owner \in {"stopping"} /\ connErr # "nil"
    BY <2>2 DEF OwnerOrder, Late
  <2>5. UnreportedEnded'
    BY <2>1, <2>3, <2>4 DEF UnreportedEnded, OwnerOrder
  <2> QED BY <2>1, <2>2, <2>4, <2>5 DEF LoopTasks, OwnerOrder, ConnErrNilOnlyWhenStuck, Late
<1>10. CASE OwnerCloseDone \/ OwnerClose
  BY <1>10 DEF OwnerCloseDone, OwnerClose, LoopTasks, OwnerOrder, UnreportedEnded,
     ConnErrNilOnlyWhenStuck, Late, tgVars, loopVars, stopVars, envVars
<1>11. CASE OwnerConnErr
  <2>1. connErr' = "nil" => parentCtx /\ {"read", "send"} \subseteq report["owner"]
    BY <1>11, NilErrIsStuck DEF OwnerConnErr, ErrOrdered
  <2> QED BY <1>11, <2>1 DEF OwnerConnErr, LoopTasks, OwnerOrder, UnreportedEnded,
          ConnErrNilOnlyWhenStuck, Late, tgVars, loopVars, stopVars, envVars
<1>12. ASSUME NEW c \in Calls, CallStart(c) \/ CallStep(c) \/ CallCancel(c)
       PROVE  StuckInv'
  BY <1>1, <1>12 DEF CallStart, CallStep, CallCancel, loopVars, stopVars, envVars
<1>13. CASE UserClose \/ ParentCancel \/ PeerFault
  BY <1>1, <1>13 DEF UserClose, ParentCancel, PeerFault, loopVars, stopVars
<1>14. CASE UNCHANGED vars
  BY <1>1, <1>14 DEF vars, loopVars, stopVars, envVars
<1> QED
  BY <1>2, <1>3, <1>4, <1>5, <1>6, <1>7, <1>8, <1>9, <1>10, <1>11, <1>12, <1>13, <1>14
     DEF Next, TaskStep, OwnerStep, EnvStep

\* ConnErr gets nil only for a connection that was cancelled from outside and
\* neither of whose loops ended in time, though h.err is read without a lock.
THEOREM NilConnErrIsStuck == Safety => []ConnErrNilOnlyWhenStuck
<1>1. Init => CauseInv
  BY DEF Init, C!Init, CauseInv, StopOrder, LoopCause, ErrNamesCause, Late
<1>2. Init => StuckInv
  BY DEF Init, TG!Init, Tasks, StuckInv, LoopTasks, OwnerOrder, UnreportedEnded,
     ConnErrNilOnlyWhenStuck, Late, None
<1> QED
  BY <1>1, <1>2, ComponentInv, CauseInvStep, StuckInvStep, PTL DEF Safety, StuckInv
-----------------------------------------------------------------------------
(* What a stop that was not cut short leaves behind.                       *)

\* A handler sends while it occupies the read loop, the callback while its
\* task runs.
Senders ==
  /\ \A c \in ReadCalls : C!InFlight(c) => readPc = "handling"
  /\ \A c \in BeginCalls : C!InFlight(c) => task["begin"] = "running"

\* What stop() has closed when it has come so far.
StopDid ==
  /\ once \in {"net", "cancel", "over"} => connCtx
  /\ once \in {"cancel", "over"} => netClosed

CleanInv == Senders /\ StopDid

\* A step that starts no call, keeps a handler that is inside SendMsg where it
\* is, and does not end a callback that is.
LEMMA SendersKept ==
  ASSUME Senders,
         \A c \in Calls : C!InFlight(c)' => C!InFlight(c),
         readPc = "handling" /\ readPc' # "handling"
           => \A c \in ReadCalls : ~C!InFlight(c),
         task["begin"] = "running" /\ task'["begin"] # "running"
           => \A c \in BeginCalls : ~C!InFlight(c)
  PROVE  Senders'
BY RolesAreCalls DEF Senders

LEMMA CleanInvStep ==
  TGP!IInv /\ ConnInv /\ StuckInv /\ CleanInv /\ [Next]_vars => CleanInv'
<1> SUFFICES ASSUME TGP!IInv, ConnInv, StuckInv, CleanInv, [Next]_vars PROVE CleanInv'
  OBVIOUS
<1> USE DEF CleanInv
<1>0. /\ task \in [Tasks -> {"none", "running", "done"}]
      /\ call \in [Calls -> {"idle", "select", "wait"} \cup C!Results]
  BY DEF TGP!IInv, TGP!TypeOK, ConnInv, C!TypeOK
<1> USE <1>0 DEF Tasks, C!InFlight
<1>1. ASSUME UNCHANGED <<call, readPc, task>> PROVE Senders'
  BY <1>1 DEF Senders
<1>2. ASSUME UNCHANGED <<once, netClosed>>, connCtx => connCtx' PROVE StopDid'
  BY <1>2 DEF StopDid
<1>3. CASE StopMerr \/ StopConn \/ StopNet \/ StopCancel
  <2>1. Senders'
    BY <1>1, <1>3 DEF StopMerr, StopConn, StopNet, StopCancel, C!Close, tgVars, connVars, loopVars
  <2>2. StopDid'
    BY <1>3 DEF StopMerr, StopConn, StopNet, StopCancel, C!Close, StopDid, connVars, netVars
  <2> QED BY <2>1, <2>2
<1>4. CASE StartBegin \/ StartRead \/ StartSend
  <2>1. UNCHANGED call /\ (readPc = "handling" => readPc' = "handling")
    BY <1>4 DEF StartBegin, StartRead, StartSend, TG!Go, TG!Register, connVars, loopVars,
       StuckInv, LoopTasks
  <2>2. task["begin"] = "running" => task'["begin"] = "running"
    BY <1>4 DEF StartBegin, StartRead, StartSend, TG!Go, TG!Register
  <2>3. Senders'
    BY <2>1, <2>2, SendersKept
  <2> QED BY <1>2, <1>4, <2>3 DEF StartBegin, StartRead, StartSend, connVars, stopVars, netVars
<1>5. CASE ReadExit \/ SendExit \/ BeginExit
  <2>1. Senders'
    BY <1>5, SendersKept DEF ReadExit, SendExit, BeginExit, TG!Done, TG!Finish, connVars,
       loopVars
  <2> QED BY <1>2, <1>5, <2>1 DEF ReadExit, SendExit, BeginExit, connVars, stopVars, netVars
<1>6. CASE ReadMsg \/ HandlerReturn \/ HandlerPanic \/ ReadErr
  <2>1. Senders'
    BY <1>6, SendersKept DEF ReadMsg, HandlerReturn, HandlerPanic, ReadErr, connVars, tgVars
  <2> QED BY <1>2, <1>6, <2>1 DEF ReadMsg, HandlerReturn, HandlerPanic, ReadErr, connVars,
          stopVars, netVars
<1>7. CASE SendQuit \/ SendMerr
  BY <1>1, <1>2, <1>7 DEF SendQuit, SendMerr, tgVars, connVars, stopVars, netVars
<1>8. ASSUME NEW c \in Calls,
             SendTake(c) \/ WriteOk(c) \/ WriteErr(c) \/ WriteTooLong(c) \/ WritePanic(c)
      PROVE  CleanInv'
  BY <1>1, <1>2, <1>8 DEF SendTake, WriteOk, WriteErr, WriteTooLong, WritePanic, C!Take, C!Ack,
     tgVars, connVars, stopVars, netVars
<1>9. CASE OwnerStop \/ OwnerWait \/ OwnerCloseDone \/ OwnerConnErr \/ OwnerClose
  <2>1. UNCHANGED <<call, connCtx, readPc, task, once>> /\ (netClosed => netClosed')
    BY <1>9 DEF OwnerStop, OwnerWait, OwnerCloseDone, OwnerConnErr, OwnerClose, TG!StopAndWait,
       TG!Cancel, TG!StopFinished, TG!StopTimeout, TG!StopReport, tgVars, connVars, loopVars,
       stopVars, netVars
  <2> QED BY <1>1, <2>1 DEF StopDid
<1>10. ASSUME NEW c \in Calls, CallStart(c) \/ CallStep(c) \/ CallCancel(c)
       PROVE  CleanInv'
  <2>1. UNCHANGED <<readPc, task, once, netClosed, connCtx>>
    BY <1>10 DEF CallStart, CallStep, CallCancel, C!SendMsg, C!CallStep, C!Enqueue,
       C!ReturnClosed, C!ReturnCtx, C!ReturnAck, C!CancelCall, tgVars, loopVars, stopVars, netVars
  <2>2. \A d \in Calls \ {c} : call'[d] = call[d]
    BY <1>10 DEF CallStart, CallStep, CallCancel, C!SendMsg, C!CallStep, C!Enqueue,
       C!ReturnClosed, C!ReturnCtx, C!ReturnAck, C!CancelCall, C!Goto
  <2>3. CASE CallStart(c)
    <3>1. MayCall(c)
      BY <2>3 DEF CallStart
    <3> QED BY <1>2, <2>1, <2>2, <3>1, RolesAreCalls DEF MayCall, Senders
  <2>4. CASE CallStep(c) \/ CallCancel(c)
    <3>1. C!InFlight(c)' => C!InFlight(c)
      BY <2>4 DEF CallStep, CallCancel, C!CallStep, C!Enqueue, C!ReturnClosed, C!ReturnCtx,
         C!ReturnAck, C!CancelCall, C!Goto
    <3> QED BY <1>2, <2>1, <2>2, <3>1, SendersKept
  <2> QED BY <1>10, <2>3, <2>4
<1>11. CASE UserClose \/ ParentCancel \/ PeerFault
  BY <1>1, <1>2, <1>11 DEF UserClose, ParentCancel, PeerFault, C!Close, tgVars, connVars,
     loopVars, stopVars, netVars
<1>12. CASE UNCHANGED vars
  BY <1>1, <1>2, <1>12 DEF vars, tgVars, connVars, loopVars, stopVars, netVars
<1> QED
  BY <1>3, <1>4, <1>5, <1>6, <1>7, <1>8, <1>9, <1>10, <1>11, <1>12
     DEF Next, TaskStep, OwnerStep, EnvStep

\* A StopAndWait that returns nil leaves a connection that is over: stop() has
\* done all it does, and no handler and no callback is inside SendMsg.
THEOREM StopIsClean == Safety => []CleanStop
<1>1. Init => CauseInv
  BY DEF Init, C!Init, CauseInv, StopOrder, LoopCause, ErrNamesCause, Late
<1>2. Init => StuckInv
  BY DEF Init, TG!Init, Tasks, StuckInv, LoopTasks, OwnerOrder, UnreportedEnded,
     ConnErrNilOnlyWhenStuck, Late, None
<1>3. Init => CleanInv
  BY RolesAreCalls DEF Init, C!Init, C!InFlight, CleanInv, Senders, StopDid
<1>4. TGP!IInv /\ CauseInv /\ StuckInv /\ CleanInv => CleanStop
  <2> SUFFICES ASSUME TGP!IInv, CauseInv, StuckInv, CleanInv, stopper["owner"] = "finished"
               PROVE  /\ once = "over" /\ netClosed /\ connCtx /\ err # "nil"
                      /\ readPc = "end" /\ sendPc = "end"
                      /\ \A c \in ReadCalls \cup BeginCalls : ~C!InFlight(c)
    BY DEF CleanStop
  <2>1. \A t \in Tasks : task[t] \in {"none", "done"}
    BY DEF TGP!IInv, TGP!FinishedMeansNoneRunning, TGP!Running, TGP!TypeOK
  <2>2. readPc = "end" /\ sendPc = "end" /\ once = "over"
    BY <2>1 DEF StuckInv, OwnerOrder, LoopTasks, Tasks, Late
  <2>3. netClosed /\ connCtx /\ err # "nil"
    BY <2>2 DEF CleanInv, StopDid, CauseInv, StopOrder
  <2>4. \A c \in ReadCalls \cup BeginCalls : ~C!InFlight(c)
    BY <2>1, <2>2 DEF CleanInv, Senders, Tasks
  <2> QED BY <2>2, <2>3, <2>4
<1> QED
  BY <1>1, <1>2, <1>3, <1>4, ComponentInv, CauseInvStep, StuckInvStep, CleanInvStep, PTL DEF Safety
-----------------------------------------------------------------------------
(* Types: the components' from their own theorems, the rest by itself.     *)

Places ==
  /\ readPc \in {"off", "reading", "handling", "stop", "end"}
  /\ sendPc \in {"off", "select", "write", "writeErr", "ErrDataLength", "stop", "end"}
  /\ sending \in Calls \cup {None}
  /\ once \in {"idle", "conn", "net", "cancel", "over"}
  /\ err \in {"nil", "ErrIsClose", "readErr", "writeErr", "ErrDataLength"}
  /\ connErr \in {None, "nil", "ErrIsClose", "readErr", "writeErr", "ErrDataLength"}
  /\ owner \in {"begin", "read", "send", "wait", "stopping", "connErr", "close", "end"}

Flags ==
  /\ hCtx \in BOOLEAN /\ hDone \in BOOLEAN /\ parentCtx \in BOOLEAN
  /\ userClosed \in BOOLEAN /\ peerFault \in BOOLEAN /\ panicked \in BOOLEAN
  /\ netClosed \in BOOLEAN /\ torn \in BOOLEAN

LEMMA PlacesStep == Places /\ [Next]_vars => Places'
<1> SUFFICES ASSUME Places, [Next]_vars PROVE Places'
  OBVIOUS
<1> USE DEF Places, loopVars, stopVars, ownerVars
<1>1. CASE TaskStep
  <2>1. CASE StopMerr \/ StopConn \/ StopNet \/ StopCancel
    BY <2>1 DEF StopMerr, StopConn, StopNet, StopCancel, Merr
  <2>2. CASE ReadExit \/ SendExit \/ BeginExit
    BY <2>2 DEF ReadExit, SendExit, BeginExit
  <2>3. CASE ReadMsg \/ HandlerReturn \/ HandlerPanic \/ ReadErr
    BY <2>3 DEF ReadMsg, HandlerReturn, HandlerPanic, ReadErr, Merr
  <2>4. CASE SendQuit \/ SendMerr
    BY <2>4 DEF SendQuit, SendMerr, Merr
  <2>5. ASSUME NEW c \in Calls,
               SendTake(c) \/ WriteOk(c) \/ WriteErr(c) \/ WriteTooLong(c) \/ WritePanic(c)
        PROVE  Places'
    <3>1. /\ sending' \in {c, None}
          /\ sendPc' \in {"select", "write", "writeErr", "ErrDataLength", "stop"}
      BY <2>5 DEF SendTake, WriteOk, WriteErr, WriteTooLong, WritePanic
    <3>2. UNCHANGED <<readPc, once, err, connErr, owner>>
      BY <2>5 DEF SendTake, WriteOk, WriteErr, WriteTooLong, WritePanic
    <3> QED BY <3>1, <3>2
  <2> QED BY <1>1, <2>1, <2>2, <2>3, <2>4, <2>5 DEF TaskStep
<1>2. CASE OwnerStep
  BY <1>2 DEF OwnerStep, StartBegin, StartRead, StartSend, OwnerStop, OwnerWait,
     OwnerCloseDone, OwnerConnErr, OwnerClose
<1>3. CASE EnvStep
  BY <1>3 DEF EnvStep, CallStart, CallStep, CallCancel, UserClose, ParentCancel, PeerFault
<1>4. CASE UNCHANGED vars
  BY <1>4 DEF vars
<1> QED BY <1>1, <1>2, <1>3, <1>4 DEF Next

LEMMA FlagsStep == Flags /\ [Next]_vars => Flags'
<1> SUFFICES ASSUME Flags, [Next]_vars PROVE Flags'
  OBVIOUS
<1> USE DEF Flags, stopVars, envVars, netVars
<1>1. CASE TaskStep
  <2>1. CASE StopMerr \/ StopConn \/ StopNet \/ StopCancel
    BY <2>1 DEF StopMerr, StopConn, StopNet, StopCancel
  <2>2. CASE ReadExit \/ SendExit \/ BeginExit \/ SendQuit \/ SendMerr
    BY <2>2 DEF ReadExit, SendExit, BeginExit, SendQuit, SendMerr
  <2>3. CASE ReadMsg \/ HandlerReturn \/ HandlerPanic \/ ReadErr
    BY <2>3 DEF ReadMsg, HandlerReturn, HandlerPanic, ReadErr
  <2>4. ASSUME NEW c \in Calls,
               SendTake(c) \/ WriteOk(c) \/ WriteErr(c) \/ WriteTooLong(c) \/ WritePanic(c)
        PROVE  Flags'
    BY <2>4 DEF SendTake, WriteOk, WriteErr, WriteTooLong, WritePanic
  <2> QED BY <1>1, <2>1, <2>2, <2>3, <2>4 DEF TaskStep
<1>2. CASE OwnerStep
  BY <1>2 DEF OwnerStep, StartBegin, StartRead, StartSend, OwnerStop, OwnerWait,
     OwnerCloseDone, OwnerConnErr, OwnerClose
<1>3. CASE EnvStep
  BY <1>3 DEF EnvStep, CallStart, CallStep, CallCancel, UserClose, ParentCancel, PeerFault
<1>4. CASE UNCHANGED vars
  BY <1>4 DEF vars
<1> QED BY <1>1, <1>2, <1>3, <1>4 DEF Next

\* The variables of the manager, and those of the TaskGo and the Connection
\* inside it, have their types.
THEOREM TypeCorrect == Safety => []TypeOK
<1>1. Init => Places /\ Flags
  BY DEF Init, Places, Flags
<1>2. TGP!IInv => TG!TypeOK
  BY DEF TGP!IInv, TGP!TypeOK, TG!TypeOK, TGP!StopperState, TG!StopperState,
         TGP!Returned, TG!Returned
<1>3. ConnInv => C!TypeOK
  BY DEF ConnInv
<1>4. TG!TypeOK /\ C!TypeOK /\ Places /\ Flags /\ WriteInv => TypeOK
  BY DEF TypeOK, Places, Flags, WriteInv, WireOK
<1> QED
  BY <1>1, <1>2, <1>3, <1>4, ComponentInv, WriteInvAlways, PlacesStep, FlagsStep, PTL DEF Safety
=============================================================================
