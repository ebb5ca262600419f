--------------------------- MODULE HandlerManager ---------------------------
(***************************************************************************)
(* One connection.HandlerManager: the three tasks it hands to its TaskGo   *)
(* ("begin", "read", "send"), the stop() they share, and its owner, the    *)
(* goroutine that made it (Server.handlerTcpConn or Client.dialAndRun),    *)
(* waits for its context, stops it with a two-second limit, reports        *)
(* ConnErr and closes the transport.  Composes TaskGo and Connection.      *)
(***************************************************************************)
EXTENDS Integers, Sequences, FiniteSets

CONSTANTS
  Calls,       \* SendMsg calls on this connection
  ReadCalls,   \* the ones made by message handlers, on the read goroutine
  BeginCalls,  \* the ones made by the ConnectedBegin callback
  CtxCalls,    \* the ones whose context can end (SendMsgContext)
  Oversize,    \* the ones whose data exceeds maxDataLen
  ChanCap,     \* capacity of msgChan
  Faults       \* what may end the connection: some of FaultKinds

FaultKinds == {"parent", "user", "peer", "panic"}
ASSUME RolesAreCalls ==
  /\ ReadCalls \cup BeginCalls \cup CtxCalls \cup Oversize \subseteq Calls
  /\ ReadCalls \cap BeginCalls = {}
  /\ Faults \subseteq FaultKinds
ASSUME ChanCapAssumption == ChanCap \in Nat \ {0}

VARIABLES
  \* TaskGo
  task, tasksNum, status, doneCh, cancelled, stopper, report,
  \* Connection
  call, callCtx, msgChan, ack, connCtx,
  \* HandlerManager
  readPc, sendPc, sending,  \* the two loops, and the message being written
  once,        \* how far the body of h.Once.Do in stop() has run
  err,         \* h.err, written once through errOnce
  hCtx,        \* h.cancel() has been called
  hDone,       \* h.done is closed
  \* owner
  owner, connErr,  \* its position, and the error it passed to ConnErr
  \* environment
  parentCtx,   \* the context given to NewHandlerManager is done
  userClosed,  \* a user of the Connection called its Close
  peerFault,   \* the peer closed, reset, or sent a frame above maxDataLen
  panicked,    \* a handler or the transport's Write panicked
  netClosed,   \* readWriteCloser is closed on this side
  wire, torn   \* complete frames written, and whether a partial one follows

Tasks == {"begin", "read", "send"}
TG == INSTANCE TaskGo WITH Stoppers <- {"owner"}
C == INSTANCE Connection

tgVars == <<task, tasksNum, status, doneCh, cancelled, stopper, report>>
connVars == <<call, callCtx, msgChan, ack, connCtx>>
loopVars == <<readPc, sendPc, sending>>
stopVars == <<once, err, hCtx, hDone>>
ownerVars == <<owner, connErr>>
envVars == <<parentCtx, userClosed, peerFault, panicked>>
netVars == <<netClosed, wire, torn>>
vars == <<tgVars, connVars, loopVars, stopVars, ownerVars, envVars, netVars>>

None == "none"
hCtxDone == hCtx \/ parentCtx  \* h.ctx is a child of the parent context

Init ==
  /\ TG!Init /\ C!Init
  /\ readPc = "off" /\ sendPc = "off" /\ sending = None
  /\ once = "idle" /\ err = "nil" /\ hCtx = FALSE /\ hDone = FALSE
  /\ owner = "begin" /\ connErr = None
  /\ parentCtx = FALSE /\ userClosed = FALSE
  /\ peerFault = FALSE /\ panicked = FALSE
  /\ netClosed = FALSE /\ wire = <<>> /\ torn = FALSE
-----------------------------------------------------------------------------
(* NewHandlerManager starts the tasks one after the other. *)

StartBegin ==
  /\ owner = "begin" /\ owner' = "read"
  /\ TG!Go("begin")
  /\ UNCHANGED <<connVars, loopVars, stopVars, connErr, envVars, netVars>>

StartRead ==
  /\ owner = "read" /\ owner' = "send"
  /\ TG!Go("read") /\ readPc' = "reading"
  /\ UNCHANGED <<connVars, sendPc, sending, stopVars, connErr, envVars, netVars>>

StartSend ==
  /\ owner = "send" /\ owner' = "wait"
  /\ TG!Go("send") /\ sendPc' = "select"
  /\ UNCHANGED <<connVars, readPc, sending, stopVars, connErr, envVars, netVars>>
-----------------------------------------------------------------------------
(* stop(): Once.Do runs the body once; a second caller waits for its end.  *)

\* merr: only the first error is kept.
Merr(e) == err' = IF err = "nil" THEN e ELSE err

Stopping == readPc = "stop" \/ sendPc = "stop"

\* Mutant: stop() closes the transport before it records ErrIsClose.
StopMerrLate ==
  /\ Stopping /\ once = "idle"
  /\ IF netClosed THEN once' = "conn" /\ Merr("ErrIsClose") /\ UNCHANGED netClosed
                  ELSE netClosed' = TRUE /\ UNCHANGED <<once, err>>
  /\ UNCHANGED <<tgVars, connVars, loopVars, hCtx, hDone, ownerVars, envVars, wire, torn>>

StopMerr ==
  /\ Stopping /\ once = "idle" /\ once' = "conn"
  /\ Merr("ErrIsClose")
  /\ UNCHANGED <<tgVars, connVars, loopVars, hCtx, hDone, ownerVars, envVars, netVars>>

\* Mutant: stop() leaves the Connection open.
StopConnSkipped ==
  /\ once = "conn" /\ once' = "net"
  /\ UNCHANGED <<tgVars, connVars, loopVars, err, hCtx, hDone, ownerVars, envVars, netVars>>

StopConn ==
  /\ once = "conn" /\ once' = "net"
  /\ C!Close
  /\ UNCHANGED <<tgVars, loopVars, err, hCtx, hDone, ownerVars, envVars, netVars>>

\* The transport's Close is taken to return and not to panic; WebSocket models
\* one that may do either.
StopNet ==
  /\ once = "net" /\ once' = "cancel"
  /\ netClosed' = TRUE
  /\ UNCHANGED <<tgVars, connVars, loopVars, err, hCtx, hDone, ownerVars,
                 envVars, wire, torn>>

StopCancel ==
  /\ once = "cancel" /\ once' = "over"
  /\ hCtx' = TRUE
  /\ UNCHANGED <<tgVars, connVars, loopVars, err, hDone, ownerVars, envVars, netVars>>

\* stop() returns, the task function returns (or its panic is recovered) and
\* TaskGo.done runs.
ReadExit ==
  /\ readPc = "stop" /\ once = "over" /\ readPc' = "end"
  /\ TG!Done("read")
  /\ UNCHANGED <<connVars, sendPc, sending, stopVars, ownerVars, envVars, netVars>>

SendExit ==
  /\ sendPc = "stop" /\ once = "over" /\ sendPc' = "end"
  /\ TG!Done("send")
  /\ UNCHANGED <<connVars, readPc, sending, stopVars, ownerVars, envVars, netVars>>
-----------------------------------------------------------------------------
(* read(): decode a message, run its handler on this goroutine, repeat.    *)

ReadMsg ==
  /\ readPc = "reading" /\ ~netClosed /\ readPc' = "handling"
  /\ UNCHANGED <<tgVars, connVars, sendPc, sending, stopVars, ownerVars, envVars, netVars>>

\* The handler returned, with or without an error of its own.
HandlerReturn ==
  /\ readPc = "handling" /\ \A c \in ReadCalls : ~C!InFlight(c)
  /\ readPc' = "reading"
  /\ UNCHANGED <<tgVars, connVars, sendPc, sending, stopVars, ownerVars, envVars, netVars>>

\* The handler panicked: the deferred stop() runs, TaskGo recovers.
HandlerPanic ==
  /\ "panic" \in Faults
  /\ readPc = "handling" /\ \A c \in ReadCalls : ~C!InFlight(c)
  /\ readPc' = "stop" /\ panicked' = TRUE
  /\ UNCHANGED <<tgVars, connVars, sendPc, sending, stopVars, ownerVars,
                 parentCtx, userClosed, peerFault, netVars>>

\* Unmarshal failed: end of stream, reset, closed here, or a frame too long.
ReadErr ==
  /\ readPc = "reading" /\ (netClosed \/ peerFault) /\ readPc' = "stop"
  /\ Merr("readErr")
  /\ UNCHANGED <<tgVars, connVars, sendPc, sending, once, hCtx, hDone,
                 ownerVars, envVars, netVars>>
-----------------------------------------------------------------------------
(* send(): three-way select, then AckMessage around Marshal and Write.     *)

SendQuit ==
  /\ sendPc = "select" /\ (connCtx \/ hCtxDone) /\ sendPc' = "stop"
  /\ UNCHANGED <<tgVars, connVars, readPc, sending, stopVars, ownerVars, envVars, netVars>>

SendTake(c) ==
  /\ sendPc = "select" /\ sendPc' = "write"
  /\ C!Take(c) /\ sending' = c
  /\ UNCHANGED <<tgVars, readPc, stopVars, ownerVars, envVars, netVars>>

\* Marshal and Write succeeded.
WriteOk(c) ==
  /\ sendPc = "write" /\ sending = c /\ c \notin Oversize /\ ~netClosed
  /\ C!Ack(c, "nil")
  /\ wire' = Append(wire, c)
  /\ sendPc' = "select" /\ sending' = None
  /\ UNCHANGED <<tgVars, readPc, stopVars, ownerVars, envVars, netClosed, torn>>

\* Mutant: AckMessage drops the error its function returned.
WriteErrAckedNil(c) ==
  /\ sendPc = "write" /\ sending = c /\ c \notin Oversize
  /\ netClosed \/ peerFault
  /\ C!Ack(c, "nil")
  /\ torn' \in {torn, TRUE}
  /\ sendPc' = "writeErr" /\ sending' = None
  /\ UNCHANGED <<tgVars, readPc, stopVars, ownerVars, envVars, netClosed, wire>>

\* Write failed, perhaps after part of the frame was out.
WriteErr(c) ==
  /\ sendPc = "write" /\ sending = c /\ c \notin Oversize
  /\ netClosed \/ peerFault
  /\ C!Ack(c, "writeErr")
  /\ torn' \in {torn, TRUE}
  /\ sendPc' = "writeErr" /\ sending' = None
  /\ UNCHANGED <<tgVars, readPc, stopVars, ownerVars, envVars, netClosed, wire>>

\* Marshal refused the length; nothing was written.
WriteTooLong(c) ==
  /\ sendPc = "write" /\ sending = c /\ c \in Oversize
  /\ C!Ack(c, "ErrDataLength")
  /\ sendPc' = "ErrDataLength" /\ sending' = None
  /\ UNCHANGED <<tgVars, readPc, stopVars, ownerVars, envVars, netVars>>

\* The transport's Write panicked inside AckMessage: ackChan is never closed.
WritePanic(c) ==
  /\ "panic" \in Faults
  /\ sendPc = "write" /\ sending = c /\ c \notin Oversize
  /\ torn' \in {torn, TRUE}
  /\ sendPc' = "stop" /\ sending' = None /\ panicked' = TRUE
  /\ UNCHANGED <<tgVars, connVars, readPc, stopVars, ownerVars, parentCtx,
                 userClosed, peerFault, netClosed, wire>>

\* Mutant: the loop goes on after a failed message.
SendContinues ==
  /\ sendPc \in {"writeErr", "ErrDataLength"} /\ sendPc' = "select"
  /\ Merr(sendPc)
  /\ UNCHANGED <<tgVars, connVars, readPc, sending, once, hCtx, hDone,
                 ownerVars, envVars, netVars>>

\* if err != nil { h.merr(err); return err }
SendMerr ==
  /\ sendPc \in {"writeErr", "ErrDataLength"} /\ sendPc' = "stop"
  /\ Merr(sendPc)
  /\ UNCHANGED <<tgVars, connVars, readPc, sending, once, hCtx, hDone,
                 ownerVars, envVars, netVars>>
-----------------------------------------------------------------------------
\* Mutant: the task starts the callback on a goroutine of its own.
BeginDetached ==
  /\ TG!Done("begin")
  /\ UNCHANGED <<connVars, loopVars, stopVars, ownerVars, envVars, netVars>>

\* The connectedBegin callback returned, or panicked.
BeginExit ==
  /\ \A c \in BeginCalls : ~C!InFlight(c)
  /\ TG!Done("begin")
  /\ UNCHANGED <<connVars, loopVars, stopVars, ownerVars, envVars, netVars>>
-----------------------------------------------------------------------------
(* The owner: StopWithTimeout, close(h.done), ConnErr, transport Close.    *)

OwnerStop ==
  /\ owner = "wait" /\ hCtxDone /\ owner' = "stopping"
  /\ TG!StopAndWait("owner")
  /\ UNCHANGED <<connVars, loopVars, stopVars, connErr, envVars, netVars>>

OwnerWait ==
  /\ TG!Cancel("owner") \/ TG!StopFinished("owner")
     \/ TG!StopTimeout("owner") \/ TG!StopReport("owner")
  /\ UNCHANGED <<connVars, loopVars, stopVars, ownerVars, envVars, netVars>>

OwnerCloseDone ==
  /\ owner = "stopping" /\ stopper["owner"] \in TG!Returned
  /\ owner' = "connErr" /\ hDone' = TRUE
  /\ UNCHANGED <<tgVars, connVars, loopVars, once, err, hCtx, connErr, envVars, netVars>>

\* Err() reads h.err without synchronisation.  The read is ordered after the
\* write of h.err if h.cancel() woke the owner, or if StopAndWait saw (under
\* its mutex) that "read" or "send", which end with stop(), had finished;
\* otherwise the owner may or may not see a write that has been made.
ErrOrdered == ~parentCtx \/ ~({"read", "send"} \subseteq report["owner"])

\* Mutant: ConnErr is called before the wait for the tasks ends.
OwnerConnErrEarly ==
  /\ owner \in {"stopping", "connErr"} /\ connErr = None /\ connErr' = err
  /\ owner' = IF owner = "connErr" THEN "close" ELSE owner
  /\ UNCHANGED <<tgVars, connVars, loopVars, stopVars, envVars, netVars>>

OwnerConnErr ==
  /\ owner = "connErr" /\ owner' = "close"
  /\ connErr' \in IF ErrOrdered THEN {err} ELSE {err, "nil"}
  /\ UNCHANGED <<tgVars, connVars, loopVars, stopVars, envVars, netVars>>

\* Mutant: no deferred conn.Close() in the owner.
OwnerLeavesOpen ==
  /\ owner = "close" /\ owner' = "end"
  /\ UNCHANGED <<tgVars, connVars, loopVars, stopVars, connErr, envVars, netVars>>

OwnerClose ==
  /\ owner = "close" /\ owner' = "end"
  /\ netClosed' = TRUE
  /\ UNCHANGED <<tgVars, connVars, loopVars, stopVars, connErr, envVars, wire, torn>>
-----------------------------------------------------------------------------
(* Callers of SendMsg, users of the Connection, the parent, the peer.      *)

\* The callback is the first to be handed the Connection.
Handed == task["begin"] # "none"

\* A handler calls SendMsg while it runs, the callback while its task does,
\* other goroutines once they got the Connection from one of these two.
MayCall(c) ==
  /\ Handed
  /\ c \in ReadCalls =>
       readPc = "handling" /\ \A d \in ReadCalls : ~C!InFlight(d)
  /\ c \in BeginCalls =>
       task["begin"] = "running" /\ \A d \in BeginCalls : ~C!InFlight(d)

CallStart(c) ==
  /\ MayCall(c) /\ C!SendMsg(c)
  /\ UNCHANGED <<tgVars, loopVars, stopVars, ownerVars, envVars, netVars>>

CallStep(c) ==
  /\ C!CallStep(c)
  /\ UNCHANGED <<tgVars, loopVars, stopVars, ownerVars, envVars, netVars>>

CallCancel(c) ==
  /\ C!CancelCall(c)
  /\ UNCHANGED <<tgVars, loopVars, stopVars, ownerVars, envVars, netVars>>

UserClose ==
  /\ "user" \in Faults /\ Handed /\ ~userClosed /\ userClosed' = TRUE
  /\ C!Close
  /\ UNCHANGED <<tgVars, loopVars, stopVars, ownerVars, parentCtx, peerFault,
                 panicked, netVars>>

ParentCancel ==
  /\ "parent" \in Faults /\ ~parentCtx /\ parentCtx' = TRUE
  /\ UNCHANGED <<tgVars, connVars, loopVars, stopVars, ownerVars, userClosed,
                 peerFault, panicked, netVars>>

PeerFault ==
  /\ "peer" \in Faults /\ ~peerFault /\ peerFault' = TRUE
  /\ UNCHANGED <<tgVars, connVars, loopVars, stopVars, ownerVars, parentCtx,
                 userClosed, panicked, netVars>>
-----------------------------------------------------------------------------
TaskStep ==
  \/ StopMerr \/ StopConn \/ StopNet \/ StopCancel
  \/ ReadExit \/ SendExit \/ BeginExit
  \/ ReadMsg \/ HandlerReturn \/ HandlerPanic \/ ReadErr
  \/ SendQuit \/ SendMerr
  \/ \E c \in Calls :
       SendTake(c) \/ WriteOk(c) \/ WriteErr(c) \/ WriteTooLong(c) \/ WritePanic(c)

OwnerStep ==
  \/ StartBegin \/ StartRead \/ StartSend
  \/ OwnerStop \/ OwnerWait \/ OwnerCloseDone \/ OwnerConnErr \/ OwnerClose

EnvStep ==
  \/ \E c \in Calls : CallStart(c) \/ CallStep(c) \/ CallCancel(c)
  \/ UserClose \/ ParentCancel \/ PeerFault

Next == TaskStep \/ OwnerStep \/ EnvStep

\* Goroutines with something to do run, the owner's timer fires, a handler
\* that is not blocked in SendMsg ends, and a Write on a transport closed on
\* this side returns an error.  Nothing is assumed of a Read, not even on a
\* closed transport: the comment on read() reports that it may go on.  A Write
\* on an open transport may block forever (the peer stopped reading), the
\* connectedBegin callback need not return, and the users, the parent and the
\* peer need not do anything.
Fairness ==
  /\ WF_vars(OwnerStep)
  /\ WF_vars(StopMerr \/ StopConn \/ StopNet \/ StopCancel)
  /\ WF_vars(ReadExit) /\ WF_vars(SendExit)
  /\ WF_vars(HandlerReturn \/ HandlerPanic)
  /\ WF_vars(SendQuit \/ SendMerr \/ \E c \in Calls : SendTake(c) \/ WriteTooLong(c))
  /\ WF_vars(netClosed /\ \E c \in Calls : WriteErr(c) \/ WritePanic(c))
  /\ \A c \in Calls : WF_vars(CallStep(c))

Safety == Init /\ [][Next]_vars
Spec == Safety /\ Fairness
-----------------------------------------------------------------------------
TypeOK ==
  /\ TG!TypeOK /\ C!TypeOK
  /\ readPc \in {"off", "reading", "handling", "stop", "end"}
  /\ sendPc \in {"off", "select", "write", "writeErr", "ErrDataLength", "stop", "end"}
  /\ sending \in Calls \cup {None}
  /\ once \in {"idle", "conn", "net", "cancel", "over"}
  /\ err \in {"nil", "ErrIsClose", "readErr", "writeErr", "ErrDataLength"}
  /\ connErr \in {None, "nil", "ErrIsClose", "readErr", "writeErr", "ErrDataLength"}
  /\ owner \in {"begin", "read", "send", "wait", "stopping", "connErr", "close", "end"}
  /\ wire \in Seq(Calls)
  /\ {hCtx, hDone, parentCtx, userClosed, peerFault, panicked, netClosed, torn}
       \subseteq BOOLEAN

\* SendMsg returns nil only after the whole frame of that message was written
\* to the transport: not for a message that was only queued, one that was
\* refused, one that failed, or one still queued when the connection stopped.
NilMeansWritten ==
  \A c \in Calls : call[c] = "nil" => \E i \in 1 .. Len(wire) : wire[i] = c

\* h.err, the reason ConnErr gets, names the real cause.  ErrIsClose: somebody
\* here closed the connection, cancelled the context or panicked.  An I/O
\* error: the peer failed, or the owner gave up waiting for a stop and closed
\* the transport under the loops.  The stop never blames the peer for the
\* close it does itself, whichever goroutine gets to merr first.
ErrNamesCause ==
  /\ err = "ErrIsClose" => parentCtx \/ userClosed \/ panicked
  /\ err \in {"readErr", "writeErr"} => peerFault \/ (parentCtx /\ owner = "end")

\* ConnErr gets a nil error only when the context was cancelled from outside
\* and neither loop had ended two seconds later; every other end of a
\* connection has its reason.
ConnErrNilOnlyWhenStuck ==
  connErr = "nil" => parentCtx /\ {"read", "send"} \subseteq report["owner"]

\* When StopAndWait tells the owner that all tasks have finished, the
\* connection is over: stop() has run to its end, whichever loop got there
\* first, everything is closed, the error ConnErr will get is recorded, and
\* neither a handler nor the callback is still inside SendMsg.
CleanStop ==
  stopper["owner"] = "finished" =>
    /\ once = "over" /\ netClosed /\ connCtx /\ err # "nil"
    /\ readPc = "end" /\ sendPc = "end"
    /\ \A c \in ReadCalls \cup BeginCalls : ~C!InFlight(c)

\* Once the connection's context is done, a caller blocked in SendMsg gets its
\* answer, even when the send loop is stuck in Write on a peer that does not
\* read (then it is the owner that closes the transport after its timeout).
CallersReleased ==
  \A c \in Calls : (hCtxDone /\ C!InFlight(c)) ~> ~C!InFlight(c)

\* Once the connection's context is done the owner returns, the send loop ends
\* and so does the read loop, unless it is inside a Read that does not notice
\* the close of its transport (the comment on read() says this happens): no
\* stop, whether it came from the parent, the peer, a user or a panic, keeps
\* the server or the client waiting or leaves a loop in a Write, in a handler's
\* SendMsg or in stop().
StopEnds ==
  hCtxDone ~> /\ owner = "end" /\ task["send"] = "done"
              /\ task["read"] = "done" \/ (readPc = "reading" /\ netClosed)

\* What the caller of SendMsg knows of its call.
StatusOf(c) ==
  CASE call[c] = "idle" -> "idle"
    [] C!InFlight(c) -> "pending"
    [] call[c] = "nil" -> "ok"
    [] OTHER -> "err"

\* What a caller of SendMsg relies on; the queue, the acknowledgements, the
\* loops and the stop implement it.
MD == INSTANCE MsgDelivery WITH
  status <- [c \in Calls |-> StatusOf(c)], log <- wire

\* Every behaviour is one MsgDelivery allows: each message is written at most
\* once, after its call began; nil only for a written one; nothing is written
\* behind a partial frame, which the peer could not tell from its tail.
ImplementsMsgDelivery == MD!Spec

\* What the comment in Connection.Close says: its HandlerManager stops.
CloseStops == userClosed ~> (once = "over")
=============================================================================
