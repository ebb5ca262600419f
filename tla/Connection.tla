----------------------------- MODULE Connection -----------------------------
(***************************************************************************)
(* connection.Connection and connection.MessageBody: goroutines call       *)
(* SendMsg / SendMsgContext, which queues a MessageBody on msgChan and     *)
(* waits until the consumer of the channel acknowledges it, the connection *)
(* is closed, or the caller's context ends.  A call and its MessageBody    *)
(* have the same name.  The consumer (HandlerManager.send, or anyone who   *)
(* reads MsgChan()) appears as the two steps Take and Ack.                 *)
(***************************************************************************)
EXTENDS Naturals, Sequences

CONSTANTS Calls,     \* the SendMsg / SendMsgContext calls
          CtxCalls,  \* the SendMsgContext ones, whose context can end
          ChanCap    \* capacity of msgChan (256 in NewConnection)

ASSUME ChanCapPositive == ChanCap \in Nat \ {0}
ASSUME CtxCallsAreCalls == CtxCalls \subseteq Calls

VARIABLES
  call,      \* where a call is, and what it returned
  callCtx,   \* the context given to the call is done
  msgChan,   \* Connection.msgChan
  ack,       \* MessageBody: "none" (status false), "busy" (status true, t()
             \* has not returned), or the err with which ackChan was closed
  connCtx    \* Connection.ctx is done

vars == <<call, callCtx, msgChan, ack, connCtx>>

AckErr == {"nil", "writeErr", "ErrDataLength"}
Results == AckErr \cup {"ErrIsClose", "ctxErr"}
InFlight(c) == call[c] \in {"select", "wait"}

Init ==
  /\ call = [c \in Calls |-> "idle"]
  /\ callCtx = [c \in Calls |-> FALSE]
  /\ msgChan = <<>>
  /\ ack = [c \in Calls |-> "none"]
  /\ connCtx = FALSE
-----------------------------------------------------------------------------
(* sendMsg: two nested selects.  A select with several ready cases picks   *)
(* any of them, so the branches are independent actions.                   *)

Goto(c, from, to) == call[c] = from /\ call' = [call EXCEPT ![c] = to]

SendMsg(c) ==
  /\ Goto(c, "idle", "select")
  /\ UNCHANGED <<callCtx, msgChan, ack, connCtx>>

Enqueue(c) ==
  /\ Len(msgChan) < ChanCap
  /\ Goto(c, "select", "wait")
  /\ msgChan' = Append(msgChan, c)
  /\ UNCHANGED <<callCtx, ack, connCtx>>

\* Mutant: the select around the enqueue does not watch the connection.
ClosedWhileWaiting(c) ==
  /\ connCtx
  /\ Goto(c, "wait", "ErrIsClose")
  /\ UNCHANGED <<callCtx, msgChan, ack, connCtx>>

\* case <-C.ctx.Done() of either select.
ReturnClosed(c) ==
  /\ connCtx
  /\ Goto(c, "select", "ErrIsClose") \/ Goto(c, "wait", "ErrIsClose")
  /\ UNCHANGED <<callCtx, msgChan, ack, connCtx>>

\* case <-ctx.Done() of either select.
ReturnCtx(c) ==
  /\ callCtx[c]
  /\ Goto(c, "select", "ctxErr") \/ Goto(c, "wait", "ctxErr")
  /\ UNCHANGED <<callCtx, msgChan, ack, connCtx>>

\* Mutant: m.err is read without waiting for ackChan to be closed.
AckUnawaited(c) ==
  /\ Goto(c, "wait", ack[c])
  /\ UNCHANGED <<callCtx, msgChan, ack, connCtx>>

\* case <-m.ackChan: return m.err.
ReturnAck(c) ==
  /\ ack[c] \in AckErr
  /\ Goto(c, "wait", ack[c])
  /\ UNCHANGED <<callCtx, msgChan, ack, connCtx>>

\* The caller's context is cancelled or its deadline passes.
CancelCall(c) ==
  /\ c \in CtxCalls /\ ~callCtx[c]
  /\ callCtx' = [callCtx EXCEPT ![c] = TRUE]
  /\ UNCHANGED <<call, msgChan, ack, connCtx>>

Close ==
  /\ connCtx' = TRUE
  /\ UNCHANGED <<call, callCtx, msgChan, ack>>
-----------------------------------------------------------------------------
\* Receive the oldest message and win AckMessage's CompareAndSwap for it.
Take(c) ==
  /\ msgChan # <<>> /\ c = Head(msgChan)
  /\ ack[c] = "none"
  /\ msgChan' = Tail(msgChan)
  /\ ack' = [ack EXCEPT ![c] = "busy"]
  /\ UNCHANGED <<call, callCtx, connCtx>>

\* t() returned e: m.err = e and ackChan is closed.
Ack(c, e) ==
  /\ ack[c] = "busy"
  /\ ack' = [ack EXCEPT ![c] = e]
  /\ UNCHANGED <<call, callCtx, msgChan, connCtx>>

CallStep(c) == Enqueue(c) \/ ReturnClosed(c) \/ ReturnCtx(c) \/ ReturnAck(c)

Next ==
  \/ \E c \in Calls :
       \/ SendMsg(c) \/ CallStep(c) \/ CancelCall(c) \/ Take(c)
       \/ \E e \in AckErr : Ack(c, e)
  \/ Close

\* A goroutine with a ready select case runs.  The consumer may stop at any
\* point, and nobody has to cancel a context or close the connection.
Fairness == \A c \in Calls : WF_vars(CallStep(c))

Safety == Init /\ [][Next]_vars
Spec == Safety /\ Fairness
-----------------------------------------------------------------------------
TypeOK ==
  /\ call \in [Calls -> {"idle", "select", "wait"} \cup Results]
  /\ callCtx \in [Calls -> BOOLEAN]
  /\ msgChan \in Seq(Calls)
  /\ ack \in [Calls -> {"none", "busy"} \cup AckErr]
  /\ connCtx \in BOOLEAN

\* A caller is released once the Connection is closed or its own context
\* ends, also while the consumer is stuck, whether it waits for room in a full
\* channel or for an acknowledgement that will never come.
ReleasesCallers ==
  \A c \in Calls : ((connCtx \/ callCtx[c]) /\ InFlight(c)) ~> (call[c] \in Results)
=============================================================================
