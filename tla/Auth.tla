-------------------------------- MODULE Auth --------------------------------
(***************************************************************************)
(* The authentication examples (tcp_auth, websocket_auth), one connection  *)
(* from both ends: the server's handlers, which run one at a time on the   *)
(* connection's read loop and send their responses from there, the         *)
(* goroutine that closes a connection that did not log in in time, and the *)
(* example client, which logs in, waits for the answer, and then talks.    *)
(* The server also meets other programs, which send what they like, when   *)
(* they like, and need not read.  SendMsg, Close and the loops are those   *)
(* of HandlerManager, as far as the order of their effects matters here.   *)
(***************************************************************************)
EXTENDS Naturals, Sequences

CONSTANT NetCap   \* messages the transport holds in one direction

ASSUME NetCapPositive == NetCap \in Nat \ {0}

\* Login requests: one that does not parse, one that does not match, one that does.
Logins == {"invalid", "mismatch", "match"}
\* Responses with OK set and without, and the reply of the business handler.
Replies == {"ok", "refused", "hello"}

VARIABLES
  peer,       \* "client", the example client, or "other"
  login,      \* the request the example client sends
  beats,      \* it answers a reply with a heartbeat (tcp_auth, not websocket_auth)
  session,    \* the property auth_session of the server's Connection is set
  sctx,       \* that Connection's context is cancelled
  cctx,       \* the client's is
  transport,  \* "open" or "closed"
  cause,      \* what ended the connection first, "none" while nothing did
  timer,      \* the goroutine of ConnectedBegin: "armed", "closing", "off"
  handler,    \* the server's read loop: where it is in a handler, with
  reply,      \* the response the handler sends, "none" outside handlers,
  closes,     \* and whether it closes the connection after that
  writing,    \* the response the send loop is writing, or "none"
  written,    \* the responses written so far
  toServer, toClient,  \* messages in the transport
  begin,      \* the client's ConnectedBegin: "send" or "over"
  talk        \* the client's read loop: "read", "say" (in a handler) or "ended"

server == <<session, sctx, timer, handler, reply, closes, writing, written>>
client == <<cctx, begin, talk>>
link == <<transport, cause>>
fixed == <<peer, login, beats>>
vars == <<server, client, link, toServer, toClient, fixed>>

Init ==
  /\ \/ peer = "client" /\ login \in {"mismatch", "match"} /\ beats \in BOOLEAN
     \/ peer = "other" /\ login = "match" /\ beats = FALSE   \* without meaning
  /\ session = FALSE /\ sctx = FALSE /\ cctx = FALSE
  /\ transport = "open" /\ cause = "none"
  /\ timer = "armed" /\ handler = "read" /\ reply = "none" /\ closes = FALSE
  /\ writing = "none" /\ written = {} /\ toServer = <<>> /\ toClient = <<>>
  /\ begin = "send" /\ talk = "read"

\* The first reason for the end of the connection stays.
Because(why) == cause' = IF cause = "none" THEN why ELSE cause

(***************************************************************************)
(* The server's handlers.                                                  *)
(***************************************************************************)
\* Unmarshal returned the next message.
Receive(m) ==
  /\ handler = "read" /\ transport = "open"
  /\ toServer # <<>> /\ Head(toServer) = m /\ toServer' = Tail(toServer)
  /\ handler' = "send"
  /\ UNCHANGED <<sctx, timer, writing, written, client, link, toClient, fixed>>

Respond(r, c) == reply' = r /\ closes' = c

\* Mutant: the session is not stored.
AuthForgotten ==
  \E m \in Logins :
    /\ Receive(m) /\ UNCHANGED session
    /\ IF m = "match" THEN Respond("ok", FALSE) ELSE Respond("refused", TRUE)

\* A second request is answered without a look at it; one that does not parse
\* or match is refused and the connection closed; else the session is stored
\* before the answer goes out.
AuthHandler ==
  \E m \in Logins :
    /\ Receive(m)
    /\ IF session \/ m = "match" THEN session' = TRUE /\ Respond("ok", FALSE)
                                 ELSE UNCHANGED session /\ Respond("refused", TRUE)

\* Mutant: HelloHandler is registered without RequireAuth.
HelloUnguarded == Receive("hello") /\ Respond("hello", FALSE) /\ UNCHANGED session

\* RequireAuth(HelloHandler).
AuthRequired ==
  /\ Receive("hello")
  /\ IF session THEN Respond("hello", FALSE) ELSE Respond("refused", TRUE)
  /\ UNCHANGED session

(***************************************************************************)
(* SendMsg of a response, by a handler.                                    *)
(***************************************************************************)
\* The send loop takes it, even after Close if it has not looked at the context.
\* Queueing and taking are one step: a message that is abandoned in the queue
\* after Close and taken later all the same is left out.
SendTaken ==
  /\ handler = "send" /\ writing = "none" /\ transport = "open"
  /\ handler' = "ack" /\ writing' = reply
  /\ UNCHANGED <<session, sctx, timer, reply, closes, written, client, link, toServer,
                 toClient, fixed>>

\* Mutant: the caller is not acknowledged.
WrittenUnacked ==
  /\ writing # "none" /\ writing' = "none"
  /\ transport = "open" /\ Len(toClient) < NetCap
  /\ toClient' = Append(toClient, writing) /\ written' = written \cup {writing}
  /\ UNCHANGED <<session, sctx, timer, handler, reply, closes, client, link, toServer, fixed>>

\* The Write returns, with success when the transport had room; the caller gets
\* its acknowledgement if it still waits.
Written ==
  /\ writing # "none" /\ writing' = "none"
  /\ \/ /\ transport = "open" /\ Len(toClient) < NetCap
        /\ toClient' = Append(toClient, writing) /\ written' = written \cup {writing}
     \/ transport = "closed" /\ UNCHANGED <<toClient, written>>
  /\ handler' = IF handler = "ack" THEN "return" ELSE handler
  /\ UNCHANGED <<session, sctx, timer, reply, closes, client, link, toServer, fixed>>

\* Mutant: SendMsg does not wait for the acknowledgement.
SendUnawaited ==
  /\ handler = "ack" /\ handler' = "return"
  /\ UNCHANGED <<session, sctx, timer, reply, closes, writing, written, client, link,
                 toServer, toClient, fixed>>

\* ErrIsClose, whether or not the response is being written.
SendClosed ==
  /\ handler \in {"send", "ack"} /\ sctx
  /\ handler' = "return"
  /\ UNCHANGED <<session, sctx, timer, reply, closes, writing, written, client, link,
                 toServer, toClient, fixed>>

\* The handler closes the connection if it refused, whatever SendMsg returned,
\* and the read loop goes on.
Return ==
  /\ handler = "return" /\ handler' = "read"
  /\ IF closes THEN sctx' = TRUE /\ Because("handler") ELSE UNCHANGED <<sctx, cause>>
  /\ reply' = "none" /\ closes' = FALSE
  /\ UNCHANGED <<session, timer, writing, written, client, transport, toServer, toClient,
                 fixed>>

(***************************************************************************)
(* The end of the connection at the server.                                *)
(***************************************************************************)
\* Mutant: the test of the property is the wrong way round.
TimerInverted ==
  /\ timer = "armed" /\ timer' = IF session THEN "closing" ELSE "off"
  /\ UNCHANGED <<session, sctx, handler, reply, closes, writing, written, client, link,
                 toServer, toClient, fixed>>

\* The timer's case of ConnectedBegin; between the look at the property and
\* Close a login may succeed.
TimerFires ==
  /\ timer = "armed" /\ timer' = IF session THEN "off" ELSE "closing"
  /\ UNCHANGED <<session, sctx, handler, reply, closes, writing, written, client, link,
                 toServer, toClient, fixed>>

TimerClose ==
  /\ timer = "closing" /\ timer' = "off"
  /\ sctx' = TRUE /\ Because("timer")
  /\ UNCHANGED <<session, handler, reply, closes, writing, written, client, transport,
                 toServer, toClient, fixed>>

\* Its other cases.
TimerStopped ==
  /\ timer = "armed" /\ sctx /\ timer' = "off"
  /\ UNCHANGED <<session, sctx, handler, reply, closes, writing, written, client, link,
                 toServer, toClient, fixed>>

\* The send loop sees the closed Connection between two messages: stop()
\* closes the transport.
SendLoopEnds ==
  /\ sctx /\ writing = "none" /\ transport = "open" /\ transport' = "closed"
  /\ UNCHANGED <<server, client, cause, toServer, toClient, fixed>>

\* The read loop fails: stop() closes the Connection.
ReadLoopEnds ==
  /\ handler = "read" /\ transport = "closed" /\ handler' = "ended"
  /\ sctx' = TRUE
  /\ UNCHANGED <<session, timer, reply, closes, writing, written, client, link, toServer,
                 toClient, fixed>>

\* The network fails, or one end is stopped.
Break ==
  /\ transport = "open" /\ transport' = "closed" /\ Because("broken")
  /\ UNCHANGED <<server, client, toServer, toClient, fixed>>

(***************************************************************************)
(* The example client.                                                     *)
(***************************************************************************)
\* SendMsg of a client's goroutine; its failure is the outcome with ~ok.
ClientSends(m, ok) ==
  \/ /\ ok /\ transport = "open" /\ Len(toServer) < NetCap
     /\ toServer' = Append(toServer, m)
  \/ ~ok /\ (cctx \/ transport = "closed") /\ UNCHANGED toServer

\* ConnectedBegin runs beside the read loop; it closes on failure.
ConnectedBegin ==
  /\ peer = "client" /\ begin = "send" /\ begin' = "over"
  /\ \E ok \in BOOLEAN : ClientSends(login, ok) /\ cctx' = (cctx \/ ~ok)
  /\ UNCHANGED <<server, link, toClient, talk, fixed>>

\* A refusal closes the connection, a positive answer is followed by a hello.
AuthRespHandler ==
  /\ peer = "client" /\ talk = "read" /\ transport = "open"
  /\ toClient # <<>> /\ Head(toClient) \in {"ok", "refused"} /\ toClient' = Tail(toClient)
  /\ IF Head(toClient) = "ok" THEN talk' = "say" /\ UNCHANGED cctx
                              ELSE cctx' = TRUE /\ UNCHANGED talk
  /\ UNCHANGED <<server, link, toServer, begin, fixed>>

\* A reply is followed by a heartbeat, in tcp_auth.
HelloHandler ==
  /\ peer = "client" /\ talk = "read" /\ transport = "open"
  /\ toClient # <<>> /\ Head(toClient) = "hello" /\ toClient' = Tail(toClient)
  /\ talk' = IF beats THEN "say" ELSE "read"
  /\ UNCHANGED <<server, link, toServer, cctx, begin, fixed>>

Say ==
  /\ talk = "say" /\ talk' = "read"
  /\ \E ok \in BOOLEAN : ClientSends("hello", ok)
  /\ UNCHANGED <<server, link, toClient, cctx, begin, fixed>>

\* stop() at the client, after Close.
ClientStops ==
  /\ cctx /\ transport = "open" /\ transport' = "closed" /\ Because("client")
  /\ UNCHANGED <<server, client, toServer, toClient, fixed>>

ClientReadEnds ==
  /\ peer = "client" /\ talk = "read" /\ transport = "closed"
  /\ talk' = "ended" /\ cctx' = TRUE
  /\ UNCHANGED <<server, link, toServer, toClient, begin, fixed>>

\* Another program.
OtherSends ==
  /\ peer = "other" /\ transport = "open" /\ Len(toServer) < NetCap
  /\ \E m \in Logins \cup {"hello"} : toServer' = Append(toServer, m)
  /\ UNCHANGED <<server, client, link, toClient, fixed>>

OtherReads ==
  /\ peer = "other" /\ toClient # <<>> /\ toClient' = Tail(toClient)
  /\ UNCHANGED <<server, client, link, toServer, fixed>>

-----------------------------------------------------------------------------
ReadLoop == AuthHandler \/ AuthRequired \/ SendTaken \/ SendClosed \/ Return \/ ReadLoopEnds
SendLoop == Written \/ SendLoopEnds
Timer == TimerFires \/ TimerClose \/ TimerStopped
ClientReads == AuthRespHandler \/ HelloHandler \/ Say \/ ClientReadEnds

Next ==
  \/ ReadLoop \/ SendLoop \/ Timer \/ Break
  \/ ConnectedBegin \/ ClientReads \/ ClientStops
  \/ OtherSends \/ OtherReads

\* Both programs' goroutines keep running; another program need do nothing.  A
\* select picks among its ready cases at random, so a send loop that meets
\* messages and the closed context again and again takes the latter in the end.
Spec ==
  /\ Init /\ [][Next]_vars
  /\ WF_vars(ReadLoop) /\ WF_vars(SendLoop) /\ SF_vars(SendLoopEnds) /\ WF_vars(Timer)
  /\ WF_vars(ConnectedBegin) /\ WF_vars(ClientReads) /\ WF_vars(ClientStops)

(***************************************************************************)
(* Properties.                                                             *)
(***************************************************************************)
\* The example client whose login matches is never refused, at whatever pace
\* the two ends run: it says hello only after a positive answer, to "avoid
\* being refused by the server" (AuthRespHandler), and the session is there by
\* then.
ClientNotRefused == peer = "client" /\ login = "match" => "refused" \notin written

\* A connection that a handler closes has been told so: the refusal is written
\* before Close takes effect, unless something else ended the connection first.
RefusalIsTold == cause = "handler" => "refused" \in written

\* A business reply goes out only after a positive answer did, also to a peer
\* that does not wait for it; after the connection was ended that order is not
\* kept, because SendMsg of the answer may give up and a later one still pass.
HelloAfterOK == "hello" \in written => "ok" \in written \/ cause # "none"

\* A connection does not stay open without a session: the peer logs in or the
\* connection is closed in the end, unless the peer never reads again and so
\* holds up the send loop for ever.
Decided ==
  <>(session \/ transport = "closed") \/ <>[](writing # "none" /\ Len(toClient) = NetCap)

\* The two read loops, each of which sends from its handlers, do not wait for
\* one another: the heartbeats of a client that logged in go on until the
\* connection is closed.
KeepsTalking ==
  (peer = "client" /\ login = "match" /\ beats) =>
    []<>(transport = "closed" \/ reply = "hello") /\ []<>(transport = "closed" \/ talk = "say")
=============================================================================
