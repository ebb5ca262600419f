----------------------------- MODULE AuthProofs -----------------------------
(***************************************************************************)
(* The safety properties of Auth, for every capacity of the transport.     *)
(* Until something ends the connection, a handler and the send loop work   *)
(* on the same response (Handling), so a refusal is on the wire before     *)
(* Close and a positive answer before a business reply; and every message  *)
(* on the way between the server and a client whose login matches is one   *)
(* that cannot lead to a refusal (Friendly).                               *)
(***************************************************************************)
EXTENDS Auth, TLAPS

TypeOK ==
  /\ handler \in {"read", "send", "ack", "return", "ended"}
  /\ reply \in Replies \cup {"none"} /\ writing \in Replies \cup {"none"}
  /\ written \subseteq Replies
  /\ toServer \in Seq(Logins \cup {"hello"}) /\ toClient \in Seq(Replies)
  /\ transport \in {"open", "closed"} /\ login \in Logins
  /\ cause \in {"none", "handler", "timer", "broken", "client"}

\* The cause of the end is known from its first sign on.
CauseKnown == sctx \/ transport = "closed" => cause # "none"

\* While nothing has ended the connection: what the send loop writes is what
\* the handler waits for, and the handler returns when it has been written.
Handling ==
  /\ handler \in {"read", "ended"} <=> reply = "none"
  /\ closes => reply = "refused"
  /\ cause = "none" =>
       /\ writing # "none" => handler = "ack"
       /\ handler = "ack" => writing = reply
       /\ handler = "return" => reply \in written

\* A session is there only when the positive answer was written or is the
\* response being sent; a business reply is sent only with the answer before it.
Answered ==
  /\ reply \in {"ok", "hello"} => session
  /\ session /\ cause = "none" => "ok" \in written \/ reply = "ok"
  /\ cause = "none" /\ reply = "hello" => "ok" \in written

\* With a client whose login matches nothing leads to a refusal: a hello, and
\* the response that makes it say hello, exist only when the session does.
Matches == peer = "client" /\ login = "match"
Friendly ==
  Matches =>
    /\ \A i \in 1 .. Len(toServer) :
         toServer[i] = "match" \/ (toServer[i] = "hello" /\ session)
    /\ \A i \in 1 .. Len(toClient) : toClient[i] # "refused" /\ session
    /\ talk = "say" => session
    /\ reply # "refused" /\ writing # "refused"
    /\ writing # "none" => session

IInv ==
  /\ TypeOK /\ CauseKnown /\ Handling /\ Answered /\ Friendly
  /\ ClientNotRefused /\ RefusalIsTold /\ HelloAfterOK
-----------------------------------------------------------------------------
LEMMA InitInv == Init => IInv
BY DEF Init, IInv, TypeOK, CauseKnown, Handling, Answered, Friendly, Matches,
   ClientNotRefused, RefusalIsTold, HelloAfterOK, Replies, Logins

\* A message taken from a sequence was in it, and so was what is left.
LEMMA TailKeeps ==
  ASSUME NEW S, NEW s \in Seq(S), s # <<>>
  PROVE  /\ Head(s) \in S /\ Tail(s) \in Seq(S) /\ 1 \in 1 .. Len(s) /\ Head(s) = s[1]
         /\ \A i \in 1 .. Len(Tail(s)) : i + 1 \in 1 .. Len(s) /\ Tail(s)[i] = s[i + 1]
OBVIOUS

\* A message added to a sequence is its only new element.
LEMMA AppendKeeps ==
  ASSUME NEW S, NEW s \in Seq(S), NEW e \in S
  PROVE  /\ Append(s, e) \in Seq(S)
         /\ \A i \in 1 .. Len(Append(s, e)) :
              Append(s, e)[i] = e \/ (i \in 1 .. Len(s) /\ Append(s, e)[i] = s[i])
OBVIOUS

\* The read loop: the handlers and their SendMsg.
LEMMA ReadLoopInv == IInv /\ ReadLoop => IInv'
<1> SUFFICES ASSUME IInv, ReadLoop PROVE IInv'
  OBVIOUS
<1> USE DEF IInv, client, link, fixed
<1>1. ASSUME NEW m, Receive(m), NEW r \in Replies, reply' = r,
             closes' => r = "refused",
             session => session',
             r \in {"ok", "hello"} => session',
             session' => session \/ r = "ok",
             Matches /\ (m = "match" \/ session) => r # "refused"
      PROVE  IInv'
  <2>1. /\ handler = "read" /\ handler' = "send" /\ reply = "none" /\ reply' = r
        /\ toServer # <<>> /\ m = Head(toServer) /\ toServer' = Tail(toServer)
        /\ UNCHANGED <<sctx, writing, written, talk, transport, cause, toClient, peer, login>>
    BY <1>1 DEF Receive, Handling
  <2>2. TypeOK'
    BY <1>1, <2>1, TailKeeps DEF TypeOK
  <2>3. CauseKnown' /\ RefusalIsTold' /\ HelloAfterOK' /\ ClientNotRefused'
    BY <2>1 DEF CauseKnown, RefusalIsTold, HelloAfterOK, ClientNotRefused
  <2>4. Handling'
    BY <1>1, <2>1 DEF Handling, Replies
  <2>5. Answered'
    BY <1>1, <2>1 DEF Answered
  <2>6. Friendly'
    <3> SUFFICES ASSUME Matches PROVE Friendly'
      BY <2>1 DEF Friendly, Matches
    <3>1. m = "match" \/ session
      BY <2>1, TailKeeps DEF Friendly, TypeOK
    <3>2. \A i \in 1 .. Len(toServer') :
             toServer'[i] = "match" \/ (toServer'[i] = "hello" /\ session')
      BY <1>1, <2>1, TailKeeps DEF Friendly, TypeOK
    <3> QED BY <1>1, <2>1, <3>1, <3>2 DEF Friendly, Matches
  <2> QED BY <2>2, <2>3, <2>4, <2>5, <2>6
<1>2. CASE AuthHandler
  <2>1. PICK m \in Logins : /\ Receive(m)
                            /\ IF session \/ m = "match"
                               THEN session' = TRUE /\ Respond("ok", FALSE)
                               ELSE UNCHANGED session /\ Respond("refused", TRUE)
    BY <1>2 DEF AuthHandler
  <2>2. CASE session \/ m = "match"
    BY <1>1, <2>1, <2>2 DEF Replies, Respond
  <2>3. CASE ~(session \/ m = "match")
    BY <1>1, <2>1, <2>3 DEF Replies, Respond
  <2> QED BY <2>2, <2>3
<1>3. CASE AuthRequired
  <2>1. CASE session
    BY <1>1, <1>3, <2>1 DEF AuthRequired, Replies, Respond
  <2>2. CASE ~session
    BY <1>1, <1>3, <2>2 DEF AuthRequired, Replies, Respond
  <2> QED BY <2>1, <2>2
<1>4. CASE SendTaken
  <2> USE <1>4 DEF SendTaken
  <2>1. TypeOK' /\ CauseKnown'
    BY DEF TypeOK, CauseKnown
  <2>2. Handling' /\ Answered'
    BY DEF Handling, Answered, TypeOK
  <2>3. Friendly'
    BY DEF Friendly, Matches, Handling, Answered, TypeOK, Replies
  <2> QED BY <2>1, <2>2, <2>3 DEF RefusalIsTold, HelloAfterOK, ClientNotRefused
<1>5. CASE SendClosed
  <2> USE <1>5 DEF SendClosed
  <2>1. TypeOK' /\ CauseKnown' /\ Handling' /\ Answered'
    BY DEF TypeOK, CauseKnown, Handling, Answered
  <2> QED BY <2>1 DEF Friendly, Matches, RefusalIsTold, HelloAfterOK, ClientNotRefused
<1>6. CASE Return
  <2> USE <1>6 DEF Return, Because
  <2>1. TypeOK'
    BY DEF TypeOK
  <2>2. CauseKnown' /\ RefusalIsTold'
    BY DEF CauseKnown, RefusalIsTold, Handling
  <2>3. Handling' /\ Answered'
    BY DEF Handling, Answered
  <2>4. Friendly' /\ HelloAfterOK' /\ ClientNotRefused'
    BY DEF Friendly, Matches, HelloAfterOK, ClientNotRefused
  <2> QED BY <2>1, <2>2, <2>3, <2>4
<1>7. CASE ReadLoopEnds
  <2> USE <1>7 DEF ReadLoopEnds
  <2>1. TypeOK' /\ CauseKnown' /\ Handling' /\ Answered'
    BY DEF TypeOK, CauseKnown, Handling, Answered
  <2> QED BY <2>1 DEF Friendly, Matches, RefusalIsTold, HelloAfterOK, ClientNotRefused
<1> QED BY <1>2, <1>3, <1>4, <1>5, <1>6, <1>7 DEF ReadLoop

\* The send loop, the timer, and what else ends the connection.
LEMMA ServerInv ==
  IInv /\ (SendLoop \/ Timer \/ Break \/ ClientStops) => IInv'
<1> SUFFICES ASSUME IInv, SendLoop \/ Timer \/ Break \/ ClientStops PROVE IInv'
  OBVIOUS
<1> USE DEF IInv, server, client, link, fixed
<1>1. CASE Written /\ transport = "open"
  <2>1. /\ writing # "none" /\ writing \in Replies /\ writing' = "none"
        /\ toClient' = Append(toClient, writing) /\ written' = written \cup {writing}
        /\ handler' = IF handler = "ack" THEN "return" ELSE handler
        /\ UNCHANGED <<session, sctx, reply, closes, talk, transport, cause, toServer, peer,
                       login>>
    BY <1>1 DEF Written, TypeOK
  <2>2. TypeOK'
    BY <2>1, AppendKeeps DEF TypeOK
  <2>3. CauseKnown' /\ RefusalIsTold'
    BY <2>1 DEF CauseKnown, RefusalIsTold
  <2>4. Handling' /\ Answered'
    BY <2>1 DEF Handling, Answered, TypeOK
  <2>5. HelloAfterOK'
    BY <2>1 DEF HelloAfterOK, Handling, Answered
  <2>6. Friendly' /\ ClientNotRefused'
    <3> SUFFICES ASSUME Matches PROVE Friendly' /\ ClientNotRefused'
      BY <2>1 DEF Friendly, Matches, ClientNotRefused
    <3>1. writing # "refused" /\ session
      BY <2>1 DEF Friendly
    <3>2. \A i \in 1 .. Len(toClient') : toClient'[i] # "refused"
      BY <2>1, <3>1, AppendKeeps DEF Friendly, TypeOK
    <3> QED BY <2>1, <3>1, <3>2 DEF Friendly, Matches, ClientNotRefused
  <2> QED BY <2>2, <2>3, <2>4, <2>5, <2>6
<1>2. CASE Written /\ transport = "closed"
  <2>1. cause # "none"
    BY <1>2 DEF CauseKnown
  <2>2. TypeOK' /\ CauseKnown' /\ Handling' /\ Answered'
    BY <1>2, <2>1 DEF Written, TypeOK, CauseKnown, Handling, Answered
  <2> QED BY <1>2, <2>2 DEF Written, Friendly, Matches, RefusalIsTold, HelloAfterOK,
          ClientNotRefused
<1>3. CASE SendLoopEnds \/ TimerFires \/ TimerClose \/ TimerStopped \/ Break \/ ClientStops
  <2> USE <1>3 DEF SendLoopEnds, TimerFires, TimerClose, TimerStopped, Break, ClientStops,
      Because
  <2>1. TypeOK'
    BY DEF TypeOK
  <2>2. CauseKnown' /\ RefusalIsTold' /\ HelloAfterOK'
    BY DEF CauseKnown, RefusalIsTold, HelloAfterOK
  <2>3. Handling' /\ Answered'
    BY DEF Handling, Answered
  <2>4. Friendly' /\ ClientNotRefused'
    BY DEF Friendly, Matches, ClientNotRefused
  <2> QED BY <2>1, <2>2, <2>3, <2>4
<1> QED BY <1>1, <1>2, <1>3 DEF SendLoop, Timer, Written, TypeOK

\* The client, or another program.
LEMMA PeerInv ==
  IInv /\ (ConnectedBegin \/ ClientReads \/ OtherSends \/ OtherReads) => IInv'
<1> SUFFICES ASSUME IInv, ConnectedBegin \/ ClientReads \/ OtherSends \/ OtherReads
             PROVE  IInv'
  OBVIOUS
<1> USE DEF IInv, server, client, link, fixed
<1>1. ASSUME UNCHANGED <<server, link, fixed>>,
             toServer' \in Seq(Logins \cup {"hello"}), toClient' \in Seq(Replies), Friendly'
      PROVE  IInv'
  BY <1>1 DEF TypeOK, CauseKnown, Handling, Answered, RefusalIsTold, HelloAfterOK,
     ClientNotRefused
<1>2. ASSUME NEW m \in Logins \cup {"hello"}, NEW ok \in BOOLEAN, ClientSends(m, ok),
             UNCHANGED <<server, link, fixed, toClient>>,
             talk' = "say" => talk = "say",
             Matches => m = "match" \/ (m = "hello" /\ session)
      PROVE  IInv'
  <2>1. toServer' = Append(toServer, m) \/ toServer' = toServer
    BY <1>2 DEF ClientSends
  <2>2. toServer' \in Seq(Logins \cup {"hello"})
    BY <2>1, AppendKeeps DEF TypeOK
  <2>3. Matches => \A i \in 1 .. Len(toServer') :
                      toServer'[i] = "match" \/ (toServer'[i] = "hello" /\ session)
    BY <1>2, <2>1, AppendKeeps DEF Friendly, TypeOK
  <2>4. Friendly'
    BY <1>2, <2>3 DEF Friendly, Matches
  <2> QED BY <1>1, <1>2, <2>2, <2>4 DEF TypeOK
<1>3. CASE ConnectedBegin
  BY <1>2, <1>3 DEF ConnectedBegin, Matches, TypeOK
<1>4. CASE Say
  BY <1>2, <1>4 DEF Say, Friendly
<1>5. CASE AuthRespHandler \/ HelloHandler \/ OtherReads
  <2>1. /\ toClient # <<>> /\ toClient' = Tail(toClient)
        /\ UNCHANGED <<server, link, fixed, toServer>>
    BY <1>5 DEF AuthRespHandler, HelloHandler, OtherReads
  <2>2. toClient' \in Seq(Replies)
    BY <2>1, TailKeeps DEF TypeOK
  <2>3. Matches => \A i \in 1 .. Len(toClient') : toClient'[i] # "refused" /\ session
    BY <2>1, TailKeeps DEF Friendly, TypeOK
  <2>4. Matches => session
    BY <2>1, TailKeeps DEF Friendly, TypeOK
  <2>5. Friendly'
    BY <2>1, <2>3, <2>4 DEF Friendly, Matches
  <2> QED BY <1>1, <2>1, <2>2, <2>5 DEF TypeOK
<1>6. CASE ClientReadEnds
  BY <1>1, <1>6 DEF ClientReadEnds, Friendly, Matches, TypeOK
<1>7. CASE OtherSends
  <2>1. PICK m \in Logins \cup {"hello"} : toServer' = Append(toServer, m)
    BY <1>7 DEF OtherSends
  <2>2. toServer' \in Seq(Logins \cup {"hello"})
    BY <2>1, AppendKeeps DEF TypeOK
  <2>3. Friendly'
    BY <1>7 DEF OtherSends, Friendly, Matches
  <2> QED BY <1>1, <1>7, <2>2, <2>3 DEF OtherSends, TypeOK
<1> QED BY <1>3, <1>4, <1>5, <1>6, <1>7 DEF ClientReads

LEMMA NextInv == IInv /\ [Next]_vars => IInv'
<1>1. IInv /\ UNCHANGED vars => IInv'
  BY DEF vars, server, client, link, fixed, IInv, TypeOK, CauseKnown, Handling, Answered,
     Friendly, Matches, RefusalIsTold, HelloAfterOK, ClientNotRefused
<1> QED BY <1>1, ReadLoopInv, ServerInv, PeerInv DEF Next

LEMMA SafetyInv == Spec => []IInv
BY InitInv, NextInv, PTL DEF Spec
-----------------------------------------------------------------------------
\* A client with a matching login is never refused, at whatever pace the two
\* ends run and however much the transport buffers.
THEOREM NeverRefused == Spec => []ClientNotRefused
BY SafetyInv, PTL DEF IInv

\* A handler never closes a connection without having told the peer.
THEOREM RefusalTold == Spec => []RefusalIsTold
BY SafetyInv, PTL DEF IInv

\* A business reply never overtakes the answer to the login.
THEOREM OrderKept == Spec => []HelloAfterOK
BY SafetyInv, PTL DEF IInv
=============================================================================
