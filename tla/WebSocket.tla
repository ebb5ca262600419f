----------------------------- MODULE WebSocket -----------------------------
(***************************************************************************)
(* The WebSocket transport of examples/websocket: Conn, which makes a byte *)
(* stream of a message-based connection, under the read loop, the send     *)
(* loop and the closing owner that HandlerManager puts on it, and          *)
(* WebSocketListener, whose handleWS goroutines hand connections to Accept *)
(* and keep them until they end.  gorilla's websocket.Conn is external: it *)
(* supports one concurrent reader and one concurrent writer.               *)
(***************************************************************************)
EXTENDS Naturals, Sequences, SequencesExt

CONSTANTS
  Upgraded,   \* the connections a server accepts, through handleWS
  Dialled,    \* the connections a client dials: no handleWS looks after them
  Scenarios,  \* sets of connections: those of one execution
  Talkers,    \* those whose ends send messages and may fail; others are idle
  ChanCap,    \* capacity of connChan, 100 in the code
  MsgLens,    \* lengths of the peer's messages
  ReadLens,   \* lengths of the slices Read is called with
  MaxMsgs     \* bound on the number of messages of a peer

Conns == Upgraded \cup Dialled

ASSUME DisjointEnds == Upgraded \cap Dialled = {} /\ Scenarios \subseteq SUBSET Conns
ASSUME ChanCapNatural == ChanCap \in Nat
ASSUME LensPositive == MsgLens \cup ReadLens \subseteq Nat \ {0}

VARIABLES
  closed, cancelled, readErr, writeErr, readBuf, \* Conn's fields
  mu,         \* who holds Conn's mutex between two steps: a Close, or "free"
  inside,     \* who is inside raw.WriteMessage
  clash,      \* those of them that met another writer there
  raw,        \* the underlying connection: "none", "open" or "closed"
  closeSent,  \* a close frame was written, by either Close or the close handler
  peer,       \* "live", "closing" (sent a close frame), "stalled", "lost"
  wire,       \* messages on the way from the peer, each a sequence of bytes
  sent,       \* number of bytes, and
  nmsgs,      \* of messages the peer has sent
  rd, msg,    \* position of the read loop, the message ReadMessage returned
  got,        \* the bytes Read has returned
  wr,         \* position of the send loop
  owner,      \* position of the owner: the HandlerManager and its stop()
  hs,         \* position of handleWS
  connChan, chanClosed, closeChan,
  lis,        \* position of the listener's Close
  acc         \* the accept loop: "on" or "ended"

connVars == <<closed, cancelled, readErr, writeErr, readBuf, mu>>
rawVars == <<inside, clash, raw, closeSent>>
peerVars == <<peer, wire, sent, nmsgs>>
readVars == <<rd, msg, got>>
lisVars == <<connChan, chanClosed, closeChan, lis, acc>>
vars == <<connVars, rawVars, peerVars, readVars, wr, owner, hs, lisVars>>

Init ==
  /\ closed = [c \in Conns |-> FALSE] /\ cancelled = [c \in Conns |-> FALSE]
  /\ readErr = [c \in Conns |-> FALSE] /\ writeErr = [c \in Conns |-> FALSE]
  /\ readBuf = [c \in Conns |-> <<>>] /\ mu = [c \in Conns |-> "free"]
  /\ inside = [c \in Conns |-> {}] /\ clash = [c \in Conns |-> {}]
  /\ closeSent = [c \in Conns |-> FALSE]
  /\ peer = [c \in Conns |-> "live"] /\ wire = [c \in Conns |-> <<>>]
  /\ sent = [c \in Conns |-> 0] /\ nmsgs = [c \in Conns |-> 0]
  /\ rd = [c \in Conns |-> "idle"] /\ msg = [c \in Conns |-> <<>>]
  /\ got = [c \in Conns |-> <<>>] /\ wr = [c \in Conns |-> "idle"]
  /\ \E here \in Scenarios :
       /\ raw = [c \in Conns |-> IF c \in here \cap Dialled THEN "open" ELSE "none"]
       /\ owner = [c \in Conns |-> IF c \in here \cap Dialled THEN "open" ELSE "none"]
       /\ hs = [c \in Conns |-> IF c \in here \cap Upgraded THEN "none" ELSE "gone"]
  /\ connChan = <<>> /\ chanClosed = FALSE /\ closeChan = FALSE
  /\ lis = "open" /\ acc = "on"

(***************************************************************************)
(* The other end of a connection.                                          *)
(***************************************************************************)
PeerSend(c) ==
  /\ c \in Talkers /\ raw[c] = "open" /\ peer[c] = "live" /\ nmsgs[c] < MaxMsgs
  /\ \E n \in MsgLens :
       /\ wire' = [wire EXCEPT ![c] = Append(@, [i \in 1 .. n |-> sent[c] + i])]
       /\ sent' = [sent EXCEPT ![c] = @ + n]
  /\ nmsgs' = [nmsgs EXCEPT ![c] = @ + 1]
  /\ UNCHANGED <<connVars, rawVars, peer, readVars, wr, owner, hs, lisVars>>

\* It sends a close frame, or stops reading for good (and the transport is
\* full), or is lost.
PeerFault(c) ==
  /\ c \in Talkers /\ raw[c] = "open" /\ peer[c] = "live"
  /\ \E f \in {"closing", "stalled", "lost"} : peer' = [peer EXCEPT ![c] = f]
  /\ UNCHANGED <<connVars, rawVars, wire, sent, nmsgs, readVars, wr, owner, hs, lisVars>>

(***************************************************************************)
(* Conn.Read, called by the read loop until it fails.                      *)
(***************************************************************************)
\* What copy moves from s to a slice of length k.
Copied(s, k) == SubSeq(s, 1, Min({k, Len(s)}))

\* The part under the first lock: an error, buffered bytes, or on to ReadMessage.
ReadBegin(c) ==
  /\ owner[c] # "none" /\ rd[c] = "idle" /\ mu[c] = "free"
  /\ \/ /\ closed[c] \/ readErr[c]
        /\ rd' = [rd EXCEPT ![c] = "failed"]
        /\ UNCHANGED <<readBuf, got>>
     \/ /\ ~closed[c] /\ ~readErr[c] /\ readBuf[c] # <<>>
        /\ \E k \in ReadLens :
             /\ got' = [got EXCEPT ![c] = @ \o Copied(readBuf[c], k)]
             /\ readBuf' = [readBuf EXCEPT ![c] = SubSeq(@, k + 1, Len(@))]
        /\ UNCHANGED rd
     \/ /\ ~closed[c] /\ ~readErr[c] /\ readBuf[c] = <<>>
        /\ rd' = [rd EXCEPT ![c] = "raw"]
        /\ UNCHANGED <<readBuf, got>>
  /\ UNCHANGED <<closed, cancelled, readErr, writeErr, mu, rawVars, peerVars, msg,
                 wr, owner, hs, lisVars>>

\* raw.ReadMessage returns: the next message, the peer's close frame (which the
\* default close handler answers with one), or an error.
ReadMessage(c) ==
  /\ rd[c] = "raw"
  /\ \/ /\ raw[c] = "open" /\ wire[c] # <<>>
        /\ rd' = [rd EXCEPT ![c] = "message"]
        /\ msg' = [msg EXCEPT ![c] = Head(wire[c])]
        /\ wire' = [wire EXCEPT ![c] = Tail(@)]
        /\ UNCHANGED closeSent
     \/ /\ raw[c] = "open" /\ wire[c] = <<>> /\ peer[c] = "closing"
        /\ rd' = [rd EXCEPT ![c] = "closeErr"]
        /\ closeSent' = [closeSent EXCEPT ![c] = TRUE]
        /\ UNCHANGED <<msg, wire>>
     \/ /\ raw[c] = "closed" \/ peer[c] = "lost"
        /\ rd' = [rd EXCEPT ![c] = "err"]
        /\ UNCHANGED <<msg, wire, closeSent>>
  /\ UNCHANGED <<connVars, inside, clash, raw, peer, sent, nmsgs, got, wr, owner, hs,
                 lisVars>>

\* Mutant: what the caller has no room for is dropped.
ReadEndDropsRest(c) ==
  /\ rd[c] = "message" /\ mu[c] = "free"
  /\ \E k \in ReadLens : got' = [got EXCEPT ![c] = @ \o Copied(msg[c], k)]
  /\ rd' = [rd EXCEPT ![c] = "idle"] /\ msg' = [msg EXCEPT ![c] = <<>>]
  /\ UNCHANGED <<connVars, rawVars, peerVars, wr, owner, hs, lisVars>>

\* The part under the second lock: the error is kept, and a close frame becomes
\* io.EOF if its code is 1000 or 1001, an error otherwise; of a message, what
\* the caller has no room for is buffered.
ReadEnd(c) ==
  /\ rd[c] \in {"message", "closeErr", "err"} /\ mu[c] = "free"
  /\ \/ /\ rd[c] = "message"
        /\ \E k \in ReadLens :
             /\ got' = [got EXCEPT ![c] = @ \o Copied(msg[c], k)]
             /\ readBuf' = [readBuf EXCEPT ![c] = SubSeq(msg[c], k + 1, Len(msg[c]))]
        /\ rd' = [rd EXCEPT ![c] = "idle"]
        /\ msg' = [msg EXCEPT ![c] = <<>>]
        /\ UNCHANGED readErr
     \/ /\ rd[c] # "message"
        /\ readErr' = [readErr EXCEPT ![c] = TRUE]
        /\ \E r \in {"failed"} \cup (IF rd[c] = "closeErr" THEN {"eof"} ELSE {}) :
             rd' = [rd EXCEPT ![c] = r]
        /\ UNCHANGED <<got, readBuf, msg>>
  /\ UNCHANGED <<closed, cancelled, writeErr, mu, rawVars, peerVars, wr, owner, hs,
                 lisVars>>

ReadOver(c) == rd[c] \in {"eof", "failed"}

(***************************************************************************)
(* raw.WriteMessage of w: the send loop, the owner's Close or handleWS's.  *)
(* Two of them at a time may find each other's isWriting and panic.        *)
(***************************************************************************)
EnterWrite(c, w) ==
  /\ inside' = [inside EXCEPT ![c] = @ \cup {w}]
  /\ clash' = [clash EXCEPT ![c] = IF inside[c] = {} THEN @ ELSE inside[c] \cup {w}]

LeaveWrite(c, w) ==
  /\ w \in inside[c]
  /\ inside' = [inside EXCEPT ![c] = @ \ {w}]
  /\ clash' = [clash EXCEPT ![c] = @ \ {w}]

\* What it returns; nothing while the peer does not read.  To a peer that is
\* gone or going the frame may be sent, to no avail, or fail.
WriteResults(c, w) ==
  (IF w \in clash[c] THEN {"panic"} ELSE {}) \cup
  (IF closeSent[c] THEN {"ErrCloseSent"}
   ELSE IF raw[c] = "closed" THEN {"err"}
   ELSE CASE peer[c] = "live" -> {"ok"}
          [] peer[c] = "stalled" -> {}
          [] OTHER -> {"ok", "err"})

(***************************************************************************)
(* Conn.Write, called by the send loop until it fails.                     *)
(***************************************************************************)
WriteBegin(c) ==
  /\ c \in Talkers /\ owner[c] # "none" /\ wr[c] = "idle" /\ mu[c] = "free"
  /\ IF closed[c] \/ writeErr[c]
       THEN wr' = [wr EXCEPT ![c] = "failed"]
       ELSE wr' = [wr EXCEPT ![c] = "checked"]
  /\ UNCHANGED <<connVars, rawVars, peerVars, readVars, owner, hs, lisVars>>

\* Without the mutex: the connection may have been closed since.
WriteEnter(c) ==
  /\ wr[c] = "checked"
  /\ EnterWrite(c, "send")
  /\ wr' = [wr EXCEPT ![c] = "raw"]
  /\ UNCHANGED <<connVars, raw, closeSent, peerVars, readVars, owner, hs, lisVars>>

WriteReturn(c) ==
  /\ wr[c] = "raw"
  /\ LeaveWrite(c, "send")
  /\ \E r \in WriteResults(c, "send") :
       wr' = [wr EXCEPT ![c] = IF r = "ok" THEN "ok" ELSE
                               IF r = "panic" THEN "failed" ELSE "err"]
  /\ UNCHANGED <<connVars, raw, closeSent, peerVars, readVars, owner, hs, lisVars>>

WriteEnd(c) ==
  /\ wr[c] \in {"ok", "err"} /\ mu[c] = "free"
  /\ writeErr' = [writeErr EXCEPT ![c] = @ \/ wr[c] = "err"]
  /\ wr' = [wr EXCEPT ![c] = IF wr[c] = "ok" THEN "idle" ELSE "failed"]
  /\ UNCHANGED <<closed, cancelled, readErr, readBuf, mu, rawVars, peerVars, readVars,
                 owner, hs, lisVars>>

(***************************************************************************)
(* Conn.Close by w, which holds the mutex until it returns.                *)
(***************************************************************************)
\* It cancels the context; the first one goes on to write the close frame.
CloseBegin(c, w) ==
  /\ mu[c] = "free"
  /\ cancelled' = [cancelled EXCEPT ![c] = TRUE]
  /\ closed' = [closed EXCEPT ![c] = TRUE]
  /\ IF closed[c] THEN UNCHANGED <<mu, inside, clash>>
                  ELSE mu' = [mu EXCEPT ![c] = w] /\ EnterWrite(c, w)
  /\ UNCHANGED <<readErr, writeErr, readBuf, raw, closeSent>>

\* It closes the underlying connection unless the close frame could not be
\* written; a panic releases the mutex too.
CloseEnd(c, w, r) ==
  /\ mu[c] = w
  /\ LeaveWrite(c, w)
  /\ closeSent' = [closeSent EXCEPT ![c] = @ \/ r = "ok"]
  /\ raw' = [raw EXCEPT ![c] = IF r \in {"ok", "ErrCloseSent"} THEN "closed" ELSE @]
  /\ mu' = [mu EXCEPT ![c] = "free"]
  /\ UNCHANGED <<closed, cancelled, readErr, writeErr, readBuf>>

\* HandlerManager.stop(), once: because somebody stops the owner, or because a
\* loop ended.
OwnerClose(c) ==
  /\ owner[c] = "open"
  /\ CloseBegin(c, "owner")
  /\ owner' = [owner EXCEPT ![c] = IF closed[c] THEN "done" ELSE "closing"]
  /\ UNCHANGED <<peerVars, readVars, wr, hs, lisVars>>

\* After a panic the rest of stop(), the cancelling of h.ctx, is not run.  The
\* owner's Close stands for the one in stop(), whose panic TaskGo recovers, and
\* for the deferred one of the goroutine that made the connection, whichever
\* comes first (the second finds closed set); a panic in the deferred one is
\* recovered by nobody and ends the process.
OwnerClosed(c) ==
  /\ owner[c] = "closing"
  /\ \E r \in WriteResults(c, "owner") :
       /\ CloseEnd(c, "owner", r)
       /\ owner' = [owner EXCEPT ![c] = IF r = "panic" THEN "panicked" ELSE "done"]
  /\ UNCHANGED <<peerVars, readVars, wr, hs, lisVars>>

(***************************************************************************)
(* WebSocketListener.                                                      *)
(***************************************************************************)
Upgrade(c) ==
  /\ hs[c] = "none" /\ lis \in {"open", "signalled"}
  /\ hs' = [hs EXCEPT ![c] = "select"]
  /\ raw' = [raw EXCEPT ![c] = "open"]
  /\ UNCHANGED <<connVars, inside, clash, closeSent, peerVars, readVars, wr, owner,
                 lisVars>>

\* The select of handleWS.  Nobody else knows the context yet, so its case is
\* not taken; a send on the closed connChan panics, and the deferred calls run.
HandOver(c) ==
  /\ hs[c] = "select"
  /\ \/ /\ ~chanClosed /\ Len(connChan) < ChanCap
        /\ connChan' = Append(connChan, c)
        /\ hs' = [hs EXCEPT ![c] = "wait"]
     \/ /\ closeChan
        /\ hs' = [hs EXCEPT ![c] = "leave"]
        /\ UNCHANGED connChan
  /\ UNCHANGED <<connVars, rawVars, peerVars, readVars, wr, owner, chanClosed, closeChan,
                 lis, acc>>

\* Mutant: handleWS returns as soon as it has handed the connection over.
WaitNot(c) ==
  /\ hs[c] = "wait"
  /\ hs' = [hs EXCEPT ![c] = "leave"]
  /\ UNCHANGED <<connVars, rawVars, peerVars, readVars, wr, owner, lisVars>>

\* Mutant: the inner select does not watch the listener.
WaitCtxOnly(c) == cancelled[c] /\ WaitNot(c)

\* The inner select: until the connection's Close or the listener's.
WaitOver(c) ==
  /\ hs[c] = "wait"
  /\ cancelled[c] \/ closeChan
  /\ hs' = [hs EXCEPT ![c] = "leave"]
  /\ UNCHANGED <<connVars, rawVars, peerVars, readVars, wr, owner, lisVars>>

\* The deferred calls: wrapper.Close(), then conn.Close() whatever it did.
HandlerClose(c) ==
  /\ hs[c] = "leave"
  /\ CloseBegin(c, "handleWS")
  /\ hs' = [hs EXCEPT ![c] = IF closed[c] THEN "raw" ELSE "closing"]
  /\ UNCHANGED <<peerVars, readVars, wr, owner, lisVars>>

HandlerClosed(c) ==
  /\ hs[c] = "closing"
  /\ \E r \in WriteResults(c, "handleWS") : CloseEnd(c, "handleWS", r)
  /\ hs' = [hs EXCEPT ![c] = "raw"]
  /\ UNCHANGED <<peerVars, readVars, wr, owner, lisVars>>

HandlerRawClose(c) ==
  /\ hs[c] = "raw"
  /\ raw' = [raw EXCEPT ![c] = "closed"]
  /\ hs' = [hs EXCEPT ![c] = "gone"]
  /\ UNCHANGED <<connVars, inside, clash, closeSent, peerVars, readVars, wr, owner,
                 lisVars>>

\* A connection, which may have waited in connChan since before Close.
Accept ==
  /\ acc = "on" /\ connChan # <<>>
  /\ owner' = [owner EXCEPT ![Head(connChan)] = "open"]
  /\ connChan' = Tail(connChan)
  /\ UNCHANGED <<connVars, rawVars, peerVars, readVars, wr, hs, chanClosed, closeChan,
                 lis, acc>>

\* net.ErrClosed, which ends the server's accept loop.
AcceptClosed ==
  /\ acc = "on" /\ closeChan
  /\ acc' = "ended"
  /\ UNCHANGED <<connVars, rawVars, peerVars, readVars, wr, owner, hs, connChan,
                 chanClosed, closeChan, lis>>

\* By the server, or by the goroutine of Serve when it fails: close(closeChan),
\* then server.Close and listener.Close, then close(connChan).
ListenerClose ==
  /\ \/ lis = "open" /\ lis' = "signalled" /\ closeChan' = TRUE /\ UNCHANGED chanClosed
     \/ lis = "signalled" /\ lis' = "down" /\ UNCHANGED <<closeChan, chanClosed>>
     \/ lis = "down" /\ lis' = "closed" /\ chanClosed' = TRUE /\ UNCHANGED closeChan
  /\ UNCHANGED <<connVars, rawVars, peerVars, readVars, wr, owner, hs, connChan, acc>>

ReadSteps(c) == ReadBegin(c) \/ ReadMessage(c) \/ ReadEnd(c)
WriteSteps(c) == WriteBegin(c) \/ WriteEnter(c) \/ WriteReturn(c) \/ WriteEnd(c)
HandlerSteps(c) ==
  HandOver(c) \/ WaitOver(c) \/ HandlerClose(c) \/ HandlerClosed(c) \/ HandlerRawClose(c)

Next ==
  \/ \E c \in Conns :
       \/ PeerSend(c) \/ PeerFault(c) \/ Upgrade(c) \/ OwnerClose(c) \/ OwnerClosed(c)
       \/ ReadSteps(c) \/ WriteSteps(c) \/ HandlerSteps(c)
  \/ Accept \/ AcceptClosed \/ ListenerClose

\* Goroutines keep running: each of a connection's is at one place, and a loop
\* that ends calls stop().  Nothing makes a peer act or anyone call Close.
Fairness ==
  /\ \A c \in Conns :
       /\ WF_vars(ReadSteps(c))
       /\ WF_vars(WriteSteps(c))
       /\ WF_vars(OwnerClosed(c) \/ ((ReadOver(c) \/ wr[c] = "failed") /\ OwnerClose(c)))
       /\ WF_vars(HandlerSteps(c))
  /\ WF_vars(Accept) /\ WF_vars(lis # "open" /\ ListenerClose)

Spec == Init /\ [][Next]_vars /\ Fairness

(***************************************************************************)
(* Properties.                                                             *)
(***************************************************************************)
\* The variables have their types; connChan holds at most ChanCap connections
\* and a Close that holds the mutex is writing its close frame.
TypeOK ==
  /\ {closed, cancelled, readErr, writeErr, closeSent} \subseteq [Conns -> BOOLEAN]
  /\ mu \in [Conns -> {"free", "owner", "handleWS"}]
  /\ inside \in [Conns -> SUBSET {"send", "owner", "handleWS"}]
  /\ \A c \in Conns : clash[c] \subseteq inside[c] /\ inside[c] \ {"send"} = {mu[c]} \ {"free"}
  /\ raw \in [Conns -> {"none", "open", "closed"}]
  /\ peer \in [Conns -> {"live", "closing", "stalled", "lost"}]
  /\ rd \in [Conns -> {"idle", "raw", "message", "closeErr", "err", "eof", "failed"}]
  /\ wr \in [Conns -> {"idle", "checked", "raw", "ok", "err", "failed"}]
  /\ owner \in [Conns -> {"none", "open", "closing", "done", "panicked"}]
  /\ hs \in [Conns -> {"none", "select", "wait", "leave", "closing", "raw", "gone"}]
  /\ connChan \in Seq(Upgraded) /\ Len(connChan) <= ChanCap
  /\ {chanClosed, closeChan} \subseteq BOOLEAN
  /\ lis \in {"open", "signalled", "down", "closed"} /\ acc \in {"on", "ended"}

\* The sequence s holds the bytes that follow the n-th.
Continues(s, n) == \A i \in 1 .. Len(s) : s[i] = n + i

\* What Read has returned, what it keeps, what it is about to return and what
\* is still on the way are the peer's bytes, each once and in order, however
\* messages and slices overlap; Read says io.EOF only when it has returned all
\* of them.
StreamInOrder ==
  \A c \in Conns :
    LET kept == Len(got[c]) + Len(readBuf[c])
        read == kept + Len(msg[c])
    IN  /\ Continues(got[c], 0) /\ Continues(readBuf[c], Len(got[c])) /\ Continues(msg[c], kept)
        /\ \A j \in 1 .. Len(wire[c]) :
             Continues(wire[c][j], IF j = 1 THEN read ELSE Last(wire[c][j - 1]))
        /\ sent[c] = IF wire[c] = <<>> THEN read ELSE Last(Last(wire[c]))
        /\ rd[c] = "eof" => Len(got[c]) = sent[c]

\* handleWS keeps the connection it handed over: the underlying connection is
\* closed only after its owner called Close or the listener was closed.
ServedUntilClosed ==
  \A c \in Conns : raw[c] = "closed" => owner[c] \notin {"none", "open"} \/ closeChan

\* After its own Close or the listener's, a connection is torn down, wherever
\* its handleWS was (about to hand over, blocked on a full connChan, keeping a
\* connection nobody will accept) and also when the close frame fails or a
\* concurrent writer makes Close panic: the underlying connection is closed,
\* the read loop and handleWS end.  Two exceptions: a stalled peer holds up
\* WriteMessage, and with it Close, for as long as it likes; and a dialled
\* connection, which has no handleWS, stays open if its close frame fails.
TornDown ==
  \A c \in Conns :
    closed[c] \/ (closeChan /\ hs[c] \notin {"none", "gone"}) ~>
      \/ /\ raw[c] = "closed" /\ hs[c] = "gone"
         /\ ReadOver(c) \/ owner[c] = "none"
      \/ peer[c] = "stalled"
      \/ c \in Dialled /\ (peer[c] # "live" \/ owner[c] = "panicked")

=============================================================================
