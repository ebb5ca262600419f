------------------------------ MODULE Protocol ------------------------------
(***************************************************************************)
(* protocol.Decoder at the two ends of a transport: Marshal writes a frame *)
(* (MsgID, length, data) with one Write, Unmarshal reads it back with two  *)
(* io.ReadFull calls from a stream that hands over its bytes in pieces of  *)
(* any size and may break anywhere.  The number of values of a byte is a   *)
(* parameter, and with it the word size of the two header fields, 2^32 in  *)
(* the code, so that lengths which wrap around can be reached.  Each end   *)
(* has its own limit on the data.                                          *)
(***************************************************************************)
EXTENDS Naturals, Sequences

CONSTANTS
  Base,        \* number of values of a byte (256)
  MaxDataLen,  \* the default limit
  Limits,      \* limits the two ends may be configured with, 0 for the default
  Messages,    \* messages the application sends
  MaxSends     \* bound on the number of Marshal calls

HeaderDataLen == 4
DataSizeLen == 4
ReadLen == HeaderDataLen + DataSizeLen

Byte == 0 .. Base - 1
Word == Base * Base * Base * Base

ASSUME BaseAboveOne == Base \in Nat /\ Base > 1
ASSUME LimitsAreWords == MaxDataLen \in 1 .. Word - 1 /\ Limits \subseteq 0 .. Word - 1
ASSUME MessagesOK == Messages \subseteq [MsgID : 0 .. Word - 1, Data : Seq(Byte)]
ASSUME SendsBounded == MaxSends \in Nat

VARIABLES
  smax, rmax,  \* WithMaxDataLen at the sending and at the receiving end
  wire,        \* bytes written and not yet read
  wst,         \* "open", or what ended the sending end
  sent,        \* messages a Write was begun for, in order
  phase,       \* which ReadFull of Unmarshal is running: "header" or "body"
  buf,         \* the bytes it has read
  head,        \* MsgID and dataSize of the frame being read
  got,         \* messages Unmarshal returned
  rerr         \* the error of the Unmarshal that failed, "nil" before

sendVars == <<wst, sent>>
recvVars == <<phase, buf, head, got, rerr>>
vars == <<smax, rmax, wire, sendVars, recvVars>>
-----------------------------------------------------------------------------
(* encoding/binary: big-endian fields.                                     *)

PutUint32(x) ==
  <<(x \div (Base * Base * Base)) % Base, (x \div (Base * Base)) % Base,
    (x \div Base) % Base, x % Base>>

Uint32(b) == ((b[1] * Base + b[2]) * Base + b[3]) * Base + b[4]

\* The limit of a decoder made with the given option.
NewDecoder(max) == IF max = 0 THEN MaxDataLen ELSE max

Init ==
  /\ smax \in Limits /\ rmax \in Limits
  /\ wire = <<>> /\ wst = "open" /\ sent = <<>>
  /\ phase = "header" /\ buf = <<>> /\ head = [MsgID |-> 0, dataSize |-> 0]
  /\ got = <<>> /\ rerr = "nil"
-----------------------------------------------------------------------------
(* Marshal.  Any error makes the send loop stop the connection.            *)

\* n := uint32(len(data))
Size(m) == Len(m.Data) % Word

TooLong(m) == Size(m) > NewDecoder(smax)

\* ReadLen + n wraps: the buffer is too short for the header.
HeaderOverflows(m) == (ReadLen + Size(m)) % Word < ReadLen

\* copy() stops at the end of the buffer made for n bytes of data.
Frame(m) == PutUint32(m.MsgID) \o PutUint32(Size(m)) \o SubSeq(m.Data, 1, Size(m))

MarshalRefuse(m) ==
  /\ wst = "open" /\ Len(sent) < MaxSends /\ TooLong(m)
  /\ wst' = "ErrDataLength"
  /\ UNCHANGED <<smax, rmax, wire, sent, recvVars>>

MarshalPanic(m) ==
  /\ wst = "open" /\ Len(sent) < MaxSends /\ ~TooLong(m) /\ HeaderOverflows(m)
  /\ wst' = "panic"
  /\ UNCHANGED <<smax, rmax, wire, sent, recvVars>>

\* The Write hands over the whole frame, or fails after k bytes of it.
MarshalWrite(m) ==
  /\ wst = "open" /\ Len(sent) < MaxSends /\ ~TooLong(m) /\ ~HeaderOverflows(m)
  /\ sent' = Append(sent, m)
  /\ \/ wire' = wire \o Frame(m) /\ wst' = wst
     \/ \E k \in 0 .. Len(Frame(m)) :
          wire' = wire \o SubSeq(Frame(m), 1, k) /\ wst' = "write"
  /\ UNCHANGED <<smax, rmax, recvVars>>

\* The sending end closes the transport for a reason of its own.
SenderClose ==
  /\ wst = "open" /\ wst' = "closed"
  /\ UNCHANGED <<smax, rmax, wire, sent, recvVars>>
-----------------------------------------------------------------------------
(* Unmarshal, called again and again by the read loop until it fails.      *)

\* Bytes the running io.ReadFull still wants.
Want == (IF phase = "header" THEN ReadLen ELSE head.dataSize) - Len(buf)

\* One Read of the transport: some of the bytes that have arrived.
Read(k) ==
  /\ rerr = "nil" /\ k \in 1 .. Want /\ k <= Len(wire)
  /\ buf' = buf \o SubSeq(wire, 1, k)
  /\ wire' = SubSeq(wire, k + 1, Len(wire))
  /\ UNCHANGED <<smax, rmax, sendVars, phase, head, got, rerr>>

\* The fields of a complete header.
HeadOf(b) == [MsgID |-> Uint32(SubSeq(b, 1, HeaderDataLen)),
              dataSize |-> Uint32(SubSeq(b, HeaderDataLen + 1, ReadLen))]

\* Mutant: data of exactly the limit is refused.
Exceeds(size) == size >= NewDecoder(rmax)

OverLimit(size) == size > NewDecoder(rmax)

UnmarshalRefuse ==
  /\ rerr = "nil" /\ phase = "header" /\ Want = 0
  /\ OverLimit(HeadOf(buf).dataSize)
  /\ rerr' = "ErrDataLength"
  /\ UNCHANGED <<smax, rmax, wire, sendVars, phase, buf, head, got>>

UnmarshalHeader ==
  /\ rerr = "nil" /\ phase = "header" /\ Want = 0
  /\ ~OverLimit(HeadOf(buf).dataSize)
  /\ head' = HeadOf(buf) /\ phase' = "body" /\ buf' = <<>>
  /\ UNCHANGED <<smax, rmax, wire, sendVars, got, rerr>>

\* Mutant: one Read instead of io.ReadFull for the data.
ReturnShort ==
  /\ rerr = "nil" /\ phase = "body" /\ (Want = 0 \/ buf # <<>>)
  /\ got' = Append(got, [MsgID |-> head.MsgID, Data |-> buf])
  /\ phase' = "header" /\ buf' = <<>>
  /\ UNCHANGED <<smax, rmax, wire, sendVars, head, rerr>>

\* Mutant: a frame without data waits for a byte.
ReturnNonEmpty ==
  /\ rerr = "nil" /\ phase = "body" /\ Want = 0 /\ buf # <<>>
  /\ got' = Append(got, [MsgID |-> head.MsgID, Data |-> buf])
  /\ phase' = "header" /\ buf' = <<>>
  /\ UNCHANGED <<smax, rmax, wire, sendVars, head, rerr>>

\* The data is complete, at once when there is none.
UnmarshalReturn ==
  /\ rerr = "nil" /\ phase = "body" /\ Want = 0
  /\ got' = Append(got, [MsgID |-> head.MsgID, Data |-> buf])
  /\ phase' = "header" /\ buf' = <<>>
  /\ UNCHANGED <<smax, rmax, wire, sendVars, head, rerr>>

\* io.ReadFull at the end of the stream: EOF if it had read nothing, be it in
\* the header or, after a complete header, in the data.
UnmarshalEOF ==
  /\ rerr = "nil" /\ Want > 0 /\ wire = <<>> /\ wst # "open"
  /\ rerr' = IF buf = <<>> THEN "EOF" ELSE "ErrUnexpectedEOF"
  /\ UNCHANGED <<smax, rmax, wire, sendVars, phase, buf, head, got>>

\* Read fails: the receiving end was closed, or the transport broke.
UnmarshalFail ==
  /\ rerr = "nil" /\ Want > 0 /\ rerr' = "read"
  /\ UNCHANGED <<smax, rmax, wire, sendVars, phase, buf, head, got>>
-----------------------------------------------------------------------------
Unmarshal ==
  \/ \E k \in 1 .. Len(wire) : Read(k)
  \/ UnmarshalRefuse \/ UnmarshalHeader \/ UnmarshalReturn \/ UnmarshalEOF

Next ==
  \/ \E m \in Messages : MarshalRefuse(m) \/ MarshalPanic(m) \/ MarshalWrite(m)
  \/ SenderClose \/ Unmarshal \/ UnmarshalFail

Safety == Init /\ [][Next]_vars

\* The read loop runs, and bytes that were written arrive.
Spec == Safety /\ WF_vars(Unmarshal)
-----------------------------------------------------------------------------
TypeOK ==
  /\ smax \in Limits /\ rmax \in Limits
  /\ wire \in Seq(Byte) /\ buf \in Seq(Byte)
  /\ wst \in {"open", "ErrDataLength", "panic", "write", "closed"}
  /\ sent \in Seq(Messages) /\ Len(sent) <= MaxSends
  /\ phase \in {"header", "body"}
  /\ head \in [MsgID : 0 .. Word - 1, dataSize : 0 .. NewDecoder(rmax)]
  /\ got \in Seq([MsgID : 0 .. Word - 1, Data : Seq(Byte)])
  /\ rerr \in {"nil", "ErrDataLength", "EOF", "ErrUnexpectedEOF", "read"}

\* What a message is once its length has been cut to a word.
OnWire(m) == [MsgID |-> m.MsgID, Data |-> SubSeq(m.Data, 1, Len(m.Data) % Word)]

\* Unmarshal returns the messages that were marshalled, in order and none
\* twice, however the stream is cut into pieces and wherever it breaks: a torn
\* frame is never returned.  (Data of a word or more arrives shortened.)
Framed ==
  /\ Len(got) <= Len(sent)
  /\ \A i \in DOMAIN got : got[i] = OnWire(sent[i])

\* Each end stops for its own reason only.  Unmarshal refuses a frame only if
\* the message it should return next is really above the receiver's limit, and
\* returns none that is; io.EOF after a transport that did not break means that
\* everything sent was returned; Marshal panics only if its limit leaves no
\* room for the header below the word size.
EndsForItsReason ==
  /\ rerr = "ErrDataLength" =>
       /\ Len(got) < Len(sent)
       /\ Size(sent[Len(got) + 1]) > NewDecoder(rmax)
  /\ \A i \in DOMAIN got : Len(got[i].Data) <= NewDecoder(rmax)
  /\ rerr = "EOF" /\ wst # "write" => Len(got) = Len(sent)
  /\ wst = "panic" => NewDecoder(smax) >= Word - ReadLen

\* Every message for which a Write was begun is returned, or Unmarshal fails.
Arrives ==
  \A i \in 1 .. MaxSends :
    (Len(sent) >= i) ~> (Len(got) >= i \/ rerr # "nil")
=============================================================================
