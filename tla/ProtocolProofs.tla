--------------------------- MODULE ProtocolProofs ---------------------------
(***************************************************************************)
(* The safety properties of Protocol, for every set of messages, all       *)
(* limits and every number of values of a byte.                            *)
(***************************************************************************)
EXTENDS Protocol, Integers, SequenceTheorems, TLAPS

(***************************************************************************)
(* encoding/binary: a field gives back the number put into it.             *)
(***************************************************************************)
LEMMA WordPositive == Base \in Nat /\ Base > 1 /\ Word \in Nat /\ Word > 0
BY BaseAboveOne DEF Word

LEMMA DivMod ==
  ASSUME NEW b \in Nat, b > 0, NEW x \in Nat
  PROVE  /\ x \div b \in Nat /\ x % b \in 0 .. b - 1
         /\ x - b * (x \div b) = x % b
OBVIOUS

LEMMA DivUnique ==
  ASSUME NEW b \in Nat, b > 0, NEW q \in Nat, NEW r \in 0 .. b - 1
  PROVE  (b * q + r) \div b = q /\ (b * q + r) % b = r
OBVIOUS

\* Two shifts by a byte are one by two bytes.
LEMMA DivDiv ==
  ASSUME NEW a \in Nat, a > 0, NEW b \in Nat, b > 0, NEW x \in Nat
  PROVE  x \div (a * b) = (x \div a) \div b
<1> DEFINE y == x \div a  q == y \div b  r == y % b  s == x % a
<1>1. y \in Nat /\ s \in 0 .. a - 1 /\ x - a * y = s
  BY DivMod
<1> HIDE DEF y, s
<1>2. q \in Nat /\ r \in 0 .. b - 1 /\ y - b * q = r
  BY <1>1, DivMod
<1> HIDE DEF q, r
<1>3. x = (a * b) * q + (a * r + s)
  BY <1>1, <1>2
<1>4. a * r + s \in 0 .. a * b - 1
  <2>1. a * r <= a * (b - 1)
    BY <1>2
  <2>2. a * (b - 1) = a * b - a
    OBVIOUS
  <2>3. a * r \in Nat /\ a * b \in Nat
    BY <1>2
  <2> QED BY <1>1, <2>1, <2>2, <2>3
<1>5. a * b \in Nat /\ a * b > 0
  OBVIOUS
<1>6. x \div (a * b) = q
  BY <1>2, <1>3, <1>4, <1>5, DivUnique
<1> QED BY <1>6 DEF q, y

LEMMA TimesMonotonic ==
  ASSUME NEW a \in Nat, NEW b \in Nat, NEW c \in Nat, b <= c
  PROVE  a * b \in Nat /\ a * b <= a * c
OBVIOUS

LEMMA RoundTrip ==
  ASSUME NEW x \in 0 .. Word - 1
  PROVE  /\ PutUint32(x) \in Seq(Byte) /\ Len(PutUint32(x)) = 4
         /\ Uint32(PutUint32(x)) = x
<1> USE WordPositive
<1> DEFINE x1 == x \div Base  x2 == x1 \div Base  x3 == x2 \div Base
           d0 == x % Base  d1 == x1 % Base  d2 == x2 % Base
<1>0. x \in Nat
  OBVIOUS
<1>1. x1 \in Nat /\ d0 \in Byte /\ x - Base * x1 = d0
  BY <1>0, DivMod DEF Byte
<1>2. x2 \in Nat /\ d1 \in Byte /\ x1 - Base * x2 = d1
  BY <1>1, DivMod DEF Byte
<1>3. x3 \in Nat /\ d2 \in Byte /\ x2 - Base * x3 = d2
  BY <1>2, DivMod DEF Byte
<1>4. x \div (Base * Base) = x2 /\ x \div (Base * Base * Base) = x3
  <2>1. x \div (Base * Base) = x2
    BY <1>0, DivDiv
  <2>2. Base * Base \in Nat /\ Base * Base > 0
    OBVIOUS
  <2>3. x \div ((Base * Base) * Base) = (x \div (Base * Base)) \div Base
    BY <1>0, <2>2, DivDiv
  <2> QED BY <2>1, <2>3
<1>5. PutUint32(x) = <<x3 % Base, d2, d1, d0>>
  BY <1>4, Zenon DEF PutUint32
<1> HIDE DEF x1, x2, x3, d0, d1, d2
<1>6. x3 \in Byte /\ x3 % Base = x3
  <2>1. SUFFICES x3 < Base
    BY <1>3 DEF Byte
  <2>2. SUFFICES ASSUME x3 >= Base PROVE FALSE
    BY <1>3
  <2>3. Base * Base \in Nat /\ Base * x3 \in Nat /\ Base * x3 >= Base * Base
    BY <1>3, <2>2, TimesMonotonic
  <2>4. x2 >= Base * Base
    BY <1>2, <1>3, <2>3 DEF Byte
  <2>5. /\ Base * (Base * Base) \in Nat /\ Base * x2 \in Nat
        /\ Base * x2 >= Base * (Base * Base)
    BY <1>2, <2>3, <2>4, TimesMonotonic
  <2>6. x1 >= Base * (Base * Base)
    BY <1>1, <1>2, <2>5 DEF Byte
  <2>7. /\ Base * (Base * (Base * Base)) \in Nat /\ Base * x1 \in Nat
        /\ Base * x1 >= Base * (Base * (Base * Base))
    BY <1>1, <2>5, <2>6, TimesMonotonic
  <2>8. x >= Base * (Base * (Base * Base))
    BY <1>0, <1>1, <2>7 DEF Byte
  <2>9. Word = Base * (Base * (Base * Base))
    BY DEF Word
  <2> QED BY <2>7, <2>8, <2>9
<1>7. Uint32(PutUint32(x)) = ((x3 * Base + d2) * Base + d1) * Base + d0
  BY <1>5, <1>6 DEF Uint32
<1>8. x3 * Base + d2 = x2 /\ x2 * Base + d1 = x1 /\ x1 * Base + d0 = x
  BY <1>0, <1>1, <1>2, <1>3 DEF Byte
<1> QED BY <1>1, <1>2, <1>3, <1>5, <1>6, <1>7, <1>8

(***************************************************************************)
(* Frames.                                                                 *)
(***************************************************************************)
LEMMA SizeFits ==
  ASSUME NEW m \in Messages
  PROVE  /\ m.MsgID \in 0 .. Word - 1 /\ m.Data \in Seq(Byte)
         /\ Size(m) \in 0 .. Word - 1 /\ Size(m) <= Len(m.Data)
<1>1. m.MsgID \in 0 .. Word - 1 /\ m.Data \in Seq(Byte)
  BY MessagesOK
<1>2. Len(m.Data) \in Nat
  BY <1>1
<1> DEFINE n == Len(m.Data)  q == n \div Word  r == n % Word
<1>3. q \in Nat /\ r \in 0 .. Word - 1 /\ n - Word * q = r
  BY <1>2, WordPositive, DivMod
<1> HIDE DEF q, r
<1>4. Word * q \in Nat
  BY <1>3, WordPositive
<1>5. r <= n
  BY <1>2, <1>3, <1>4
<1> QED BY <1>1, <1>3, <1>5 DEF Size, r

LEMMA FrameShape ==
  ASSUME NEW m \in Messages
  PROVE  /\ Frame(m) \in Seq(Byte) /\ Len(Frame(m)) = ReadLen + Size(m)
         /\ \A j \in 1 .. 4 : Frame(m)[j] = PutUint32(m.MsgID)[j]
         /\ \A j \in 1 .. 4 : Frame(m)[4 + j] = PutUint32(Size(m))[j]
         /\ \A j \in 1 .. Size(m) : Frame(m)[8 + j] = m.Data[j]
<1> DEFINE a == PutUint32(m.MsgID)  b == PutUint32(Size(m))  d == SubSeq(m.Data, 1, Size(m))
<1>1. Size(m) \in Nat /\ Size(m) <= Len(m.Data) /\ m.Data \in Seq(Byte)
  BY SizeFits, WordPositive
<1>2. a \in Seq(Byte) /\ Len(a) = 4 /\ b \in Seq(Byte) /\ Len(b) = 4
  BY SizeFits, RoundTrip
<1>3. d \in Seq(Byte) /\ Len(d) = Size(m) /\ \A j \in 1 .. Size(m) : d[j] = m.Data[j]
  <2>1. \A i \in 1 .. Size(m) : m.Data[i] \in Byte
    BY <1>1
  <2> QED BY <1>1, <2>1, SubSeqProperties
<1>4. Frame(m) = (a \o b) \o d
  BY DEF Frame
<1> DEFINE ab == a \o b
<1> HIDE DEF a, b, d
<1>5. /\ ab \in Seq(Byte) /\ Len(ab) = 8
      /\ \A j \in 1 .. 8 : ab[j] = IF j <= 4 THEN a[j] ELSE b[j - 4]
  <2>1. /\ a \o b \in Seq(Byte) /\ Len(a \o b) = Len(a) + Len(b)
        /\ \A i \in 1 .. Len(a) + Len(b) :
             (a \o b)[i] = IF i <= Len(a) THEN a[i] ELSE b[i - Len(a)]
    BY <1>2, ConcatProperties, Zenon
  <2> QED BY <1>2, <2>1
<1>6. /\ Frame(m) \in Seq(Byte) /\ Len(Frame(m)) = 8 + Size(m)
      /\ \A j \in 1 .. 8 + Size(m) :
           Frame(m)[j] = IF j <= 8 THEN ab[j] ELSE d[j - 8]
  <2> HIDE DEF ab
  <2>0. ab \in Seq(Byte) /\ Len(ab) = 8 /\ Frame(m) = ab \o d
    BY <1>4, <1>5 DEF ab
  <2>1. /\ ab \o d \in Seq(Byte) /\ Len(ab \o d) = Len(ab) + Len(d)
        /\ \A i \in 1 .. Len(ab) + Len(d) :
             (ab \o d)[i] = IF i <= Len(ab) THEN ab[i] ELSE d[i - Len(ab)]
    BY <1>3, <2>0, ConcatProperties, Zenon
  <2> QED BY <1>1, <1>3, <2>0, <2>1
<1> HIDE DEF ab
<1>7. \A j \in 1 .. 4 : Frame(m)[j] = a[j] /\ Frame(m)[4 + j] = b[j]
  BY <1>1, <1>5, <1>6
<1>8. \A j \in 1 .. Size(m) : Frame(m)[8 + j] = m.Data[j]
  BY <1>1, <1>3, <1>6
<1> QED BY <1>6, <1>7, <1>8 DEF ReadLen, HeaderDataLen, DataSizeLen, a, b

LEMMA FrameLen ==
  ASSUME NEW m \in Messages
  PROVE  Size(m) \in Nat /\ Len(Frame(m)) = 8 + Size(m) /\ Len(Frame(m)) \in Nat
<1>1. Size(m) \in Nat
  BY SizeFits, WordPositive
<1>2. Len(Frame(m)) = 8 + Size(m)
  BY FrameShape DEF ReadLen, HeaderDataLen, DataSizeLen
<1> QED BY <1>1, <1>2

\* Unmarshal finds in a complete header what Marshal put there.
LEMMA HeaderDecoded ==
  ASSUME NEW m \in Messages, NEW h \in Seq(Byte), Len(h) = ReadLen,
         \A j \in 1 .. ReadLen : h[j] = Frame(m)[j]
  PROVE  HeadOf(h) = [MsgID |-> m.MsgID, dataSize |-> Size(m)]
<1> USE DEF ReadLen, HeaderDataLen, DataSizeLen
<1> DEFINE a == SubSeq(h, 1, 4)  b == SubSeq(h, 5, 8)
<1>1. \A j \in 1 .. 4 : a[j] = h[j] /\ b[j] = h[4 + j]
  <2>0. \A i \in 1 .. Len(h) : h[i] \in Byte
    BY ElementOfSeq, Zenon
  <2>1. \A i \in 1 .. 8 : h[i] \in Byte
    BY <2>0
  <2>2. \A i \in 1 .. 4 - 1 + 1 : a[i] = h[1 + i - 1]
    BY <2>1, SubSeqProperties
  <2>3. \A i \in 1 .. 8 - 5 + 1 : b[i] = h[5 + i - 1]
    BY <2>1, SubSeqProperties
  <2> HIDE DEF a, b
  <2> QED BY <2>2, <2>3
<1>2. \A j \in 1 .. 4 : a[j] = PutUint32(m.MsgID)[j] /\ b[j] = PutUint32(Size(m))[j]
  BY <1>1, FrameShape
<1>3. Uint32(a) = m.MsgID /\ Uint32(b) = Size(m)
  <2>1. Uint32(PutUint32(m.MsgID)) = m.MsgID /\ Uint32(PutUint32(Size(m))) = Size(m)
    BY SizeFits, RoundTrip
  <2> HIDE DEF a, b
  <2> QED BY <1>2, <2>1 DEF Uint32
<1> QED BY <1>3 DEF HeadOf

(***************************************************************************)
(* The invariant.  T is the stream: every byte ever written; off[i] is     *)
(* where the frame of the i-th message begins in it.                       *)
(***************************************************************************)
Written(T, off) ==
  /\ Len(off) = Len(sent) + 1 /\ off[1] = 0
  /\ \A i \in 1 .. Len(sent) : off[i + 1] = off[i] + Len(Frame(sent[i]))
  /\ \A i, j \in 1 .. Len(off) : i <= j => off[i] <= off[j]
  /\ Len(T) <= off[Len(off)] /\ (wst # "write" => Len(T) = off[Len(off)])
  /\ \A i \in 1 .. Len(sent) : \A j \in 1 .. Len(Frame(sent[i])) :
       off[i] + j <= Len(T) => T[off[i] + j] = Frame(sent[i])[j]

\* Where the bytes begin that the running ReadFull reads.
Start(off) == off[Len(got) + 1] + IF phase = "body" THEN ReadLen ELSE 0

\* What ReadFull has read and what it has not follow each other in the stream.
Consumed(T, off) ==
  /\ Len(T) = Start(off) + Len(buf) + Len(wire)
  /\ \A i \in 1 .. Len(buf) : buf[i] = T[Start(off) + i]
  /\ \A i \in 1 .. Len(wire) : wire[i] = T[Start(off) + Len(buf) + i]

Stream == \E T \in Seq(Byte), off \in Seq(Nat) : Written(T, off) /\ Consumed(T, off)

\* ReadFull reads no more than it wants, and in the data the header is that of
\* the message to be returned next.
InStep ==
  /\ Len(got) <= Len(sent)
  /\ phase = "header" => Len(buf) <= ReadLen
  /\ phase = "body" =>
       /\ Len(got) < Len(sent) /\ Len(buf) <= head.dataSize
       /\ head = [MsgID |-> sent[Len(got) + 1].MsgID, dataSize |-> Size(sent[Len(got) + 1])]

IInv ==
  /\ TypeOK /\ InStep /\ Stream /\ Framed /\ EndsForItsReason
  /\ rerr = "EOF" => wst # "open"

LEMMA LimitIsWord ==
  ASSUME NEW max \in Limits
  PROVE  NewDecoder(max) \in 0 .. Word - 1
BY LimitsAreWords, WordPositive DEF NewDecoder

LEMMA InitInv == Init => IInv
<1> SUFFICES ASSUME Init PROVE IInv
  OBVIOUS
<1> USE DEF Init
<1>1. TypeOK
  <2>1. 0 \in 0 .. NewDecoder(rmax) /\ 0 \in 0 .. Word - 1
    BY LimitIsWord, WordPositive
  <2> QED BY <2>1, SendsBounded DEF TypeOK
<1>2. InStep /\ Framed /\ EndsForItsReason
  BY DEF InStep, Framed, EndsForItsReason, ReadLen, HeaderDataLen, DataSizeLen
<1>3. ASSUME NEW off \in Seq(Nat), Len(off) = 1, off[1] = 0
      PROVE  Written(<<>>, off) /\ Consumed(<<>>, off)
  <2>1. Len(got) + 1 = 1
    OBVIOUS
  <2>2. Start(off) = 0
    BY <1>3, <2>1 DEF Start
  <2>3. Consumed(<<>>, off)
    BY <2>2 DEF Consumed
  <2> QED BY <1>3, <2>3 DEF Written
<1>4. <<0>> \in Seq(Nat) /\ Len(<<0>>) = 1 /\ <<0>>[1] = 0 /\ <<>> \in Seq(Byte)
  OBVIOUS
<1>5. Stream
  BY <1>3, <1>4, Zenon DEF Stream
<1> QED BY <1>1, <1>2, <1>5 DEF IInv

\* A complete header is the one of the message to be returned next.
LEMMA NextHeader ==
  ASSUME IInv, phase = "header", Len(buf) = ReadLen
  PROVE  /\ Len(got) < Len(sent) /\ sent[Len(got) + 1] \in Messages
         /\ HeadOf(buf) = [MsgID |-> sent[Len(got) + 1].MsgID,
                           dataSize |-> Size(sent[Len(got) + 1])]
<1> DEFINE k == Len(got) + 1
<1>1. PICK T \in Seq(Byte), off \in Seq(Nat) : Written(T, off) /\ Consumed(T, off)
  BY DEF IInv, Stream
<1>2. /\ Len(got) \in Nat /\ Len(sent) \in Nat /\ Len(got) <= Len(sent)
      /\ Len(wire) \in Nat /\ buf \in Seq(Byte) /\ sent \in Seq(Messages)
  BY DEF IInv, TypeOK, InStep
<1>3. /\ k \in 1 .. Len(off) /\ Len(off) \in 1 .. Len(off) /\ off[k] \in Nat
      /\ off[Len(off)] \in Nat /\ Len(off) = Len(sent) + 1
  BY <1>1, <1>2 DEF Written
<1>4. ReadLen = 8
  BY DEF ReadLen, HeaderDataLen, DataSizeLen
<1>5. /\ Len(T) = off[k] + 8 + Len(wire) /\ Len(T) <= off[Len(off)]
      /\ \A i \in 1 .. 8 : buf[i] = T[off[k] + i]
  <2>1. Start(off) = off[k] + 0
    BY DEF Start
  <2>2. Start(off) = off[k]
    BY <1>3, <2>1
  <2> HIDE DEF k
  <2> QED BY <1>1, <1>3, <1>4, <2>2 DEF Written, Consumed
<1>6. Len(got) < Len(sent)
  <2>1. k # Len(off)
    <3> DEFINE o == off[k]  e == off[Len(off)]  w == Len(wire)
    <3>1. o \in Nat /\ w \in Nat /\ o + 8 + w <= e
      BY <1>2, <1>3, <1>5
    <3>2. k = Len(off) => o = e
      OBVIOUS
    <3> HIDE DEF o, e, w, k
    <3> QED BY <3>1, <3>2
  <2> QED BY <1>2, <1>3, <2>1
<1>7. k \in 1 .. Len(sent) /\ sent[k] \in Messages
  BY <1>2, <1>6
<1> HIDE DEF k
<1>8. Len(Frame(sent[k])) \in Nat /\ Len(Frame(sent[k])) >= 8
  BY <1>7, FrameLen
<1>9. \A i \in 1 .. 8 : off[k] + i <= Len(T) /\ i \in 1 .. Len(Frame(sent[k]))
  <2> DEFINE o == off[k]  n == Len(Frame(sent[k]))  w == Len(wire)
  <2>1. o \in Nat /\ n \in Nat /\ n >= 8 /\ w \in Nat /\ Len(T) = o + 8 + w
    BY <1>2, <1>3, <1>5, <1>8
  <2> HIDE DEF o, n, w
  <2>2. \A i \in 1 .. 8 : o + i <= o + 8 + w /\ i \in 1 .. n
    BY <2>1
  <2> QED BY <2>1, <2>2 DEF o, n
<1>10. \A i \in 1 .. 8 : buf[i] = Frame(sent[k])[i]
  BY <1>1, <1>5, <1>7, <1>9 DEF Written
<1>11. HeadOf(buf) = [MsgID |-> sent[k].MsgID, dataSize |-> Size(sent[k])]
  BY <1>2, <1>4, <1>7, <1>10, HeaderDecoded
<1> QED BY <1>6, <1>7, <1>11 DEF k

\* Complete data is the data of that message.
LEMMA NextData ==
  ASSUME IInv, phase = "body", Len(buf) = head.dataSize
  PROVE  /\ Len(got) < Len(sent) /\ sent[Len(got) + 1] \in Messages
         /\ [MsgID |-> head.MsgID, Data |-> buf] = OnWire(sent[Len(got) + 1])
<1> DEFINE k == Len(got) + 1  m == sent[k]
<1>1. PICK T \in Seq(Byte), off \in Seq(Nat) : Written(T, off) /\ Consumed(T, off)
  BY DEF IInv, Stream
<1>2. /\ Len(got) \in Nat /\ Len(sent) \in Nat /\ Len(got) < Len(sent)
      /\ Len(wire) \in Nat /\ buf \in Seq(Byte) /\ sent \in Seq(Messages)
  BY DEF IInv, TypeOK, InStep
<1>3. k \in 1 .. Len(sent) /\ m \in Messages
  BY <1>2
<1>4. head.MsgID = m.MsgID /\ head.dataSize = Size(m)
  BY DEF IInv, InStep
<1> HIDE DEF m
<1>5. /\ Size(m) \in Nat /\ Size(m) <= Len(m.Data) /\ m.Data \in Seq(Byte)
      /\ Len(Frame(m)) = 8 + Size(m) /\ Len(buf) = Size(m)
      /\ \A j \in 1 .. Size(m) : Frame(m)[8 + j] = m.Data[j]
  BY <1>3, <1>4, SizeFits, FrameShape, WordPositive DEF ReadLen, HeaderDataLen, DataSizeLen
<1>6. off[k] \in Nat
  BY <1>1, <1>2 DEF Written
<1>7. /\ Len(T) = off[k] + 8 + Size(m) + Len(wire)
      /\ \A i \in 1 .. Size(m) : buf[i] = T[off[k] + 8 + i]
  BY <1>1, <1>5, <1>6 DEF Consumed, Start, ReadLen, HeaderDataLen, DataSizeLen
<1>8. \A j \in 1 .. 8 + Size(m) : off[k] + j <= Len(T) => T[off[k] + j] = Frame(m)[j]
  BY <1>1, <1>3, <1>5 DEF Written, m
<1> HIDE DEF k
<1>9. ASSUME NEW i \in 1 .. Size(m) PROVE buf[i] = m.Data[i]
  <2> DEFINE o == off[k]  n == Size(m)  w == Len(wire)
  <2>0. o \in Nat /\ n \in Nat /\ w \in Nat /\ i \in 1 .. n /\ Len(T) = o + 8 + n + w
    BY <1>2, <1>5, <1>6, <1>7
  <2> HIDE DEF o, n, w
  <2>1. 8 + i \in 1 .. 8 + n /\ o + (8 + i) <= o + 8 + n + w /\ o + (8 + i) = o + 8 + i
    BY <2>0
  <2>2. T[off[k] + (8 + i)] = Frame(m)[8 + i]
    BY <1>8, <2>0, <2>1 DEF o, n
  <2>3. off[k] + (8 + i) = off[k] + 8 + i
    BY <2>1 DEF o
  <2> QED BY <1>5, <1>7, <2>2, <2>3
<1>10. buf = SubSeq(m.Data, 1, Size(m))
  <2> DEFINE d == SubSeq(m.Data, 1, Size(m))
  <2>1. \A i \in 1 .. Size(m) : m.Data[i] \in Byte
    BY <1>5
  <2>2. d \in Seq(Byte) /\ Len(d) = Size(m) /\ \A i \in 1 .. Size(m) : d[i] = m.Data[i]
    BY <1>5, <2>1, SubSeqProperties
  <2> HIDE DEF d
  <2>3. buf = d
    <3>1. buf \in Seq(Byte) /\ Len(buf) = Len(d) /\ \A i \in 1 .. Len(buf) : buf[i] = d[i]
      BY <1>2, <1>5, <1>9, <2>2
    <3> QED BY <2>2, <3>1, SeqEqual, Zenon
  <2> QED BY <2>3 DEF d
<1>11. m.Data \in Seq(Byte) /\ Size(m) = Len(m.Data) % Word
  BY <1>5 DEF Size
<1> QED BY <1>2, <1>3, <1>4, <1>10, <1>11 DEF OnWire, m, k

\* A Read moves bytes from the front of one sequence to the end of another.
LEMMA Moved ==
  ASSUME NEW S, NEW b \in Seq(S), NEW w \in Seq(S), NEW k \in 1 .. Len(w)
  PROVE  LET u == b \o SubSeq(w, 1, k)  v == SubSeq(w, k + 1, Len(w)) IN
         /\ u \in Seq(S) /\ Len(u) = Len(b) + k
         /\ \A i \in 1 .. Len(b) : u[i] = b[i]
         /\ \A i \in 1 .. k : u[Len(b) + i] = w[i]
         /\ v \in Seq(S) /\ Len(v) = Len(w) - k
         /\ \A i \in 1 .. Len(w) - k : v[i] = w[k + i]
<1> DEFINE h == SubSeq(w, 1, k)  u == b \o h  v == SubSeq(w, k + 1, Len(w))
<1>1. Len(w) \in Nat /\ Len(b) \in Nat /\ k \in Nat /\ 1 <= k /\ k <= Len(w)
  OBVIOUS
<1>2. \A i \in 1 .. Len(w) : w[i] \in S
  BY ElementOfSeq, Zenon
<1>3. h \in Seq(S) /\ Len(h) = k /\ \A i \in 1 .. k : h[i] = w[i]
  <2>1. \A i \in 1 .. k : w[i] \in S
    BY <1>1, <1>2
  <2>2. /\ h \in Seq(S) /\ Len(h) = (IF 1 <= k THEN k - 1 + 1 ELSE 0)
        /\ \A i \in 1 .. k - 1 + 1 : h[i] = w[1 + i - 1]
    BY <1>1, <2>1, SubSeqProperties
  <2> HIDE DEF h
  <2> QED BY <1>1, <2>2
<1>4. v \in Seq(S) /\ Len(v) = Len(w) - k /\ \A i \in 1 .. Len(w) - k : v[i] = w[k + i]
  <2>1. \A i \in k + 1 .. Len(w) : w[i] \in S
    BY <1>1, <1>2
  <2>2. /\ v \in Seq(S)
        /\ Len(v) = (IF k + 1 <= Len(w) THEN Len(w) - (k + 1) + 1 ELSE 0)
        /\ \A i \in 1 .. Len(w) - (k + 1) + 1 : v[i] = w[k + 1 + i - 1]
    BY <1>1, <2>1, SubSeqProperties
  <2> HIDE DEF v
  <2> QED BY <1>1, <2>2
<1>5. u \in Seq(S) /\ Len(u) = Len(b) + k
      /\ \A i \in 1 .. Len(b) + k : u[i] = IF i <= Len(b) THEN b[i] ELSE h[i - Len(b)]
  <2> HIDE DEF h
  <2>1. /\ b \o h \in Seq(S) /\ Len(b \o h) = Len(b) + Len(h)
        /\ \A i \in 1 .. Len(b) + Len(h) :
             (b \o h)[i] = IF i <= Len(b) THEN b[i] ELSE h[i - Len(b)]
    BY <1>3, ConcatProperties, Zenon
  <2> QED BY <1>3, <2>1
<1> HIDE DEF u, h
<1>6. \A i \in 1 .. Len(b) : u[i] = b[i]
  BY <1>1, <1>5
<1>7. \A i \in 1 .. k : u[Len(b) + i] = w[i]
  BY <1>1, <1>3, <1>5
<1> QED BY <1>4, <1>5, <1>6, <1>7 DEF u, h

\* One Read of either ReadFull.
LEMMA ReadInv == ASSUME IInv, NEW k \in 1 .. Len(wire), Read(k) PROVE IInv'
<1>1. /\ wire \in Seq(Byte) /\ buf \in Seq(Byte) /\ Len(wire) \in Nat /\ Len(buf) \in Nat
      /\ k \in Nat /\ k <= Len(wire)
  BY DEF IInv, TypeOK
<1>2. /\ buf' \in Seq(Byte) /\ Len(buf') = Len(buf) + k
      /\ \A i \in 1 .. Len(buf) : buf'[i] = buf[i]
      /\ \A i \in 1 .. k : buf'[Len(buf) + i] = wire[i]
      /\ wire' \in Seq(Byte) /\ Len(wire') = Len(wire) - k
      /\ \A i \in 1 .. Len(wire) - k : wire'[i] = wire[k + i]
  BY <1>1, Moved DEF Read
<1>3. UNCHANGED <<smax, rmax, wst, sent, phase, head, got, rerr>> /\ k <= Want
  BY DEF Read, sendVars
<1>4. TypeOK'
  BY <1>2, <1>3 DEF IInv, TypeOK
<1>5. InStep'
  <2>1. ReadLen \in Nat /\ (phase = "body" => head.dataSize \in Nat)
    BY SizeFits, LimitIsWord, WordPositive DEF IInv, TypeOK, ReadLen, HeaderDataLen, DataSizeLen
  <2>2. phase = "header" => Len(buf) + k <= ReadLen
    BY <1>1, <1>3, <2>1 DEF Want
  <2>3. phase = "body" => Len(buf) + k <= head.dataSize
    BY <1>1, <1>3, <2>1 DEF Want
  <2> QED BY <1>2, <1>3, <2>2, <2>3 DEF IInv, InStep
<1>6. Stream'
  <2>1. PICK T \in Seq(Byte), off \in Seq(Nat) : Written(T, off) /\ Consumed(T, off)
    BY DEF IInv, Stream
  <2>2. Written(T, off)'
    BY <1>3, <2>1 DEF Written
  <2>3. Start(off)' = Start(off) /\ Start(off) \in Nat
    <3>1. Len(got) + 1 \in 1 .. Len(off)
      BY <2>1 DEF IInv, TypeOK, InStep, Written
    <3> QED BY <1>3, <3>1 DEF Start, ReadLen, HeaderDataLen, DataSizeLen
  <2> DEFINE p == Start(off)  b == Len(buf)  w == Len(wire)
  <2>4. /\ p \in Nat /\ b \in Nat /\ w \in Nat /\ Len(T) = p + b + w
        /\ \A i \in 1 .. b : buf[i] = T[p + i]
        /\ \A i \in 1 .. w : wire[i] = T[p + b + i]
    BY <1>1, <2>1, <2>3 DEF Consumed
  <2>5. /\ Len(buf') = b + k /\ Len(wire') = w - k /\ k \in Nat /\ k <= w
        /\ \A i \in 1 .. b : buf'[i] = buf[i]
        /\ \A i \in 1 .. k : buf'[b + i] = wire[i]
        /\ \A i \in 1 .. w - k : wire'[i] = wire[k + i]
    BY <1>1, <1>2
  <2> HIDE DEF p, b, w
  <2>6. ASSUME NEW i \in 1 .. b + k PROVE buf'[i] = T[p + i]
    <3>1. CASE i <= b
      BY <2>4, <2>5, <3>1
    <3>2. CASE i > b
      <4>1. i - b \in 1 .. k /\ b + (i - b) = i /\ p + b + (i - b) = p + i /\ i - b \in 1 .. w
        BY <2>4, <2>5, <3>2
      <4>2. buf'[b + (i - b)] = wire[i - b] /\ wire[i - b] = T[p + b + (i - b)]
        BY <2>4, <2>5, <4>1
      <4> QED BY <4>1, <4>2
    <3> QED BY <2>4, <2>5, <3>1, <3>2
  <2>7. ASSUME NEW i \in 1 .. w - k PROVE wire'[i] = T[p + (b + k) + i]
    <3>1. k + i \in 1 .. w /\ p + b + (k + i) = p + (b + k) + i
      <4>1. p \in Nat /\ b \in Nat /\ w \in Nat /\ k \in Nat /\ k <= w
        BY <2>4, <2>5
      <4> QED BY <4>1
    <3>2. wire[k + i] = T[p + b + (k + i)]
      BY <2>4, <3>1
    <3> QED BY <2>5, <3>1, <3>2
  <2>8. Len(T) = p + (b + k) + (w - k)
    BY <2>4, <2>5
  <2>9. Consumed(T, off)'
    BY <2>3, <2>5, <2>6, <2>7, <2>8 DEF Consumed, p
  <2> QED BY <2>2, <2>9 DEF Stream
<1>7. Framed' /\ EndsForItsReason' /\ (rerr' = "EOF" => wst' # "open")
  BY <1>3 DEF IInv, Framed, EndsForItsReason
<1> QED BY <1>4, <1>5, <1>6, <1>7 DEF IInv

\* The header is accepted: its bytes are behind the receiver.
LEMMA HeaderInv == ASSUME IInv, UnmarshalHeader PROVE IInv'
<1> DEFINE m == sent[Len(got) + 1]
<1>1. /\ phase = "header" /\ phase' = "body" /\ buf' = <<>> /\ head' = HeadOf(buf)
      /\ UNCHANGED <<smax, rmax, wire, wst, sent, got, rerr>>
      /\ ~OverLimit(HeadOf(buf).dataSize)
  BY DEF UnmarshalHeader, sendVars
<1>2. Len(buf) = ReadLen /\ Len(buf) \in Nat /\ Len(wire) \in Nat
  BY DEF UnmarshalHeader, Want, IInv, TypeOK, ReadLen, HeaderDataLen, DataSizeLen
<1>3. /\ Len(got) < Len(sent) /\ m \in Messages
      /\ head' = [MsgID |-> m.MsgID, dataSize |-> Size(m)]
  BY <1>1, <1>2, NextHeader
<1>4. TypeOK'
  <2>1. m.MsgID \in 0 .. Word - 1 /\ Size(m) \in 0 .. NewDecoder(rmax)
    <3>1. ~(Size(m) > NewDecoder(rmax))
      BY <1>1, <1>3 DEF OverLimit
    <3>2. NewDecoder(rmax) \in 0 .. Word - 1
      BY LimitIsWord DEF IInv, TypeOK
    <3> QED BY <1>3, <3>1, <3>2, SizeFits, WordPositive
  <2>2. NewDecoder(rmax)' = NewDecoder(rmax)
    BY <1>1 DEF NewDecoder
  <2>3. head' \in [MsgID : 0 .. Word - 1, dataSize : 0 .. NewDecoder(rmax)]
    BY <1>3, <2>1
  <2>4. buf' \in Seq(Byte)
    BY <1>1
  <2> QED BY <1>1, <2>2, <2>3, <2>4 DEF IInv, TypeOK
<1>5. InStep'
  <2>1. Len(buf') <= head'.dataSize
    BY <1>1, <1>3, SizeFits, WordPositive
  <2> QED BY <1>1, <1>3, <2>1 DEF IInv, InStep
<1>6. Stream'
  <2>1. PICK T \in Seq(Byte), off \in Seq(Nat) : Written(T, off) /\ Consumed(T, off)
    BY DEF IInv, Stream
  <2>2. Written(T, off)'
    BY <1>1, <2>1 DEF Written
  <2> DEFINE o == off[Len(got) + 1]
  <2>3. o \in Nat
    BY <2>1 DEF IInv, TypeOK, InStep, Written
  <2>4. Start(off) = o + 0 /\ Start(off)' = o + ReadLen
    BY <1>1 DEF Start
  <2> HIDE DEF o
  <2>5. /\ Len(T) = o + ReadLen + Len(wire)
        /\ \A i \in 1 .. Len(wire) : wire[i] = T[o + ReadLen + i]
    BY <1>2, <2>1, <2>3, <2>4 DEF Consumed
  <2>6. Len(buf') = 0 /\ wire' = wire /\ o + ReadLen + 0 = o + ReadLen
    BY <1>1, <1>2, <2>3
  <2>7. Consumed(T, off)'
    BY <2>4, <2>5, <2>6 DEF Consumed
  <2> QED BY <2>2, <2>7 DEF Stream
<1>7. Framed' /\ EndsForItsReason' /\ (rerr' = "EOF" => wst' # "open")
  BY <1>1 DEF IInv, Framed, EndsForItsReason, NewDecoder
<1> QED BY <1>4, <1>5, <1>6, <1>7 DEF IInv

\* The data is complete: the message is returned and the receiver is at the
\* beginning of the next frame.
LEMMA ReturnInv == ASSUME IInv, UnmarshalReturn PROVE IInv'
<1> DEFINE r == [MsgID |-> head.MsgID, Data |-> buf]  m == sent[Len(got) + 1]
<1>1. /\ phase = "body" /\ phase' = "header" /\ buf' = <<>> /\ got' = Append(got, r)
      /\ UNCHANGED <<smax, rmax, wire, wst, sent, head, rerr>>
      /\ rerr = "nil"
  BY DEF UnmarshalReturn, sendVars
<1>2. /\ Len(buf) = head.dataSize /\ Len(buf) \in Nat /\ Len(wire) \in Nat
      /\ head.dataSize <= NewDecoder(rmax)
  <2>1. head.dataSize \in Nat /\ Len(buf) \in Nat /\ head.dataSize <= NewDecoder(rmax)
    BY LimitIsWord, WordPositive DEF IInv, TypeOK
  <2> QED BY <2>1 DEF UnmarshalReturn, Want, IInv, TypeOK
<1>3. Len(got) < Len(sent) /\ m \in Messages /\ r = OnWire(m)
  BY <1>1, <1>2, NextData
<1>4. r \in [MsgID : 0 .. Word - 1, Data : Seq(Byte)]
  BY DEF IInv, TypeOK
<1> HIDE DEF r
<1>5. /\ got' \in Seq([MsgID : 0 .. Word - 1, Data : Seq(Byte)])
      /\ Len(got) \in Nat /\ Len(got') = Len(got) + 1
      /\ \A i \in 1 .. Len(got) : got'[i] = got[i]
      /\ got'[Len(got) + 1] = r
      /\ DOMAIN got = 1 .. Len(got) /\ DOMAIN got' = 1 .. Len(got')
  BY <1>1, <1>4 DEF IInv, TypeOK
<1>6. TypeOK'
  <2>1. NewDecoder(rmax)' = NewDecoder(rmax)
    BY <1>1 DEF NewDecoder
  <2>2. buf' \in Seq(Byte)
    BY <1>1
  <2> QED BY <1>1, <1>5, <2>1, <2>2 DEF IInv, TypeOK
<1>7. InStep'
  <2>1. Len(got') <= Len(sent) /\ Len(buf') <= ReadLen
    BY <1>1, <1>3, <1>5 DEF IInv, TypeOK, ReadLen, HeaderDataLen, DataSizeLen
  <2> QED BY <1>1, <2>1 DEF InStep
<1>8. Stream'
  <2>1. PICK T \in Seq(Byte), off \in Seq(Nat) : Written(T, off) /\ Consumed(T, off)
    BY DEF IInv, Stream
  <2>2. Written(T, off)'
    BY <1>1, <2>1 DEF Written
  <2> DEFINE o == off[Len(got) + 1]  n == off[Len(got) + 2]
  <2>3. Len(got) + 1 \in 1 .. Len(sent) /\ o \in Nat /\ Len(sent) \in Nat
    <3>1. Len(sent) \in Nat /\ Len(off) = Len(sent) + 1
      BY <2>1 DEF IInv, TypeOK, Written
    <3>2. Len(got) + 1 \in 1 .. Len(sent) /\ Len(got) + 1 \in 1 .. Len(off)
      BY <1>3, <1>5, <3>1
    <3> QED BY <3>1, <3>2
  <2>4. n = o + Len(Frame(m))
    <3>1. (Len(got) + 1) + 1 = Len(got) + 2
      BY <1>5
    <3> QED BY <2>1, <2>3, <3>1 DEF Written
  <2>5. Len(Frame(m)) = ReadLen + Len(buf)
    BY <1>1, <1>2, <1>3, FrameShape DEF IInv, InStep
  <2>6. Start(off) = o + ReadLen /\ Start(off)' = off[Len(got') + 1] + 0
    BY <1>1 DEF Start
  <2>7. Len(got') + 1 = Len(got) + 2
    BY <1>5
  <2>8. Start(off)' = n
    BY <1>2, <2>3, <2>4, <2>5, <2>6, <2>7 DEF ReadLen, HeaderDataLen, DataSizeLen
  <2> HIDE DEF o, n, m
  <2>9. n = o + ReadLen + Len(buf) /\ n \in Nat
    <3> DEFINE l == Len(buf)
    <3>1. n = o + (8 + l) /\ l \in Nat /\ ReadLen = 8
      BY <1>2, <2>4, <2>5 DEF ReadLen, HeaderDataLen, DataSizeLen
    <3> HIDE DEF l
    <3>2. n = o + 8 + l /\ n \in Nat
      BY <2>3, <3>1
    <3> QED BY <3>1, <3>2 DEF l
  <2>10. /\ Len(T) = n + Len(wire)
         /\ \A i \in 1 .. Len(wire) : wire[i] = T[n + i]
    BY <1>2, <2>1, <2>6, <2>9 DEF Consumed
  <2>11. Len(buf') = 0 /\ wire' = wire /\ n + 0 = n
    BY <1>1, <2>9
  <2>12. Consumed(T, off)'
    BY <2>8, <2>10, <2>11 DEF Consumed
  <2> QED BY <2>2, <2>12 DEF Stream
<1>9. Framed'
  <2>1. Len(got') <= Len(sent)
    BY <1>3, <1>5 DEF IInv, TypeOK
  <2>2. ASSUME NEW i \in DOMAIN got' PROVE got'[i] = OnWire(sent[i])
    <3>1. i \in 1 .. Len(got) + 1
      BY <1>5
    <3>2. CASE i = Len(got) + 1
      BY <1>3, <1>5, <3>2
    <3>3. CASE i \in 1 .. Len(got)
      BY <1>5, <3>3 DEF IInv, Framed
    <3> QED BY <1>5, <3>1, <3>2, <3>3
  <2> QED BY <1>1, <2>1, <2>2 DEF Framed, OnWire
<1>10. EndsForItsReason'
  <2>1. ASSUME NEW i \in DOMAIN got' PROVE Len(got'[i].Data) <= NewDecoder(rmax)
    <3>1. i \in 1 .. Len(got) + 1
      BY <1>5
    <3>2. CASE i = Len(got) + 1
      BY <1>2, <1>5, <3>2 DEF r
    <3>3. CASE i \in 1 .. Len(got)
      BY <1>5, <3>3 DEF IInv, EndsForItsReason
    <3> QED BY <1>5, <3>1, <3>2, <3>3
  <2> QED BY <1>1, <2>1 DEF IInv, EndsForItsReason, NewDecoder
<1> QED BY <1>1, <1>6, <1>7, <1>8, <1>9, <1>10 DEF IInv

\* A Write adds one message and all or a part of its frame to the stream.
LEMMA WriteInv == ASSUME IInv, NEW m \in Messages, MarshalWrite(m) PROVE IInv'
<1>1. /\ wst = "open" /\ wst' \in {"open", "write"} /\ sent' = Append(sent, m)
      /\ Len(sent) < MaxSends
      /\ UNCHANGED <<smax, rmax, phase, buf, head, got, rerr>>
  BY DEF MarshalWrite, recvVars
<1>2. PICK piece \in Seq(Byte) :
        /\ wire' = wire \o piece /\ Len(piece) <= Len(Frame(m))
        /\ \A i \in 1 .. Len(piece) : piece[i] = Frame(m)[i]
        /\ wst' # "write" => Len(piece) = Len(Frame(m))
  <2>1. Frame(m) \in Seq(Byte) /\ Len(Frame(m)) \in Nat
    BY FrameShape
  <2>2. CASE wire' = wire \o Frame(m) /\ wst' = wst
    BY <2>1, <2>2
  <2>3. ASSUME NEW k \in 0 .. Len(Frame(m)), wire' = wire \o SubSeq(Frame(m), 1, k),
               wst' = "write"
        PROVE  \E piece \in Seq(Byte) :
                 /\ wire' = wire \o piece /\ Len(piece) <= Len(Frame(m))
                 /\ \A i \in 1 .. Len(piece) : piece[i] = Frame(m)[i]
                 /\ wst' # "write" => Len(piece) = Len(Frame(m))
    <3> DEFINE piece == SubSeq(Frame(m), 1, k)
    <3>1. \A i \in 1 .. Len(Frame(m)) : Frame(m)[i] \in Byte
      BY <2>1, ElementOfSeq, Zenon
    <3>2. \A i \in 1 .. k : Frame(m)[i] \in Byte
      BY <2>1, <3>1
    <3>3. /\ piece \in Seq(Byte) /\ Len(piece) = (IF 1 <= k THEN k - 1 + 1 ELSE 0)
          /\ \A i \in 1 .. k - 1 + 1 : piece[i] = Frame(m)[1 + i - 1]
      BY <2>1, <3>2, SubSeqProperties
    <3> HIDE DEF piece
    <3>4. Len(piece) = k /\ \A i \in 1 .. k : piece[i] = Frame(m)[i]
      BY <2>1, <3>3
    <3>5. wire' = wire \o piece
      BY <2>3 DEF piece
    <3>6. Len(piece) <= Len(Frame(m)) /\ \A i \in 1 .. Len(piece) : piece[i] = Frame(m)[i]
      BY <2>1, <3>4
    <3> QED BY <2>3, <3>3, <3>5, <3>6, Zenon
  <2> QED BY <2>2, <2>3 DEF MarshalWrite
<1>3. /\ sent \in Seq(Messages) /\ Len(sent) \in Nat
      /\ sent' \in Seq(Messages) /\ Len(sent') = Len(sent) + 1
      /\ \A i \in 1 .. Len(sent) : sent'[i] = sent[i]
      /\ sent'[Len(sent) + 1] = m
  BY <1>1 DEF IInv, TypeOK
<1>4. /\ wire \in Seq(Byte) /\ Len(wire) \in Nat /\ Len(piece) \in Nat
      /\ wire' \in Seq(Byte) /\ Len(wire') = Len(wire) + Len(piece)
      /\ \A i \in 1 .. Len(wire) + Len(piece) :
           wire'[i] = IF i <= Len(wire) THEN wire[i] ELSE piece[i - Len(wire)]
  <2>1. wire \in Seq(Byte) /\ Len(wire) \in Nat /\ Len(piece) \in Nat
    BY DEF IInv, TypeOK
  <2>2. /\ wire \o piece \in Seq(Byte) /\ Len(wire \o piece) = Len(wire) + Len(piece)
        /\ \A i \in 1 .. Len(wire) + Len(piece) :
             (wire \o piece)[i] = IF i <= Len(wire) THEN wire[i] ELSE piece[i - Len(wire)]
    BY <2>1, ConcatProperties, Zenon
  <2> QED BY <1>2, <2>1, <2>2, Zenon
<1>5. NewDecoder(rmax)' = NewDecoder(rmax) /\ NewDecoder(smax)' = NewDecoder(smax)
  BY <1>1 DEF NewDecoder
<1>6. TypeOK'
  <2>1. Len(sent') <= MaxSends
    BY <1>1, <1>3, SendsBounded
  <2> QED BY <1>1, <1>3, <1>4, <1>5, <2>1 DEF IInv, TypeOK
<1>7. Len(got) \in Nat /\ Len(got) <= Len(sent) /\ DOMAIN got = 1 .. Len(got)
  BY DEF IInv, TypeOK, InStep
<1>8. InStep'
  <2>1. Len(got) < Len(sent) => sent'[Len(got) + 1] = sent[Len(got) + 1]
    BY <1>3, <1>7
  <2>2. Len(got) <= Len(sent') /\ (Len(got) < Len(sent) => Len(got) < Len(sent'))
    BY <1>3, <1>7
  <2> QED BY <1>1, <2>1, <2>2 DEF IInv, InStep, Size
<1>9. Framed' /\ EndsForItsReason' /\ (rerr' = "EOF" => wst' # "open")
  <2>1. \A i \in DOMAIN got : sent'[i] = sent[i]
    BY <1>3, <1>7
  <2>2. Len(got) <= Len(sent')
    BY <1>3, <1>7
  <2>3. Framed'
    BY <1>1, <2>1, <2>2 DEF IInv, Framed, OnWire
  <2>4. Len(got) < Len(sent) => sent'[Len(got) + 1] = sent[Len(got) + 1] /\ Len(got) < Len(sent')
    BY <1>3, <1>7
  <2> QED BY <1>1, <1>5, <2>3, <2>4 DEF IInv, EndsForItsReason, Size
<1>10. Stream'
  <2>1. PICK T \in Seq(Byte), off \in Seq(Nat) : Written(T, off) /\ Consumed(T, off)
    BY DEF IInv, Stream
  <2> DEFINE n == Len(sent)  t == Len(T)  f == Len(Frame(m))  l == Len(piece)
             T1 == T \o piece  off1 == Append(off, t + f)
  <2>2. /\ n \in Nat /\ t \in Nat /\ f \in Nat /\ l \in Nat /\ l <= f
        /\ Len(off) = n + 1 /\ off[n + 1] = t
    BY <1>1, <1>2, <1>3, <1>4, <2>1, FrameShape DEF Written
  <2>3. /\ T1 \in Seq(Byte) /\ Len(T1) = t + l
        /\ \A i \in 1 .. t + l : T1[i] = IF i <= t THEN T[i] ELSE piece[i - t]
    BY ConcatProperties, Zenon
  <2>4. /\ off1 \in Seq(Nat) /\ Len(off1) = n + 2 /\ off1[n + 2] = t + f
        /\ \A i \in 1 .. n + 1 : off1[i] = off[i] /\ off1[i] \in Nat /\ off1[i] <= t
    <3>1. \A i \in 1 .. n + 1 : off[i] \in Nat /\ off[i] <= t
      BY <2>1, <2>2 DEF Written
    <3> HIDE DEF t, f
    <3>2. t + f \in Nat
      BY <2>2
    <3>3. /\ off1 \in Seq(Nat) /\ Len(off1) = Len(off) + 1
          /\ \A i \in 1 .. Len(off) : off1[i] = off[i]
          /\ off1[Len(off) + 1] = t + f
      BY <3>2
    <3> HIDE DEF off1, n
    <3> QED BY <2>2, <3>1, <3>3
  <2> HIDE DEF T1, off1
  <2>5. /\ sent' \in Seq(Messages) /\ Len(sent') = n + 1 /\ sent'[n + 1] = m
        /\ \A i \in 1 .. n : sent'[i] = sent[i] /\ sent[i] \in Messages
    BY <1>3
  <2>6. /\ Len(piece) = l /\ Len(T) = t /\ Len(Frame(m)) = f /\ Len(sent) = n
        /\ \A i \in 1 .. l : piece[i] = Frame(m)[i]
        /\ wst' # "write" => l = f
    BY <1>2
  <2>7. \A i \in 1 .. n : \A j \in 1 .. Len(Frame(sent[i])) :
          off[i] + j \in 1 .. t => T[off[i] + j] = Frame(sent[i])[j]
    BY <2>1, <2>2 DEF Written
  <2>8. \A i \in 1 .. n : Frame(sent'[i]) = Frame(sent[i]) /\ off[i + 1] = off[i] + Len(Frame(sent[i]))
    BY <1>3, <2>1 DEF Written
  <2>9. \A x : Frame(x)' = Frame(x)
    BY DEF Frame, Size
  <2>10. Written(T1, off1)'
    <3> HIDE DEF n, t, f, l
    <3>1. Len(off1) = Len(sent') + 1 /\ off1[1] = 0
      <4>1. 1 \in 1 .. n + 1 /\ off[1] = 0
        BY <2>1, <2>2, <2>6 DEF Written
      <4>2. off1[1] = 0
        BY <2>4, <4>1
      <4>3. n + 2 = (n + 1) + 1
        BY <2>2
      <4> QED BY <2>4, <2>5, <4>2, <4>3
    <3>2. ASSUME NEW i \in 1 .. Len(sent')
          PROVE  off1[i + 1] = off1[i] + Len(Frame(sent'[i]))
      <4>1. CASE i = n + 1
        <5>1. i + 1 = n + 2 /\ off1[n + 1] = t /\ n + 1 \in 1 .. n + 1
          BY <2>2, <2>4, <4>1
        <5> QED BY <2>5, <2>6, <2>4, <4>1, <5>1
      <4>2. CASE i \in 1 .. n
        BY <2>5, <2>2, <2>4, <2>8, <4>2
      <4> QED BY <2>5, <2>2, <4>1, <4>2
    <3>3. \A i, j \in 1 .. Len(off1) : i <= j => off1[i] <= off1[j]
      <4>1. ASSUME NEW i \in 1 .. n + 2, NEW j \in 1 .. n + 2, i <= j PROVE off1[i] <= off1[j]
        <5>1. CASE j = n + 2
          BY <2>2, <2>4, <4>1, <5>1
        <5>2. CASE j \in 1 .. n + 1
          <6>1. i \in 1 .. n + 1 /\ off[i] <= off[j]
            BY <2>1, <2>2, <4>1, <5>2 DEF Written
          <6> QED BY <2>4, <5>2, <6>1
        <5> QED BY <2>2, <5>1, <5>2
      <4> QED BY <2>4, <4>1
    <3>4. /\ Len(T1) <= off1[Len(off1)]
          /\ wst' # "write" => Len(T1) = off1[Len(off1)]
      <4>1. Len(T1) = t + l /\ off1[Len(off1)] = t + f
        BY <2>3, <2>4
      <4> QED BY <2>2, <2>6, <4>1
    <3>5. ASSUME NEW i \in 1 .. Len(sent'), NEW j \in 1 .. Len(Frame(sent'[i])),
                 off1[i] + j <= Len(T1)
          PROVE  T1[off1[i] + j] = Frame(sent'[i])[j]
      <4>1. CASE i = n + 1
        <5>1. off1[i] = t /\ sent'[i] = m /\ j \in Nat /\ 1 <= j /\ j <= l
          <6>1. n + 1 \in 1 .. n + 1
            BY <2>2
          <6>2. off1[i] = t /\ sent'[i] = m
            BY <2>2, <2>4, <2>5, <4>1, <6>1
          <6>3. j \in 1 .. f /\ t + j <= t + l
            BY <2>3, <2>6, <3>5, <6>2
          <6> QED BY <2>2, <6>2, <6>3
        <5>2. T1[t + j] = piece[(t + j) - t] /\ (t + j) - t = j
          <6>1. (t + j) - t = j /\ t + j \in 1 .. t + l /\ ~(t + j <= t)
            BY <2>2, <5>1
          <6> QED BY <2>3, <6>1
        <5> QED BY <2>6, <2>2, <5>1, <5>2
      <4>2. CASE i \in 1 .. n
        <5>1. /\ off1[i] = off[i] /\ off[i] \in Nat /\ sent'[i] = sent[i]
              /\ i + 1 \in 1 .. n + 1 /\ off[i + 1] <= t
          <6>1. i \in 1 .. n + 1 /\ i + 1 \in 1 .. n + 1
            BY <2>2, <4>2
          <6>2. off1[i] = off[i] /\ off1[i] \in Nat /\ off1[i + 1] = off[i + 1] /\ off1[i + 1] <= t
            BY <2>4, <6>1
          <6> QED BY <2>5, <4>2, <6>1, <6>2
        <5>2. Len(Frame(sent[i])) \in Nat /\ off[i + 1] = off[i] + Len(Frame(sent[i]))
          <6>1. sent[i] \in Messages
            BY <2>5, <4>2
          <6> QED BY <2>8, <4>2, <6>1, FrameLen
        <5>3. off[i] + j \in 1 .. t /\ j \in 1 .. Len(Frame(sent[i]))
          <6> DEFINE o == off[i]  q == off[i + 1]  g == Len(Frame(sent[i]))
          <6>1. o \in Nat /\ g \in Nat /\ q = o + g /\ q <= t /\ j \in 1 .. g
            BY <5>1, <5>2
          <6> HIDE DEF o, q, g
          <6>2. o + j \in 1 .. t
            BY <2>2, <6>1
          <6> QED BY <6>1, <6>2 DEF o, g
        <5>4. T1[off[i] + j] = T[off[i] + j]
          <6> DEFINE x == off[i] + j
          <6>1. x \in 1 .. t
            BY <5>3
          <6> HIDE DEF x
          <6>2. x \in 1 .. t + l /\ x <= t
            BY <2>2, <6>1
          <6>3. T1[x] = T[x]
            BY <2>3, <6>2
          <6> QED BY <6>3 DEF x
        <5>5. T[off[i] + j] = Frame(sent[i])[j]
          BY <2>7, <4>2, <5>3
        <5> QED BY <5>1, <5>4, <5>5
      <4> QED BY <2>5, <2>2, <4>1, <4>2
    <3> QED BY <2>9, <3>1, <3>2, <3>3, <3>4, <3>5 DEF Written
  <2>11. Consumed(T1, off1)'
    <3> DEFINE p == Start(off)  b == Len(buf)  w == Len(wire)
    <3>1. Len(got) + 1 \in 1 .. n + 1
      BY <1>3, <1>7
    <3>2. off1[Len(got) + 1] = off[Len(got) + 1] /\ off[Len(got) + 1] \in Nat
      BY <2>4, <3>1
    <3>3. Start(off1)' = p /\ p \in Nat
      BY <1>1, <3>2 DEF Start, ReadLen, HeaderDataLen, DataSizeLen
    <3>4. /\ b \in Nat /\ w \in Nat /\ t = p + b + w
          /\ \A i \in 1 .. b : buf[i] = T[p + i]
          /\ \A i \in 1 .. w : wire[i] = T[p + b + i]
      BY <1>4, <2>1 DEF Consumed, IInv, TypeOK
    <3> HIDE DEF p, b, w, t, l
    <3>5. t + l = p + b + (w + l)
      BY <2>2, <3>3, <3>4
    <3>6. ASSUME NEW i \in 1 .. b PROVE buf[i] = T1[p + i]
      <4>1. p + i \in 1 .. t + l /\ p + i <= t
        BY <2>2, <3>3, <3>4
      <4> QED BY <2>3, <3>4, <4>1
    <3>7. ASSUME NEW i \in 1 .. w + l PROVE wire'[i] = T1[p + b + i]
      <4>1. p + b + i \in 1 .. t + l /\ i \in Nat
        BY <2>2, <3>3, <3>4
      <4>2. wire'[i] = IF i <= w THEN wire[i] ELSE piece[i - w]
        BY <1>4 DEF w, l
      <4>3. CASE i <= w
        <5>1. i \in 1 .. w /\ p + b + i <= t
          BY <2>2, <3>3, <3>4, <4>1, <4>3
        <5> QED BY <2>3, <3>4, <4>1, <4>2, <5>1
      <4>4. CASE i > w
        <5>1. (p + b + i) - t = i - w /\ ~(p + b + i <= t) /\ ~(i <= w)
          BY <2>2, <3>3, <3>4, <4>1, <4>4
        <5> QED BY <2>3, <4>1, <4>2, <5>1
      <4> QED BY <3>4, <4>1, <4>3, <4>4
    <3>8. Len(buf') = b /\ buf' = buf /\ Len(wire') = w + l
      BY <1>1, <1>4 DEF b, w, l
    <3> QED BY <2>3, <3>3, <3>5, <3>6, <3>7, <3>8 DEF Consumed
  <2> QED BY <2>3, <2>4, <2>10, <2>11 DEF Stream
<1> QED BY <1>6, <1>8, <1>9, <1>10 DEF IInv

\* A step that moves no byte and returns no message keeps the stream.
LEMMA QuietKeeps ==
  ASSUME IInv, UNCHANGED <<smax, rmax, wire, sent, phase, buf, head, got>>,
         wst = "open" \/ wst' = wst
  PROVE  InStep' /\ Stream' /\ Framed'
<1>1. PICK T \in Seq(Byte), off \in Seq(Nat) : Written(T, off) /\ Consumed(T, off)
  BY DEF IInv, Stream
<1>2. Len(sent)' = Len(sent) /\ (wst' # "write" => wst # "write")
  OBVIOUS
<1>3. Written(T, off)'
  BY <1>1 DEF Written
<1>4. Consumed(T, off)'
  BY <1>1 DEF Consumed, Start
<1>5. InStep' /\ Framed'
  BY DEF IInv, InStep, Framed
<1> QED BY <1>3, <1>4, <1>5 DEF Stream

\* The sending end stops: its limit refuses the message, the buffer is too
\* short for the header, or the transport is closed.
LEMMA SenderStops ==
  ASSUME IInv, \/ SenderClose
               \/ \E m \in Messages : MarshalRefuse(m) \/ MarshalPanic(m)
  PROVE  IInv'
<1>1. /\ wst = "open" /\ wst' \in {"ErrDataLength", "panic", "closed"}
      /\ UNCHANGED <<smax, rmax, wire, sent, phase, buf, head, got, rerr>>
  BY DEF SenderClose, MarshalRefuse, MarshalPanic, recvVars
<1>2. wst' = "panic" => NewDecoder(smax) >= Word - ReadLen
  <2> SUFFICES ASSUME wst' = "panic" PROVE NewDecoder(smax) >= Word - ReadLen
    OBVIOUS
  <2>1. PICK m \in Messages : ~TooLong(m) /\ HeaderOverflows(m)
    BY DEF SenderClose, MarshalRefuse, MarshalPanic
  <2>2. Word \in Nat /\ Word > 0 /\ Size(m) \in Nat /\ NewDecoder(smax) \in Nat
    BY WordPositive, SizeFits, LimitIsWord DEF IInv, TypeOK
  <2>3. Size(m) <= NewDecoder(smax)
    BY <2>1, <2>2 DEF TooLong
  <2>4. ReadLen \in Nat
    BY DEF ReadLen, HeaderDataLen, DataSizeLen
  <2>5. ~(ReadLen + Size(m) < Word)
    <3> SUFFICES ASSUME ReadLen + Size(m) < Word PROVE FALSE
      OBVIOUS
    <3> DEFINE x == ReadLen + Size(m)
    <3>1. x \in Nat /\ x < Word /\ x >= ReadLen
      BY <2>2, <2>4
    <3>2. x % Word < ReadLen
      BY <2>1 DEF HeaderOverflows
    <3> HIDE DEF x
    <3>3. x % Word = x
      BY <2>2, <3>1
    <3> QED BY <2>4, <3>1, <3>2, <3>3
  <2> QED BY <2>2, <2>3, <2>4, <2>5
<1>3. NewDecoder(rmax)' = NewDecoder(rmax) /\ NewDecoder(smax)' = NewDecoder(smax)
  BY <1>1 DEF NewDecoder
<1>4. TypeOK'
  BY <1>1, <1>3 DEF IInv, TypeOK
<1>5. InStep' /\ Stream' /\ Framed'
  BY <1>1, QuietKeeps
<1>6. rerr' # "EOF"
  BY <1>1 DEF IInv
<1>7. EndsForItsReason'
  BY <1>1, <1>2, <1>3, <1>6 DEF IInv, EndsForItsReason, Size
<1> QED BY <1>4, <1>5, <1>6, <1>7 DEF IInv

\* At the end of a stream that did not break, a ReadFull that has read nothing
\* is in front of no frame.
LEMMA NothingLeft ==
  ASSUME IInv, wst # "write", Want > 0, wire = <<>>, buf = <<>>
  PROVE  Len(got) = Len(sent)
<1>1. PICK T \in Seq(Byte), off \in Seq(Nat) : Written(T, off) /\ Consumed(T, off)
  BY DEF IInv, Stream
<1> DEFINE g == Len(got)  n == Len(sent)  m == sent[g + 1]
<1>2. g \in Nat /\ n \in Nat /\ g <= n /\ sent \in Seq(Messages) /\ Len(off) = n + 1
  BY <1>1 DEF IInv, TypeOK, InStep, Written
<1>3. /\ \A i \in 1 .. n + 1 : off[i] \in Nat
      /\ \A i, j \in 1 .. n + 1 : i <= j => off[i] <= off[j]
      /\ \A i \in 1 .. n : off[i + 1] = off[i] + Len(Frame(sent[i]))
      /\ Len(T) = off[n + 1] /\ Len(T) = Start(off) + 0 + 0
  <2>1. Len(T) = Start(off) + 0 + 0
    BY <1>1 DEF Consumed
  <2> QED BY <1>1, <1>2, <2>1 DEF Written
<1> SUFFICES ASSUME g # n PROVE FALSE
  OBVIOUS
<1>4. m \in Messages /\ Size(m) \in Nat /\ Len(Frame(m)) = 8 + Size(m)
  <2>1. m \in Messages
    BY <1>2
  <2> QED BY <2>1, FrameLen
<1>5. phase = "body" => Size(m) > 0
  BY <1>4 DEF IInv, InStep, Want
<1> HIDE DEF g, n, m
<1>6. /\ g + 1 \in 1 .. n /\ (g + 1) + 1 \in 1 .. n + 1 /\ n + 1 \in 1 .. n + 1
      /\ g + 1 \in 1 .. n + 1 /\ (g + 1) + 1 <= n + 1
  BY <1>2
<1>7. off[(g + 1) + 1] = off[g + 1] + (8 + Size(m)) /\ off[(g + 1) + 1] <= off[n + 1]
  BY <1>3, <1>4, <1>6 DEF m
<1> DEFINE o == off[g + 1]  e == off[n + 1]  s == Size(m)
<1>8. /\ o \in Nat /\ e \in Nat /\ s \in Nat /\ o + (8 + s) <= e
      /\ phase = "body" => s > 0
  BY <1>3, <1>4, <1>5, <1>6, <1>7
<1>9. e = o + (IF phase = "body" THEN 8 ELSE 0) + 0 + 0
  BY <1>3 DEF Start, g, ReadLen, HeaderDataLen, DataSizeLen
<1> HIDE DEF o, e, s
<1> QED BY <1>8, <1>9

\* Unmarshal fails: the frame is above the limit, the stream is at its end, or
\* Read fails.
LEMMA ReceiverStops ==
  ASSUME IInv, UnmarshalRefuse \/ UnmarshalEOF \/ UnmarshalFail
  PROVE  IInv'
<1>1. /\ UNCHANGED <<smax, rmax, wire, wst, sent, phase, buf, head, got>>
      /\ rerr' \in {"ErrDataLength", "EOF", "ErrUnexpectedEOF", "read"}
  BY DEF UnmarshalRefuse, UnmarshalEOF, UnmarshalFail, sendVars
<1>2. NewDecoder(rmax)' = NewDecoder(rmax) /\ NewDecoder(smax)' = NewDecoder(smax)
  BY <1>1 DEF NewDecoder
<1>3. TypeOK'
  BY <1>1, <1>2 DEF IInv, TypeOK
<1>4. InStep' /\ Stream' /\ Framed'
  BY <1>1, QuietKeeps
<1>5. rerr' = "ErrDataLength" =>
        Len(got) < Len(sent) /\ Size(sent[Len(got) + 1]) > NewDecoder(rmax)
  <2> SUFFICES ASSUME UnmarshalRefuse
               PROVE  Len(got) < Len(sent) /\ Size(sent[Len(got) + 1]) > NewDecoder(rmax)
    BY DEF UnmarshalEOF, UnmarshalFail
  <2>1. Len(buf) = ReadLen /\ phase = "header"
    BY DEF UnmarshalRefuse, Want, IInv, TypeOK, ReadLen, HeaderDataLen, DataSizeLen
  <2>2. /\ Len(got) < Len(sent)
        /\ HeadOf(buf) = [MsgID |-> sent[Len(got) + 1].MsgID,
                          dataSize |-> Size(sent[Len(got) + 1])]
    BY <2>1, NextHeader
  <2>3. HeadOf(buf).dataSize > NewDecoder(rmax)
    BY DEF UnmarshalRefuse, OverLimit
  <2> QED BY <2>2, <2>3
<1>6. rerr' = "EOF" => wst # "open" /\ (wst # "write" => Len(got) = Len(sent))
  <2> SUFFICES ASSUME UnmarshalEOF, rerr' = "EOF"
               PROVE  wst # "open" /\ (wst # "write" => Len(got) = Len(sent))
    BY DEF UnmarshalRefuse, UnmarshalFail
  <2>1. wst # "open" /\ Want > 0 /\ wire = <<>> /\ buf = <<>>
    BY DEF UnmarshalEOF
  <2> QED BY <2>1, NothingLeft
<1>7. EndsForItsReason'
  BY <1>1, <1>2, <1>5, <1>6 DEF IInv, EndsForItsReason, Size
<1> QED BY <1>1, <1>3, <1>4, <1>6, <1>7 DEF IInv

LEMMA NextInv == IInv /\ [Next]_vars => IInv'
<1> SUFFICES ASSUME IInv, [Next]_vars PROVE IInv'
  OBVIOUS
<1>1. ASSUME NEW m \in Messages, MarshalRefuse(m) \/ MarshalPanic(m) PROVE IInv'
  BY <1>1, SenderStops
<1>2. ASSUME NEW m \in Messages, MarshalWrite(m) PROVE IInv'
  BY <1>2, WriteInv
<1>3. CASE SenderClose
  BY <1>3, SenderStops
<1>4. ASSUME NEW k \in 1 .. Len(wire), Read(k) PROVE IInv'
  BY <1>4, ReadInv
<1>5. CASE UnmarshalHeader
  BY <1>5, HeaderInv
<1>6. CASE UnmarshalReturn
  BY <1>6, ReturnInv
<1>7. CASE UnmarshalRefuse \/ UnmarshalEOF \/ UnmarshalFail
  BY <1>7, ReceiverStops
<1>8. CASE UNCHANGED vars
  <2>1. UNCHANGED <<smax, rmax, wire, wst, sent, phase, buf, head, got, rerr>>
    BY <1>8 DEF vars, sendVars, recvVars
  <2>2. InStep' /\ Stream' /\ Framed'
    BY <2>1, QuietKeeps
  <2>3. NewDecoder(rmax)' = NewDecoder(rmax) /\ NewDecoder(smax)' = NewDecoder(smax)
    BY <2>1 DEF NewDecoder
  <2>4. TypeOK' /\ EndsForItsReason' /\ (rerr' = "EOF" => wst' # "open")
    BY <2>1, <2>3 DEF IInv, TypeOK, EndsForItsReason, Size
  <2> QED BY <2>2, <2>4 DEF IInv
<1> QED BY <1>1, <1>2, <1>3, <1>4, <1>5, <1>6, <1>7, <1>8 DEF Next, Unmarshal

LEMMA SafetyInv == Safety => []IInv
BY InitInv, NextInv, PTL DEF Safety
-----------------------------------------------------------------------------
\* Every state has its type: above all, what a header announces fits a word and
\* the data that is read for it stays within the receiver's limit.
THEOREM TypeCorrect == Safety => []TypeOK
<1>1. IInv => TypeOK
  BY DEF IInv
<1> QED BY <1>1, SafetyInv, PTL

\* Unmarshal returns what Marshal was given, in order and none twice, for every
\* size of a byte, every limit at either end, every message and every way of
\* cutting or breaking the stream.
THEOREM FramesReturned == Safety => []Framed
<1>1. IInv => Framed
  BY DEF IInv
<1> QED BY <1>1, SafetyInv, PTL

\* ErrDataLength, io.EOF and the panic of Marshal each have the cause they
\* should have, and no message above the receiver's limit is returned.
THEOREM EndsCorrect == Safety => []EndsForItsReason
<1>1. IInv => EndsForItsReason
  BY DEF IInv
<1> QED BY <1>1, SafetyInv, PTL
=============================================================================
