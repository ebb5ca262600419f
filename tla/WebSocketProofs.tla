--------------------------- MODULE WebSocketProofs ---------------------------
(***************************************************************************)
(* The safety properties of WebSocket, for every set of connections, every *)
(* capacity of connChan and every length of messages and slices.           *)
(***************************************************************************)
EXTENDS WebSocket, SequenceTheorems, TLAPS

(***************************************************************************)
(* The byte stream: the bytes of one connection are cut into what Read has *)
(* returned (g), what it keeps (b), the message in its hands (m) and the   *)
(* messages on the way (w), n bytes in all.                                *)
(***************************************************************************)
Line(g, b, m, w, n) ==
  /\ Continues(g, 0) /\ Continues(b, Len(g)) /\ Continues(m, Len(g) + Len(b))
  /\ \A j \in 1 .. Len(w) :
       /\ Len(w[j]) > 0
       /\ Continues(w[j], IF j = 1 THEN Len(g) + Len(b) + Len(m) ELSE Last(w[j - 1]))
  /\ n = IF w = <<>> THEN Len(g) + Len(b) + Len(m) ELSE Last(Last(w))

\* copy moves the first bytes, the slice expression keeps the others.
LEMMA CopySplits ==
  ASSUME NEW s \in Seq(Nat), NEW k \in Nat \ {0}
  PROVE  LET u == Copied(s, k)  v == SubSeq(s, k + 1, Len(s)) IN
         /\ u \in Seq(Nat) /\ v \in Seq(Nat)
         /\ Len(u) + Len(v) = Len(s)
         /\ \A i \in 1 .. Len(u) : u[i] = s[i]
         /\ \A i \in 1 .. Len(v) : v[i] = s[Len(u) + i]
<1> DEFINE h == IF k < Len(s) THEN k ELSE Len(s)
           u == Copied(s, k)
           v == SubSeq(s, k + 1, Len(s))
<1>1. Min({k, Len(s)}) = h
  BY DEF Min
<1>2. Len(s) \in Nat /\ h \in 0 .. Len(s) /\ h <= k /\ (h # k => h = Len(s))
  OBVIOUS
<1>3. \A i \in 1 .. Len(s) : s[i] \in Nat
  OBVIOUS
<1> HIDE DEF h
<1>4. u \in Seq(Nat) /\ Len(u) = h /\ \A i \in 1 .. h : u[i] = s[i]
  <2>0. u = SubSeq(s, 1, h)
    BY <1>1 DEF Copied
  <2>1. \A i \in 1 .. h : s[i] \in Nat
    BY <1>2, <1>3
  <2>2. /\ u \in Seq(Nat)
        /\ Len(u) = IF 1 <= h THEN h - 1 + 1 ELSE 0
        /\ \A i \in 1 .. h - 1 + 1 : u[i] = s[1 + i - 1]
    BY <1>2, <2>0, <2>1, SubSeqProperties
  <2> HIDE DEF u
  <2> QED BY <1>2, <2>2
<1>5. v \in Seq(Nat) /\ Len(v) = Len(s) - h /\ \A i \in 1 .. Len(s) - h : v[i] = s[h + i]
  <2>1. \A i \in k + 1 .. Len(s) : s[i] \in Nat
    BY <1>2, <1>3
  <2>2. /\ v \in Seq(Nat)
        /\ Len(v) = IF k + 1 <= Len(s) THEN Len(s) - (k + 1) + 1 ELSE 0
        /\ \A i \in 1 .. Len(s) - (k + 1) + 1 : v[i] = s[k + 1 + i - 1]
    BY <1>2, <2>1, SubSeqProperties
  <2> HIDE DEF v
  <2>3. CASE h = k
    BY <1>2, <2>2, <2>3
  <2>4. CASE h = Len(s) /\ h < k
    BY <1>2, <2>2, <2>4
  <2> QED BY SMTT(30), <1>2, <2>3, <2>4
<1> HIDE DEF u, v
<1>6. /\ Len(u) + Len(v) = Len(s)
      /\ \A i \in 1 .. Len(u) : u[i] = s[i]
      /\ \A i \in 1 .. Len(v) : v[i] = s[Len(u) + i]
  BY <1>2, <1>4, <1>5
<1> QED BY <1>4, <1>5, <1>6 DEF u, v

\* What Read hands over and what it keeps are still one line.
LEMMA LineRead ==
  ASSUME NEW g \in Seq(Nat), NEW s \in Seq(Nat), NEW w \in Seq(Seq(Nat)), NEW n,
         NEW k \in Nat \ {0},
         Line(g, s, <<>>, w, n) \/ Line(g, <<>>, s, w, n)
  PROVE  /\ g \o Copied(s, k) \in Seq(Nat) /\ SubSeq(s, k + 1, Len(s)) \in Seq(Nat)
         /\ Line(g \o Copied(s, k), SubSeq(s, k + 1, Len(s)), <<>>, w, n)
<1> DEFINE u == Copied(s, k)
           v == SubSeq(s, k + 1, Len(s))
           x == g \o u
<1>1. /\ u \in Seq(Nat) /\ v \in Seq(Nat) /\ Len(u) + Len(v) = Len(s)
      /\ \A i \in 1 .. Len(u) : u[i] = s[i]
      /\ \A i \in 1 .. Len(v) : v[i] = s[Len(u) + i]
  BY CopySplits
<1>2. Continues(g, 0) /\ Continues(s, Len(g))
  BY EmptySeq DEF Line
<1> HIDE DEF u, v
<1>3. /\ Len(g) \in Nat /\ Len(u) \in Nat /\ Len(v) \in Nat /\ Len(s) \in Nat
      /\ Len(x) = Len(g) + Len(u)
      /\ \A i \in 1 .. Len(g) + Len(u) : x[i] = IF i <= Len(g) THEN g[i] ELSE u[i - Len(g)]
  BY <1>1, ConcatProperties
<1>9. x \in Seq(Nat)
  BY <1>1, ConcatProperties
<1> HIDE DEF x
<1>a. /\ Len(g) \in Nat /\ Len(u) \in Nat /\ Len(v) \in Nat /\ Len(s) \in Nat
      /\ Len(x) = Len(g) + Len(u) /\ Len(u) + Len(v) = Len(s)
  BY <1>1, <1>3
<1>4. Continues(x, 0)
  <2> SUFFICES ASSUME NEW i \in 1 .. Len(g) + Len(u) PROVE x[i] = 0 + i
    BY <1>3 DEF Continues
  <2>1. CASE i <= Len(g)
    <3>1. x[i] = g[i] /\ i \in 1 .. Len(g)
      BY <1>3, <2>1
    <3> QED BY <1>2, <3>1 DEF Continues
  <2>2. CASE i > Len(g)
    <3> DEFINE j == i - Len(g)
    <3>1. j \in 1 .. Len(u) /\ j \in 1 .. Len(s) /\ x[i] = u[j] /\ Len(g) + j = i
      BY SMTT(30), <1>1, <1>3, <2>2
    <3>2. u[j] = s[j] /\ s[j] = Len(g) + j
      BY <1>1, <1>2, <3>1 DEF Continues
    <3> QED BY <3>1, <3>2
  <2> QED BY <1>3, <2>1, <2>2
<1>5. Continues(v, Len(x))
  <2> SUFFICES ASSUME NEW i \in 1 .. Len(v) PROVE v[i] = Len(x) + i
    BY DEF Continues
  <2>1. Len(u) + i \in 1 .. Len(s)
    BY <1>1, <1>3
  <2>2. s[Len(u) + i] = Len(g) + (Len(u) + i)
    BY <1>2, <2>1 DEF Continues
  <2>3. v[i] = s[Len(u) + i]
    BY <1>1
  <2> QED BY <1>a, <2>2, <2>3
<1>6. Continues(<<>>, Len(x) + Len(v)) /\ Len(<<>>) = 0
  BY EmptySeq DEF Continues
<1>7. /\ Len(x) + Len(v) + Len(<<>>) = Len(g) + Len(s)
      /\ Len(g) + Len(s) + Len(<<>>) = Len(g) + Len(s)
      /\ Len(g) + Len(<<>>) + Len(s) = Len(g) + Len(s)
  <2>1. \A a, b, c \in Nat : a + b + c + 0 = a + (b + c)
    OBVIOUS
  <2>2. Len(g) + Len(u) + Len(v) + 0 = Len(g) + (Len(u) + Len(v))
    BY <1>a, <2>1, Zenon
  <2>3. Len(x) + Len(v) + 0 = Len(g) + Len(s)
    BY <1>a, <2>2, Zenon
  <2> QED BY <1>a, <1>6, <2>3
<1>8. Line(x, v, <<>>, w, n)
  BY <1>4, <1>5, <1>6, <1>7 DEF Line
<1> QED BY <1>1, <1>8, <1>9 DEF u, v, x

\* The next message leaves the wire.
LEMMA LineTake ==
  ASSUME NEW g \in Seq(Nat), NEW w \in Seq(Seq(Nat)), NEW n, w # <<>>,
         Line(g, <<>>, <<>>, w, n)
  PROVE  /\ Head(w) \in Seq(Nat) /\ Tail(w) \in Seq(Seq(Nat))
         /\ Line(g, <<>>, Head(w), Tail(w), n)
<1>1. /\ Head(w) = w[1] /\ w[1] \in Seq(Nat) /\ Len(w[1]) > 0 /\ Len(w[1]) \in Nat
      /\ Len(w) \in Nat \ {0} /\ Tail(w) \in Seq(Seq(Nat)) /\ Len(Tail(w)) = Len(w) - 1
      /\ \A j \in 1 .. Len(Tail(w)) : Tail(w)[j] = w[j + 1]
      /\ Tail(w) = <<>> <=> Len(w) = 1
  <2>1. Len(w) \in Nat \ {0} /\ 1 \in 1 .. Len(w)
    BY EmptySeq
  <2>2. Head(w) = w[1] /\ w[1] \in Seq(Nat)
    BY <2>1
  <2>3. Len(w[1]) > 0 /\ Len(w[1]) \in Nat
    BY <2>1, <2>2 DEF Line
  <2>4. /\ Tail(w) \in Seq(Seq(Nat)) /\ Len(Tail(w)) = Len(w) - 1
        /\ \A j \in 1 .. Len(Tail(w)) : Tail(w)[j] = w[j + 1]
    BY HeadTailProperties
  <2>5. Tail(w) = <<>> <=> Len(w) = 1
    <3>1. Tail(w) = <<>> <=> Len(Tail(w)) = 0
      BY <2>4, EmptySeq
    <3> QED BY SMTT(30), <2>1, <2>4, <3>1
  <2> QED BY <2>1, <2>2, <2>3, <2>4, <2>5
<1>2. Continues(w[1], Len(g))
  BY <1>1 DEF Line
<1>3. Last(w[1]) = Len(g) + Len(w[1])
  <2>1. Len(w[1]) \in 1 .. Len(w[1])
    BY <1>1
  <2> QED BY <1>2, <2>1 DEF Continues, Last
<1>4. ASSUME NEW j \in 1 .. Len(Tail(w))
      PROVE  /\ Len(Tail(w)[j]) > 0
             /\ Continues(Tail(w)[j], IF j = 1 THEN Len(g) + Len(w[1]) ELSE Last(Tail(w)[j - 1]))
  <2>1. Tail(w)[j] = w[j + 1] /\ j + 1 \in 1 .. Len(w) /\ j + 1 # 1 /\ j + 1 - 1 = j
    BY <1>1
  <2>2. Len(w[j + 1]) > 0 /\ Continues(w[j + 1], Last(w[j]))
    BY <2>1 DEF Line
  <2>3. CASE j = 1
    BY <1>3, <2>1, <2>2, <2>3
  <2>4. CASE j # 1
    <3>1. Tail(w)[j - 1] = w[j]
      BY <1>1, <2>4
    <3> QED BY <2>1, <2>2, <2>4, <3>1
  <2> QED BY <2>3, <2>4
<1>5. n = IF Tail(w) = <<>> THEN Len(g) + Len(w[1]) ELSE Last(Last(Tail(w)))
  <2>1. n = Last(Last(w))
    BY DEF Line
  <2>2. CASE Len(w) = 1
    <3>1. Tail(w) = <<>>
      BY <1>1, <2>2
    <3>2. Last(w) = w[1]
      BY <2>2 DEF Last
    <3> QED BY <1>3, <2>1, <3>1, <3>2
  <2>3. CASE Len(w) # 1
    <3>1. Tail(w) # <<>>
      BY <1>1, <2>3
    <3>2. Len(Tail(w)) \in 1 .. Len(Tail(w)) /\ Len(Tail(w)) + 1 = Len(w)
      BY <1>1, <2>3
    <3>3. Last(Tail(w)) = Last(w)
      BY <1>1, <3>2 DEF Last
    <3> QED BY <2>1, <3>1, <3>3
  <2> QED BY <2>2, <2>3
<1>6. Continues(g, 0) /\ Continues(<<>>, Len(g)) /\ Len(<<>>) = 0 /\ Len(g) \in Nat
  BY EmptySeq DEF Line, Continues
<1>7. Len(g) + Len(<<>>) = Len(g)
  BY <1>6
<1> QED BY <1>1, <1>2, <1>4, <1>5, <1>6, <1>7 DEF Line

\* Append adds its argument behind the others.
Appended(a, s, e) ==
  /\ a # <<>> /\ Len(s) \in Nat /\ Len(a) = Len(s) + 1 /\ a[Len(s) + 1] = e
  /\ \A j \in 1 .. Len(s) : a[j] = s[j]

LEMMA AppendFacts ==
  ASSUME NEW S, NEW s \in Seq(S), NEW e \in S
  PROVE  Append(s, e) \in Seq(S) /\ Appended(Append(s, e), s, e)
BY DEF Appended

\* The peer adds a message of k bytes.
LEMMA LineSend ==
  ASSUME NEW g \in Seq(Nat), NEW b \in Seq(Nat), NEW m \in Seq(Nat),
         NEW w \in Seq(Seq(Nat)), NEW n \in Nat, NEW k \in Nat \ {0},
         Line(g, b, m, w, n)
  PROVE  LET a == Append(w, [i \in 1 .. k |-> n + i]) IN
         a \in Seq(Seq(Nat)) /\ Line(g, b, m, a, n + k)
<1> DEFINE e == [i \in 1 .. k |-> n + i]
           a == Append(w, e)
           r == Len(g) + Len(b) + Len(m)
<1>1. e \in Seq(Nat) /\ Len(e) = k /\ Continues(e, n) /\ Last(e) = n + k
  BY DEF Continues, Last
<1> HIDE DEF e
<1>2. /\ a \in Seq(Seq(Nat)) /\ Len(a) = Len(w) + 1 /\ a # <<>> /\ Last(a) = e
      /\ a[Len(w) + 1] = e /\ Len(w) \in Nat
      /\ \A j \in 1 .. Len(w) : a[j] = w[j]
  <2>1. a \in Seq(Seq(Nat)) /\ Appended(a, w, e)
    BY <1>1, AppendFacts, Zenon
  <2> HIDE DEF a
  <2> QED BY <2>1 DEF Last, Appended
<1> HIDE DEF a
<1>3. ASSUME NEW j \in 1 .. Len(a)
      PROVE  Len(a[j]) > 0 /\ Continues(a[j], IF j = 1 THEN r ELSE Last(a[j - 1]))
  <2>1. CASE j \in 1 .. Len(w)
    <3>1. j # 1 => j - 1 \in 1 .. Len(w)
      BY <2>1, <1>2
    <3> QED BY <1>2, <2>1, <3>1 DEF Line
  <2>2. CASE j = Len(w) + 1
    <3>1. CASE w = <<>>
      <4>1. j = 1 /\ n = r
        BY <2>2, <3>1 DEF Line
      <4> QED BY <1>1, <1>2, <2>2, <4>1
    <3>2. CASE w # <<>>
      <4>1. Len(w) \in 1 .. Len(w) /\ j # 1 /\ j - 1 = Len(w)
        BY <1>2, <2>2, <3>2
      <4>2. n = Last(a[j - 1])
        BY <1>2, <3>2, <4>1 DEF Line, Last
      <4> QED BY <1>1, <1>2, <2>2, <4>1, <4>2
    <3> QED BY <3>1, <3>2
  <2> QED BY <1>2, <2>1, <2>2
<1>4. Line(g, b, m, a, n + k)
  BY <1>1, <1>2, <1>3 DEF Line
<1> QED BY <1>2, <1>4 DEF a, e

(***************************************************************************)
(* The inductive invariant of the byte stream.  That the reader holds at   *)
(* most one of a kept rest and a message in its hands, and that nothing    *)
(* follows a close frame, is what the bytes' order rests on.               *)
(***************************************************************************)
StreamTypes ==
  /\ got \in [Conns -> Seq(Nat)] /\ readBuf \in [Conns -> Seq(Nat)]
  /\ msg \in [Conns -> Seq(Nat)] /\ wire \in [Conns -> Seq(Seq(Nat))]
  /\ sent \in [Conns -> Nat]
  /\ peer \in [Conns -> {"live", "closing", "stalled", "lost"}]
  /\ rd \in [Conns -> {"idle", "raw", "message", "closeErr", "err", "eof", "failed"}]

Hands(c) ==
  /\ rd[c] \in {"raw", "closeErr", "err", "eof"} => readBuf[c] = <<>> /\ msg[c] = <<>>
  /\ rd[c] = "idle" => msg[c] = <<>>
  /\ rd[c] = "message" => readBuf[c] = <<>>
  /\ rd[c] \in {"closeErr", "eof"} => wire[c] = <<>> /\ peer[c] = "closing"

Stream(c) == Line(got[c], readBuf[c], msg[c], wire[c], sent[c])

StreamInv == StreamTypes /\ \A c \in Conns : Hands(c) /\ Stream(c)

streamVars == <<got, readBuf, msg, wire, sent, peer, rd>>

\* A step at d leaves every other connection's bytes alone.
LEMMA OthersKept ==
  ASSUME StreamInv, NEW d \in Conns, StreamTypes', Hands(d)', Stream(d)',
         \A c \in Conns \ {d} :
           /\ got'[c] = got[c] /\ readBuf'[c] = readBuf[c] /\ msg'[c] = msg[c]
           /\ wire'[c] = wire[c] /\ sent'[c] = sent[c] /\ peer'[c] = peer[c]
           /\ rd'[c] = rd[c]
  PROVE  StreamInv'
<1>1. ASSUME NEW c \in Conns PROVE Hands(c)' /\ Stream(c)'
  <2>1. CASE c = d
    BY <2>1
  <2>2. CASE c # d
    BY <2>2 DEF StreamInv, Hands, Stream
  <2> QED BY <2>1, <2>2
<1> QED BY <1>1 DEF StreamInv

LEMMA StreamInit == Init => StreamInv
<1> SUFFICES ASSUME Init PROVE StreamInv
  OBVIOUS
<1>1. StreamTypes
  BY EmptySeq DEF Init, StreamTypes
<1>2. ASSUME NEW c \in Conns PROVE Hands(c) /\ Stream(c)
  <2>1. /\ rd[c] = "idle" /\ got[c] = <<>> /\ readBuf[c] = <<>> /\ msg[c] = <<>>
        /\ wire[c] = <<>> /\ sent[c] = 0
    BY <1>2 DEF Init
  <2>2. Len(<<>>) = 0
    BY EmptySeq
  <2> QED BY <2>1, <2>2 DEF Hands, Stream, Line, Continues
<1> QED BY <1>1, <1>2 DEF StreamInv

LEMMA SendKeepsStream ==
  ASSUME StreamInv, NEW d \in Conns, PeerSend(d) PROVE StreamInv'
<1>1. PICK k \in MsgLens :
        /\ wire' = [wire EXCEPT ![d] = Append(@, [i \in 1 .. k |-> sent[d] + i])]
        /\ sent' = [sent EXCEPT ![d] = @ + k]
  BY DEF PeerSend
<1>2. /\ peer[d] = "live"
      /\ UNCHANGED <<got, readBuf, msg, peer, rd>>
  BY DEF PeerSend, connVars, readVars
<1>3. k \in Nat \ {0}
  BY LensPositive
<1>4. /\ got[d] \in Seq(Nat) /\ readBuf[d] \in Seq(Nat) /\ msg[d] \in Seq(Nat)
      /\ wire[d] \in Seq(Seq(Nat)) /\ sent[d] \in Nat /\ Stream(d) /\ Hands(d)
  BY DEF StreamInv, StreamTypes
<1> DEFINE a == Append(wire[d], [i \in 1 .. k |-> sent[d] + i])
<1>5. a \in Seq(Seq(Nat)) /\ Line(got[d], readBuf[d], msg[d], a, sent[d] + k)
  BY <1>3, <1>4, LineSend DEF Stream
<1>6. wire' = [wire EXCEPT ![d] = a]
  BY <1>1
<1> HIDE DEF a
<1>7. StreamTypes'
  BY SMTT(30), <1>1, <1>2, <1>3, <1>5, <1>6 DEF StreamInv, StreamTypes
<1>8. wire'[d] = a /\ sent'[d] = sent[d] + k
  BY <1>1, <1>6 DEF StreamInv, StreamTypes
<1>9. Stream(d)'
  BY <1>2, <1>5, <1>8 DEF Stream
<1>10. Hands(d)'
  BY <1>2, <1>4 DEF Hands
<1>11. \A c \in Conns \ {d} : wire'[c] = wire[c] /\ sent'[c] = sent[c]
  BY <1>1, <1>6 DEF StreamInv, StreamTypes
<1> QED BY <1>2, <1>7, <1>9, <1>10, <1>11, OthersKept

\* Read returns, having handed over all of x and kept v.
LEMMA ReturnKeepsStream ==
  ASSUME StreamInv, NEW d \in Conns, NEW x \in Seq(Nat), NEW v \in Seq(Nat),
         Line(x, v, <<>>, wire[d], sent[d]),
         got' = [got EXCEPT ![d] = x],
         readBuf' = [readBuf EXCEPT ![d] = v],
         msg' = [msg EXCEPT ![d] = <<>>],
         rd' = [rd EXCEPT ![d] = "idle"],
         UNCHANGED <<wire, sent, peer>>
  PROVE  StreamInv'
<1>1. StreamTypes'
  <2>1. <<>> \in Seq(Nat)
    BY EmptySeq
  <2> QED BY <2>1 DEF StreamInv, StreamTypes
<1>2. got'[d] = x /\ readBuf'[d] = v /\ msg'[d] = <<>> /\ rd'[d] = "idle"
  BY DEF StreamInv, StreamTypes
<1>3. Stream(d)'
  BY <1>2 DEF Stream
<1>4. Hands(d)'
  BY <1>2 DEF Hands
<1>5. \A c \in Conns \ {d} : /\ got'[c] = got[c] /\ readBuf'[c] = readBuf[c]
                             /\ msg'[c] = msg[c] /\ rd'[c] = rd[c]
  BY DEF StreamInv, StreamTypes
<1> QED BY <1>1, <1>3, <1>4, <1>5, OthersKept

\* Read returns the first bytes of s, its kept rest or the message in its
\* hands, and keeps the others.
LEMMA CopyKeepsStream ==
  ASSUME StreamInv, NEW d \in Conns, NEW k \in ReadLens, NEW s \in Seq(Nat),
         \/ s = readBuf[d] /\ msg[d] = <<>> /\ rd[d] = "idle"
         \/ s = msg[d] /\ readBuf[d] = <<>> /\ rd[d] = "message",
         got' = [got EXCEPT ![d] = @ \o Copied(s, k)],
         readBuf' = [readBuf EXCEPT ![d] = SubSeq(s, k + 1, Len(s))],
         msg' = [msg EXCEPT ![d] = <<>>],
         rd' = [rd EXCEPT ![d] = "idle"],
         UNCHANGED <<wire, sent, peer>>
  PROVE  StreamInv'
<1>1. k \in Nat \ {0}
  BY LensPositive
<1>2. /\ got[d] \in Seq(Nat) /\ wire[d] \in Seq(Seq(Nat)) /\ Stream(d)
  BY DEF StreamInv, StreamTypes
<1> DEFINE x == got[d] \o Copied(s, k)
           v == SubSeq(s, k + 1, Len(s))
<1>3. x \in Seq(Nat) /\ v \in Seq(Nat) /\ Line(x, v, <<>>, wire[d], sent[d])
  BY <1>1, <1>2, LineRead DEF Stream
<1>4. got' = [got EXCEPT ![d] = x] /\ readBuf' = [readBuf EXCEPT ![d] = v]
  OBVIOUS
<1> HIDE DEF x, v
<1> QED BY <1>3, <1>4, ReturnKeepsStream

\* Only the reader's position changes.
LEMMA MoveKeepsStream ==
  ASSUME StreamInv, NEW d \in Conns,
         NEW p \in {"raw", "closeErr", "err", "eof", "failed"},
         p # "failed" => readBuf[d] = <<>> /\ msg[d] = <<>>,
         p \in {"closeErr", "eof"} => wire[d] = <<>> /\ peer[d] = "closing",
         rd' = [rd EXCEPT ![d] = p],
         UNCHANGED <<got, readBuf, msg, wire, sent, peer>>
  PROVE  StreamInv'
<1>1. StreamTypes'
  BY DEF StreamInv, StreamTypes
<1>2. rd'[d] = p /\ \A c \in Conns \ {d} : rd'[c] = rd[c]
  BY DEF StreamInv, StreamTypes
<1>3. Hands(d)'
  BY <1>2 DEF Hands
<1>4. Stream(d)'
  BY DEF StreamInv, Stream
<1> QED BY <1>1, <1>2, <1>3, <1>4, OthersKept

LEMMA ReadBeginKeepsStream ==
  ASSUME StreamInv, NEW d \in Conns, ReadBegin(d) PROVE StreamInv'
<1>1. rd[d] = "idle" /\ msg[d] = <<>> /\ UNCHANGED <<msg, wire, sent, peer>>
  BY DEF ReadBegin, peerVars, StreamInv, Hands
<1>2. CASE readBuf[d] # <<>> /\ UNCHANGED rd
           /\ \E k \in ReadLens :
                /\ got' = [got EXCEPT ![d] = @ \o Copied(readBuf[d], k)]
                /\ readBuf' = [readBuf EXCEPT ![d] = SubSeq(@, k + 1, Len(@))]
  <2>1. PICK k \in ReadLens :
          /\ got' = [got EXCEPT ![d] = @ \o Copied(readBuf[d], k)]
          /\ readBuf' = [readBuf EXCEPT ![d] = SubSeq(@, k + 1, Len(@))]
    BY <1>2
  <2>2. msg' = [msg EXCEPT ![d] = <<>>] /\ rd' = [rd EXCEPT ![d] = "idle"]
    BY <1>1, <1>2 DEF StreamInv, StreamTypes
  <2>3. readBuf[d] \in Seq(Nat)
    BY DEF StreamInv, StreamTypes
  <2>4. readBuf' = [readBuf EXCEPT ![d] = SubSeq(readBuf[d], k + 1, Len(readBuf[d]))]
    BY <2>1
  <2> QED BY <1>1, <2>1, <2>2, <2>3, <2>4, CopyKeepsStream
<1>3. CASE UNCHANGED <<readBuf, got>> /\ rd' = [rd EXCEPT ![d] = "failed"]
  BY <1>1, <1>3, MoveKeepsStream
<1>4. CASE readBuf[d] = <<>> /\ UNCHANGED <<readBuf, got>> /\ rd' = [rd EXCEPT ![d] = "raw"]
  BY <1>1, <1>4, MoveKeepsStream
<1> QED BY <1>2, <1>3, <1>4 DEF ReadBegin

LEMMA ReadMessageKeepsStream ==
  ASSUME StreamInv, NEW d \in Conns, ReadMessage(d) PROVE StreamInv'
<1>1. /\ rd[d] = "raw" /\ readBuf[d] = <<>> /\ msg[d] = <<>>
      /\ UNCHANGED <<got, readBuf, sent, peer>>
  BY DEF ReadMessage, connVars, StreamInv, Hands
<1>2. CASE /\ wire[d] # <<>>
           /\ rd' = [rd EXCEPT ![d] = "message"]
           /\ msg' = [msg EXCEPT ![d] = Head(wire[d])]
           /\ wire' = [wire EXCEPT ![d] = Tail(@)]
  <2>1. got[d] \in Seq(Nat) /\ wire[d] \in Seq(Seq(Nat)) /\ Stream(d)
    BY DEF StreamInv, StreamTypes
  <2> DEFINE h == Head(wire[d])
             t == Tail(wire[d])
  <2>2. h \in Seq(Nat) /\ t \in Seq(Seq(Nat)) /\ Line(got[d], <<>>, h, t, sent[d])
    BY <1>1, <1>2, <2>1, LineTake DEF Stream
  <2>3. msg' = [msg EXCEPT ![d] = h] /\ wire' = [wire EXCEPT ![d] = t]
    BY <1>2
  <2> HIDE DEF h, t
  <2>4. StreamTypes'
    BY SMTT(30), <1>1, <1>2, <2>2, <2>3 DEF StreamInv, StreamTypes
  <2>5. /\ msg'[d] = h /\ wire'[d] = t /\ rd'[d] = "message"
        /\ \A c \in Conns \ {d} : /\ msg'[c] = msg[c] /\ wire'[c] = wire[c]
                                  /\ rd'[c] = rd[c]
    BY <1>2, <2>3 DEF StreamInv, StreamTypes
  <2>6. Stream(d)'
    BY <1>1, <2>2, <2>5 DEF Stream
  <2>7. Hands(d)'
    BY <1>1, <2>5 DEF Hands
  <2> QED BY <1>1, <2>4, <2>5, <2>6, <2>7, OthersKept
<1>3. CASE /\ wire[d] = <<>> /\ peer[d] = "closing" /\ UNCHANGED <<msg, wire>>
           /\ rd' = [rd EXCEPT ![d] = "closeErr"]
  BY <1>1, <1>3, MoveKeepsStream
<1>4. CASE rd' = [rd EXCEPT ![d] = "err"] /\ UNCHANGED <<msg, wire>>
  BY <1>1, <1>4, MoveKeepsStream
<1> QED BY <1>2, <1>3, <1>4 DEF ReadMessage

LEMMA ReadEndKeepsStream ==
  ASSUME StreamInv, NEW d \in Conns, ReadEnd(d) PROVE StreamInv'
<1>1. UNCHANGED <<wire, sent, peer>> /\ Hands(d)
  BY DEF ReadEnd, peerVars, StreamInv
<1>2. CASE rd[d] = "message"
  <2>1. PICK k \in ReadLens :
          /\ got' = [got EXCEPT ![d] = @ \o Copied(msg[d], k)]
          /\ readBuf' = [readBuf EXCEPT ![d] = SubSeq(msg[d], k + 1, Len(msg[d]))]
    BY <1>2 DEF ReadEnd
  <2>2. msg' = [msg EXCEPT ![d] = <<>>] /\ rd' = [rd EXCEPT ![d] = "idle"]
    BY <1>2 DEF ReadEnd
  <2>3. msg[d] \in Seq(Nat) /\ readBuf[d] = <<>>
    BY <1>1, <1>2 DEF StreamInv, StreamTypes, Hands
  <2> QED BY <1>1, <1>2, <2>1, <2>2, <2>3, CopyKeepsStream
<1>3. CASE rd[d] = "closeErr"
  <2>1. UNCHANGED <<got, readBuf, msg>>
    BY <1>3 DEF ReadEnd
  <2>2. CASE rd' = [rd EXCEPT ![d] = "eof"]
    BY <1>1, <1>3, <2>1, <2>2, MoveKeepsStream DEF Hands
  <2>3. CASE rd' = [rd EXCEPT ![d] = "failed"]
    BY <1>1, <2>1, <2>3, MoveKeepsStream
  <2> QED BY <1>3, <2>2, <2>3 DEF ReadEnd
<1>4. CASE rd[d] = "err"
  <2>1. rd' = [rd EXCEPT ![d] = "failed"] /\ UNCHANGED <<got, readBuf, msg>>
    BY <1>4 DEF ReadEnd
  <2> QED BY <1>1, <2>1, MoveKeepsStream
<1> QED BY <1>2, <1>3, <1>4 DEF ReadEnd

LEMMA FaultKeepsStream ==
  ASSUME StreamInv, NEW d \in Conns, PeerFault(d) PROVE StreamInv'
<1>1. PICK f \in {"closing", "stalled", "lost"} : peer' = [peer EXCEPT ![d] = f]
  BY DEF PeerFault
<1>2. peer[d] = "live" /\ UNCHANGED <<got, readBuf, msg, wire, sent, rd>>
  BY DEF PeerFault, connVars, readVars
<1>3. StreamTypes' /\ \A c \in Conns \ {d} : peer'[c] = peer[c]
  BY <1>1, <1>2 DEF StreamInv, StreamTypes
<1>4. Hands(d)' /\ Stream(d)'
  BY <1>2 DEF StreamInv, Hands, Stream
<1> QED BY <1>2, <1>3, <1>4, OthersKept

LEMMA StreamStep == StreamInv /\ [Next]_vars => StreamInv'
<1> SUFFICES ASSUME StreamInv, [Next]_vars PROVE StreamInv'
  OBVIOUS
<1> USE DEF connVars, rawVars, peerVars, readVars, lisVars
<1>1. CASE UNCHANGED streamVars
  BY <1>1 DEF streamVars, StreamInv, StreamTypes, Hands, Stream
<1>2. ASSUME NEW c \in Conns, PeerSend(c) PROVE StreamInv'
  BY <1>2, SendKeepsStream
<1>3. ASSUME NEW c \in Conns, PeerFault(c) PROVE StreamInv'
  BY <1>3, FaultKeepsStream
<1>4. ASSUME NEW c \in Conns, ReadSteps(c) PROVE StreamInv'
  BY <1>4, ReadBeginKeepsStream, ReadMessageKeepsStream, ReadEndKeepsStream DEF ReadSteps
<1>5. ASSUME NEW c \in Conns, Upgrade(c) PROVE UNCHANGED streamVars
  BY <1>5 DEF Upgrade, streamVars
<1>6. ASSUME NEW c \in Conns, OwnerClose(c) \/ OwnerClosed(c) PROVE UNCHANGED streamVars
  BY <1>6 DEF OwnerClose, OwnerClosed, CloseBegin, CloseEnd, streamVars
<1>7. ASSUME NEW c \in Conns, WriteSteps(c) PROVE UNCHANGED streamVars
  BY <1>7 DEF WriteSteps, WriteBegin, WriteEnter, WriteReturn, WriteEnd, streamVars
<1>8. ASSUME NEW c \in Conns, HandlerSteps(c) PROVE UNCHANGED streamVars
  <2>1. CASE HandOver(c) \/ WaitOver(c) \/ HandlerRawClose(c)
    BY <2>1 DEF HandOver, WaitOver, HandlerRawClose, streamVars
  <2>2. CASE HandlerClose(c) \/ HandlerClosed(c)
    BY <2>2 DEF HandlerClose, HandlerClosed, CloseBegin, CloseEnd, streamVars
  <2> QED BY <1>8, <2>1, <2>2 DEF HandlerSteps
<1>9. ASSUME Accept \/ AcceptClosed \/ ListenerClose PROVE UNCHANGED streamVars
  BY <1>9 DEF Accept, AcceptClosed, ListenerClose, streamVars
<1>10. CASE UNCHANGED vars
  <2> QED BY <1>1, <1>10 DEF vars, streamVars
<1> QED BY <1>1, <1>2, <1>3, <1>4, <1>5, <1>6, <1>7, <1>8, <1>9, <1>10 DEF Next

LEMMA StreamKept == StreamInv => StreamInOrder
<1> SUFFICES ASSUME StreamInv, NEW c \in Conns
             PROVE  /\ Stream(c)
                    /\ rd[c] = "eof" => Len(got[c]) = sent[c]
  BY DEF Stream, Line, StreamInOrder
<1>1. Stream(c) /\ Hands(c) /\ got[c] \in Seq(Nat)
  BY DEF StreamInv, StreamTypes
<1>2. ASSUME rd[c] = "eof" PROVE Len(got[c]) = sent[c]
  <2>1. readBuf[c] = <<>> /\ msg[c] = <<>> /\ wire[c] = <<>>
    BY <1>1, <1>2 DEF Hands
  <2>2. sent[c] = Len(got[c]) + Len(<<>>) + Len(<<>>)
    BY <1>1, <2>1 DEF Stream, Line
  <2> QED BY <1>1, <2>2, EmptySeq
<1> QED BY <1>1, <1>2

\* What Read has returned, what it keeps and what is on the way are the peer's
\* bytes, each once and in order, and io.EOF is said only when it has returned
\* them all: for every cutting of the stream into messages and slices.
THEOREM BytesInOrder == Spec => []StreamInOrder
<1> QED BY StreamInit, StreamStep, StreamKept, PTL DEF Spec

(***************************************************************************)
(* The inductive invariant of a connection's end.  A connection is closed  *)
(* through its cancelled context, through handleWS or by itself, and every *)
(* one of them goes back to its owner or to the listener; the connections  *)
(* in connChan have no owner yet, and each is there once.                  *)
(***************************************************************************)
ServeTypes ==
  /\ cancelled \in [Conns -> BOOLEAN]
  /\ raw \in [Conns -> {"none", "open", "closed"}]
  /\ owner \in [Conns -> {"none", "open", "closing", "done", "panicked"}]
  /\ hs \in [Conns -> {"none", "select", "wait", "leave", "closing", "raw", "gone"}]
  /\ connChan \in Seq(Upgraded) /\ closeChan \in BOOLEAN

Reason(c) ==
  cancelled[c] \/ hs[c] \in {"leave", "closing", "raw"} \/ raw[c] = "closed"
    => owner[c] \notin {"none", "open"} \/ closeChan

Early(c) == hs[c] \in {"none", "select"} => owner[c] = "none" /\ c \in Upgraded

Queued ==
  \A i \in 1 .. Len(connChan) :
    /\ owner[connChan[i]] = "none" /\ hs[connChan[i]] \notin {"none", "select"}
    /\ \A j \in 1 .. Len(connChan) : connChan[i] = connChan[j] => i = j

ServeInv == ServeTypes /\ Queued /\ \A c \in Conns : Reason(c) /\ Early(c)

serveVars == <<cancelled, raw, owner, hs, connChan, closeChan>>

LEMMA ServeInit == Init => ServeInv
<1> SUFFICES ASSUME Init PROVE ServeInv
  OBVIOUS
<1>1. PICK here \in Scenarios :
        /\ raw = [c \in Conns |-> IF c \in here \cap Dialled THEN "open" ELSE "none"]
        /\ owner = [c \in Conns |-> IF c \in here \cap Dialled THEN "open" ELSE "none"]
        /\ hs = [c \in Conns |-> IF c \in here \cap Upgraded THEN "none" ELSE "gone"]
  BY DEF Init
<1>2. cancelled = [c \in Conns |-> FALSE] /\ connChan = <<>> /\ closeChan = FALSE
  BY DEF Init
<1>3. ServeTypes
  BY <1>1, <1>2, EmptySeq DEF ServeTypes
<1>4. Queued
  BY <1>2, EmptySeq DEF Queued
<1>5. ASSUME NEW c \in Conns PROVE Reason(c) /\ Early(c)
  BY <1>1, <1>2, DisjointEnds DEF Reason, Early
<1> QED BY <1>3, <1>4, <1>5 DEF ServeInv

\* A step at d that leaves the queue and the listener alone; d has no owner
\* before and after it, or has one and is not in the queue.
LEMMA ServedAt ==
  ASSUME ServeInv, NEW d \in Conns, ServeTypes', Reason(d)', Early(d)',
         UNCHANGED connChan, closeChan => closeChan',
         owner[d] = "none" => owner'[d] = "none",
         hs[d] \notin {"none", "select"} => hs'[d] \notin {"none", "select"},
         \A c \in Conns \ {d} : /\ cancelled'[c] = cancelled[c] /\ raw'[c] = raw[c]
                                /\ owner'[c] = owner[c] /\ hs'[c] = hs[c]
  PROVE  ServeInv'
<1>1. ASSUME NEW c \in Conns PROVE Reason(c)' /\ Early(c)'
  <2>1. CASE c = d
    BY <2>1
  <2>2. CASE c # d
    BY <2>2 DEF ServeInv, Reason, Early
  <2> QED BY <2>1, <2>2
<1>2. ASSUME NEW i \in 1 .. Len(connChan)
      PROVE  owner'[connChan[i]] = "none" /\ hs'[connChan[i]] \notin {"none", "select"}
  <2>1. connChan[i] \in Conns
    BY DEF ServeInv, ServeTypes, Conns
  <2>2. owner[connChan[i]] = "none" /\ hs[connChan[i]] \notin {"none", "select"}
    BY DEF ServeInv, Queued
  <2> QED BY <2>1, <2>2
<1>3. Queued'
  BY <1>2 DEF ServeInv, Queued
<1> QED BY <1>1, <1>3 DEF ServeInv

LEMMA OwnerServes ==
  ASSUME ServeInv, NEW d \in Conns, OwnerClose(d) \/ OwnerClosed(d) PROVE ServeInv'
<1>1. UNCHANGED <<hs, connChan, closeChan>>
  BY DEF OwnerClose, OwnerClosed, lisVars
<1>2. CASE OwnerClose(d)
  <2>1. /\ cancelled' = [cancelled EXCEPT ![d] = TRUE] /\ raw' = raw
        /\ owner[d] = "open"
        /\ \E o \in {"done", "closing"} : owner' = [owner EXCEPT ![d] = o]
    BY <1>2 DEF OwnerClose, CloseBegin
  <2>2. ServeTypes'
    BY <1>1, <2>1 DEF ServeInv, ServeTypes
  <2>3. /\ owner'[d] \in {"done", "closing"}
        /\ \A c \in Conns \ {d} : owner'[c] = owner[c] /\ cancelled'[c] = cancelled[c]
    BY <2>1 DEF ServeInv, ServeTypes
  <2>4. Reason(d)' /\ Early(d)'
    BY <1>1, <2>1, <2>3 DEF ServeInv, Reason, Early
  <2> QED BY <1>1, <2>1, <2>2, <2>3, <2>4, ServedAt
<1>3. CASE OwnerClosed(d)
  <2>1. /\ cancelled' = cancelled /\ owner[d] = "closing"
        /\ \E o \in {"done", "panicked"} : owner' = [owner EXCEPT ![d] = o]
        /\ \E q \in {"closed", raw[d]} : raw' = [raw EXCEPT ![d] = q]
    BY <1>3 DEF OwnerClosed, CloseEnd
  <2>2. ServeTypes'
    BY <1>1, <2>1 DEF ServeInv, ServeTypes
  <2>3. /\ owner'[d] \in {"done", "panicked"}
        /\ \A c \in Conns \ {d} : owner'[c] = owner[c] /\ raw'[c] = raw[c]
    BY <2>1 DEF ServeInv, ServeTypes
  <2>4. Reason(d)' /\ Early(d)'
    BY <1>1, <2>1, <2>3 DEF ServeInv, Reason, Early
  <2> QED BY <1>1, <2>1, <2>2, <2>3, <2>4, ServedAt
<1> QED BY <1>2, <1>3

LEMMA HandlerServes ==
  ASSUME ServeInv, NEW d \in Conns,
         Upgrade(d) \/ WaitOver(d) \/ HandlerClose(d) \/ HandlerClosed(d) \/ HandlerRawClose(d)
  PROVE  ServeInv'
<1> USE DEF ServeInv, ServeTypes
<1> DEFINE Moved(h) == hs' = [hs EXCEPT ![d] = h]
<1>1. UNCHANGED <<owner, connChan, closeChan>>
  BY DEF Upgrade, WaitOver, HandlerClose, HandlerClosed, HandlerRawClose, lisVars
<1>2. \/ /\ hs[d] = "none" /\ Moved("select")
         /\ cancelled' = cancelled /\ raw' = [raw EXCEPT ![d] = "open"]
      \/ /\ hs[d] = "wait" /\ (cancelled[d] \/ closeChan)
         /\ Moved("leave") /\ cancelled' = cancelled /\ raw' = raw
      \/ /\ hs[d] = "leave" /\ (Moved("raw") \/ Moved("closing"))
         /\ cancelled' = [cancelled EXCEPT ![d] = TRUE] /\ raw' = raw
      \/ /\ hs[d] = "closing" /\ Moved("raw") /\ cancelled' = cancelled
         /\ \E q \in {"closed", raw[d]} : raw' = [raw EXCEPT ![d] = q]
      \/ /\ hs[d] = "raw" /\ Moved("gone") /\ cancelled' = cancelled
         /\ raw' = [raw EXCEPT ![d] = "closed"]
  BY DEF Upgrade, WaitOver, HandlerClose, HandlerClosed, HandlerRawClose, CloseBegin,
         CloseEnd, connVars, rawVars
<1>3. ServeTypes'
  BY <1>1, <1>2
<1>4. \A c \in Conns \ {d} : cancelled'[c] = cancelled[c] /\ raw'[c] = raw[c] /\ hs'[c] = hs[c]
  BY <1>2
<1>5. Early(d)' /\ (hs[d] \notin {"none", "select"} => hs'[d] \notin {"none", "select"})
  BY <1>1, <1>2 DEF Early
<1>6. Reason(d)'
  BY <1>1, <1>2 DEF Reason
<1> QED BY <1>1, <1>3, <1>4, <1>5, <1>6, ServedAt

LEMMA HandOverServes ==
  ASSUME ServeInv, NEW d \in Conns, HandOver(d) PROVE ServeInv'
<1>1. /\ hs[d] = "select" /\ owner[d] = "none" /\ d \in Upgraded
      /\ UNCHANGED <<cancelled, raw, owner, closeChan>>
  BY DEF HandOver, connVars, rawVars, ServeInv, Early
<1>2. CASE connChan' = connChan /\ closeChan /\ hs' = [hs EXCEPT ![d] = "leave"]
  <2>1. ServeTypes'
    BY <1>1, <1>2 DEF ServeInv, ServeTypes
  <2>2. hs'[d] = "leave" /\ \A c \in Conns \ {d} : hs'[c] = hs[c]
    BY <1>2 DEF ServeInv, ServeTypes
  <2>3. Reason(d)' /\ Early(d)'
    BY <1>1, <1>2, <2>2 DEF Reason, Early
  <2> QED BY <1>1, <1>2, <2>1, <2>2, <2>3, ServedAt
<1>3. CASE connChan' = Append(connChan, d) /\ hs' = [hs EXCEPT ![d] = "wait"]
  <2>1. connChan' \in Seq(Upgraded) /\ Appended(connChan', connChan, d)
    BY <1>1, <1>3, AppendFacts DEF ServeInv, ServeTypes
  <2>2. ServeTypes'
    BY <1>1, <1>3, <2>1 DEF ServeInv, ServeTypes
  <2>3. hs'[d] = "wait" /\ \A c \in Conns \ {d} : hs'[c] = hs[c]
    BY <1>3 DEF ServeInv, ServeTypes
  <2>4. ASSUME NEW c \in Conns PROVE Reason(c)' /\ Early(c)'
    <3>1. Reason(c) /\ Early(c)
      BY DEF ServeInv
    <3>2. CASE c = d
      BY <1>1, <2>3, <3>1, <3>2 DEF Reason, Early
    <3>3. CASE c # d
      BY <1>1, <2>3, <3>1, <3>3 DEF Reason, Early
    <3> QED BY <3>2, <3>3
  <2>5. ASSUME NEW i \in 1 .. Len(connChan)
        PROVE  /\ connChan'[i] = connChan[i] /\ connChan[i] \in Conns \ {d}
               /\ owner[connChan[i]] = "none" /\ hs'[connChan[i]] \notin {"none", "select"}
               /\ \A j \in 1 .. Len(connChan) : connChan[i] = connChan[j] => i = j
    <3>1. connChan'[i] = connChan[i] /\ connChan[i] \in Conns
      BY <2>1 DEF Appended, ServeInv, ServeTypes, Conns
    <3>2. /\ owner[connChan[i]] = "none" /\ hs[connChan[i]] \notin {"none", "select"}
          /\ \A j \in 1 .. Len(connChan) : connChan[i] = connChan[j] => i = j
      BY DEF ServeInv, Queued
    <3>3. connChan[i] # d
      BY <1>1, <3>2
    <3> QED BY <2>3, <3>1, <3>2, <3>3
  <2>6. ASSUME NEW i \in 1 .. Len(connChan')
        PROVE  i \in 1 .. Len(connChan) \/ (i = Len(connChan) + 1 /\ connChan'[i] = d)
    BY <2>1 DEF Appended
  <2>7. ASSUME NEW i \in 1 .. Len(connChan')
        PROVE  /\ owner'[connChan'[i]] = "none" /\ hs'[connChan'[i]] \notin {"none", "select"}
               /\ \A j \in 1 .. Len(connChan') : connChan'[i] = connChan'[j] => i = j
    <3>1. CASE i \in 1 .. Len(connChan)
      BY <1>1, <2>5, <2>6, <3>1
    <3>2. CASE i = Len(connChan) + 1 /\ connChan'[i] = d
      BY <1>1, <2>3, <2>5, <2>6, <3>2
    <3> QED BY <2>6, <3>1, <3>2
  <2>8. Queued'
    BY <2>7 DEF Queued
  <2> QED BY <2>2, <2>4, <2>8 DEF ServeInv
<1> QED BY <1>2, <1>3 DEF HandOver

LEMMA AcceptServes ==
  ASSUME ServeInv, Accept PROVE ServeInv'
<1> DEFINE d == connChan[1]
           q == Tail(connChan)
<1>1. /\ connChan \in Seq(Upgraded) /\ connChan # <<>> /\ Head(connChan) = d
      /\ Len(connChan) \in Nat \ {0} /\ d \in Upgraded /\ d \in Conns
  BY EmptySeq DEF Accept, ServeInv, ServeTypes, Conns
<1>2. /\ connChan' = q /\ owner' = [owner EXCEPT ![d] = "open"]
      /\ UNCHANGED <<cancelled, raw, hs, closeChan>>
  BY <1>1 DEF Accept, connVars, rawVars
<1>3. /\ q \in Seq(Upgraded) /\ Len(q) = Len(connChan) - 1
      /\ \A i \in 1 .. Len(q) : q[i] = connChan[i + 1]
  BY <1>1, HeadTailProperties
<1>4. /\ owner[d] = "none" /\ hs[d] \notin {"none", "select"}
      /\ \A j \in 1 .. Len(connChan) : d = connChan[j] => 1 = j
  BY <1>1 DEF ServeInv, Queued
<1> HIDE DEF q
<1>5. ServeTypes'
  BY <1>1, <1>2, <1>3 DEF ServeInv, ServeTypes
<1>6. owner'[d] = "open" /\ \A c \in Conns \ {d} : owner'[c] = owner[c]
  BY <1>1, <1>2 DEF ServeInv, ServeTypes
<1>7. ASSUME NEW c \in Conns PROVE Reason(c)' /\ Early(c)'
  <2>1. Reason(c) /\ Early(c)
    BY DEF ServeInv
  <2>2. CASE c = d
    BY <1>2, <1>4, <2>1, <2>2 DEF Reason, Early
  <2>3. CASE c # d
    BY <1>2, <1>6, <2>1, <2>3 DEF Reason, Early
  <2> QED BY <2>2, <2>3
<1>8. ASSUME NEW i \in 1 .. Len(q)
      PROVE  /\ owner'[q[i]] = "none" /\ hs'[q[i]] \notin {"none", "select"}
             /\ \A j \in 1 .. Len(q) : q[i] = q[j] => i = j
  <2>1. i + 1 \in 1 .. Len(connChan) /\ q[i] = connChan[i + 1] /\ i + 1 # 1
    BY <1>1, <1>3
  <2>2. /\ owner[q[i]] = "none" /\ hs[q[i]] \notin {"none", "select"}
        /\ \A j \in 1 .. Len(connChan) : connChan[i + 1] = connChan[j] => i + 1 = j
    BY <2>1 DEF ServeInv, Queued
  <2>3. q[i] \in Conns /\ q[i] # d
    BY <1>3, <1>4, <2>1 DEF Conns
  <2>4. ASSUME NEW j \in 1 .. Len(q), q[i] = q[j] PROVE i = j
    <3>1. j + 1 \in 1 .. Len(connChan) /\ q[j] = connChan[j + 1]
      BY <1>1, <1>3
    <3>2. i + 1 = j + 1
      BY <2>1, <2>2, <2>4, <3>1
    <3> QED BY <3>2
  <2> QED BY <1>2, <1>6, <2>2, <2>3, <2>4
<1>9. Queued'
  BY <1>2, <1>8 DEF Queued
<1> QED BY <1>5, <1>7, <1>9 DEF ServeInv

LEMMA ServeStep == ServeInv /\ [Next]_vars => ServeInv'
<1> SUFFICES ASSUME ServeInv, [Next]_vars PROVE ServeInv'
  OBVIOUS
<1> USE DEF connVars, rawVars, peerVars, readVars, lisVars
<1>1. CASE UNCHANGED serveVars
  BY <1>1 DEF serveVars, ServeInv, ServeTypes, Queued, Reason, Early
<1>2. ASSUME NEW c \in Conns, PeerSend(c) \/ PeerFault(c) PROVE UNCHANGED serveVars
  BY <1>2 DEF PeerSend, PeerFault, serveVars
<1>3. ASSUME NEW c \in Conns, ReadSteps(c) PROVE UNCHANGED serveVars
  BY <1>3 DEF ReadSteps, ReadBegin, ReadMessage, ReadEnd, serveVars
<1>4. ASSUME NEW c \in Conns, WriteSteps(c) PROVE UNCHANGED serveVars
  BY <1>4 DEF WriteSteps, WriteBegin, WriteEnter, WriteReturn, WriteEnd, serveVars
<1>5. ASSUME NEW c \in Conns, OwnerClose(c) \/ OwnerClosed(c) PROVE ServeInv'
  BY <1>5, OwnerServes
<1>6. ASSUME NEW c \in Conns, Upgrade(c) \/ HandlerSteps(c) PROVE ServeInv'
  BY <1>6, HandlerServes, HandOverServes DEF HandlerSteps
<1>7. ASSUME Accept PROVE ServeInv'
  BY <1>7, AcceptServes
<1>8. ASSUME AcceptClosed PROVE UNCHANGED serveVars
  BY <1>8 DEF AcceptClosed, serveVars
<1>9. ASSUME ListenerClose PROVE ServeInv'
  <2>1. /\ UNCHANGED <<cancelled, raw, owner, hs, connChan>>
        /\ closeChan' = TRUE \/ closeChan' = closeChan
    BY <1>9 DEF ListenerClose
  <2> QED BY ZenonT(60), <2>1 DEF ServeInv, ServeTypes, Queued, Reason, Early
<1>10. CASE UNCHANGED vars
  BY <1>1, <1>10 DEF vars, serveVars
<1> QED BY <1>1, <1>2, <1>3, <1>4, <1>5, <1>6, <1>7, <1>8, <1>9, <1>10 DEF Next

\* handleWS keeps the connection it handed over: the underlying connection is
\* closed only after its owner called Close or the listener was closed.
THEOREM KeptUntilClosed == Spec => []ServedUntilClosed
<1>1. ServeInv => ServedUntilClosed
  BY DEF ServeInv, Reason, ServedUntilClosed
<1> QED BY <1>1, ServeInit, ServeStep, PTL DEF Spec

(***************************************************************************)
(* Types, and the mutex: its holder, and no other Close, is inside         *)
(* WriteMessage; the send loop may be there too.                           *)
(***************************************************************************)
ConnFlags ==
  /\ closed \in [Conns -> BOOLEAN] /\ readErr \in [Conns -> BOOLEAN]
  /\ writeErr \in [Conns -> BOOLEAN] /\ closeSent \in [Conns -> BOOLEAN]
  /\ wr \in [Conns -> {"idle", "checked", "raw", "ok", "err", "failed"}]
  /\ chanClosed \in BOOLEAN /\ lis \in {"open", "signalled", "down", "closed"}
  /\ acc \in {"on", "ended"} /\ Len(connChan) <= ChanCap

Writers == {"send", "owner", "handleWS"}

Mutex ==
  /\ mu \in [Conns -> {"free", "owner", "handleWS"}]
  /\ inside \in [Conns -> SUBSET Writers] /\ clash \in [Conns -> SUBSET Writers]
  /\ \A c \in Conns : clash[c] \subseteq inside[c] /\ inside[c] \ {"send"} = {mu[c]} \ {"free"}

LEMMA MutexStep == Mutex /\ [Next]_vars => Mutex'
<1> SUFFICES ASSUME Mutex, [Next]_vars PROVE Mutex'
  OBVIOUS
<1> USE DEF connVars, rawVars, peerVars, readVars, lisVars
<1>1. CASE UNCHANGED <<mu, inside, clash>>
  BY <1>1 DEF Mutex
<1>2. ASSUME NEW c \in Conns, WriteEnter(c) PROVE Mutex'
  BY <1>2 DEF WriteEnter, EnterWrite, Mutex, Writers
<1>3. ASSUME NEW c \in Conns, WriteReturn(c) PROVE Mutex'
  BY <1>3 DEF WriteReturn, LeaveWrite, Mutex, Writers
<1>4. ASSUME NEW c \in Conns, NEW w \in {"owner", "handleWS"}, CloseBegin(c, w) PROVE Mutex'
  BY <1>4 DEF CloseBegin, EnterWrite, Mutex, Writers
<1>5. ASSUME NEW c \in Conns, NEW w \in {"owner", "handleWS"}, NEW r, CloseEnd(c, w, r)
      PROVE  Mutex'
  BY <1>5 DEF CloseEnd, LeaveWrite, Mutex, Writers
<1>6. ASSUME NEW c \in Conns, PeerSend(c) \/ PeerFault(c) \/ Upgrade(c)
      PROVE  UNCHANGED <<mu, inside, clash>>
  BY <1>6 DEF PeerSend, PeerFault, Upgrade
<1>7. ASSUME NEW c \in Conns, ReadSteps(c) PROVE UNCHANGED <<mu, inside, clash>>
  BY <1>7 DEF ReadSteps, ReadBegin, ReadMessage, ReadEnd
<1>8. ASSUME NEW c \in Conns, WriteSteps(c) PROVE Mutex'
  BY <1>1, <1>2, <1>3, <1>8 DEF WriteSteps, WriteBegin, WriteEnd
<1>9. ASSUME NEW c \in Conns, OwnerClose(c) \/ OwnerClosed(c) PROVE Mutex'
  BY <1>4, <1>5, <1>9 DEF OwnerClose, OwnerClosed
<1>10. ASSUME NEW c \in Conns, HandlerSteps(c) PROVE Mutex'
  BY <1>1, <1>4, <1>5, <1>10 DEF HandlerSteps, HandOver, WaitOver, HandlerClose,
     HandlerClosed, HandlerRawClose
<1>11. ASSUME Accept \/ AcceptClosed \/ ListenerClose PROVE UNCHANGED <<mu, inside, clash>>
  BY <1>11 DEF Accept, AcceptClosed, ListenerClose
<1>12. CASE UNCHANGED vars
  BY <1>1, <1>12 DEF vars
<1> QED BY <1>1, <1>6, <1>7, <1>8, <1>9, <1>10, <1>11, <1>12 DEF Next

LEMMA FlagsStep == ConnFlags /\ ServeTypes /\ [Next]_vars => ConnFlags'
<1> SUFFICES ASSUME ConnFlags, ServeTypes, [Next]_vars PROVE ConnFlags'
  OBVIOUS
<1> USE DEF connVars, rawVars, peerVars, readVars, lisVars, ConnFlags
<1>1. ASSUME NEW c \in Conns, PeerSend(c) \/ PeerFault(c) \/ Upgrade(c) PROVE ConnFlags'
  BY <1>1 DEF PeerSend, PeerFault, Upgrade
<1>2. ASSUME NEW c \in Conns, ReadSteps(c) PROVE ConnFlags'
  BY <1>2 DEF ReadSteps, ReadBegin, ReadMessage, ReadEnd
<1>3. ASSUME NEW c \in Conns, WriteSteps(c) PROVE ConnFlags'
  BY <1>3 DEF WriteSteps, WriteBegin, WriteEnter, WriteReturn, WriteEnd
<1>4. ASSUME NEW c \in Conns, OwnerClose(c) \/ OwnerClosed(c) PROVE ConnFlags'
  BY <1>4 DEF OwnerClose, OwnerClosed, CloseBegin, CloseEnd
<1>5. ASSUME NEW c \in Conns, HandOver(c) PROVE ConnFlags'
  <2>1. connChan' = Append(connChan, c) => Len(connChan') = Len(connChan) + 1
    BY <1>5 DEF ServeTypes
  <2>2. Len(connChan) \in Nat
    BY DEF ServeTypes
  <2>3. Len(connChan') <= ChanCap
    BY <1>5, <2>1, <2>2, ChanCapNatural DEF HandOver
  <2> QED BY <1>5, <2>3 DEF HandOver
<1>6. ASSUME NEW c \in Conns, HandlerSteps(c), ~HandOver(c) PROVE ConnFlags'
  BY <1>6 DEF HandlerSteps, WaitOver, HandlerClose, HandlerClosed, HandlerRawClose,
     CloseBegin, CloseEnd
<1>7. CASE Accept
  <2>1. Len(connChan') = Len(connChan) - 1 /\ Len(connChan) \in Nat
    BY <1>7, HeadTailProperties, EmptySeq DEF Accept, ServeTypes
  <2>2. Len(connChan') <= ChanCap
    BY <2>1, ChanCapNatural
  <2> QED BY <1>7, <2>2 DEF Accept
<1>8. CASE AcceptClosed \/ ListenerClose
  BY <1>8 DEF AcceptClosed, ListenerClose
<1>9. CASE UNCHANGED vars
  BY <1>9 DEF vars
<1> QED BY <1>1, <1>2, <1>3, <1>4, <1>5, <1>6, <1>7, <1>8, <1>9 DEF Next, HandlerSteps

\* The variables have their types, connChan is never above its capacity, and
\* the Close that holds a connection's mutex is the only one inside
\* WriteMessage: a panic there and a failed frame release it too.
THEOREM TypeCorrect == Spec => []TypeOK
<1>1. Init => ConnFlags /\ Mutex
  <2>1. Len(<<>>) = 0
    BY EmptySeq
  <2>2. ASSUME Init PROVE ConnFlags
    <3>1. /\ closed = [c \in Conns |-> FALSE] /\ readErr = [c \in Conns |-> FALSE]
          /\ writeErr = [c \in Conns |-> FALSE] /\ closeSent = [c \in Conns |-> FALSE]
          /\ wr = [c \in Conns |-> "idle"] /\ chanClosed = FALSE
          /\ lis = "open" /\ acc = "on" /\ connChan = <<>>
      BY <2>2 DEF Init
    <3>2. Len(connChan) <= ChanCap
      BY <2>1, <3>1, ChanCapNatural
    <3> QED BY <3>1, <3>2 DEF ConnFlags
  <2>3. Init => Mutex
    BY DEF Init, Mutex
  <2> QED BY <2>2, <2>3
<1>2. StreamInv /\ ServeInv /\ ConnFlags /\ Mutex => TypeOK
  BY DEF StreamInv, StreamTypes, ServeInv, ServeTypes, ConnFlags, Mutex, Writers, TypeOK
<1>3. ServeInv => ServeTypes
  BY DEF ServeInv
<1> QED BY <1>1, <1>2, <1>3, StreamInit, StreamStep, ServeInit, ServeStep, MutexStep,
        FlagsStep, PTL DEF Spec
=============================================================================
