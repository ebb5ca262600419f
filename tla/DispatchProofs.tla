--------------------------- MODULE DispatchProofs ---------------------------
(***************************************************************************)
(* The safety properties of Dispatch, for every set of read loops, of      *)
(* applications and of message ids, and every bound.                       *)
(***************************************************************************)
EXTENDS Dispatch, FiniteSetTheorems, TLAPS

(***************************************************************************)
(* The inductive invariant.                                                *)
(***************************************************************************)
Counters == [Outcomes -> Nat]

\* The variables that TypeOK leaves out.
Values ==
  /\ UnknownMsg \in Nat
  /\ packets \in [Objects -> Counters] /\ bytes \in [Objects -> Counters]
  /\ answer \in [MsgIDs -> [packets : Counters, bytes : Counters]]
  /\ snap \in [pc : {"idle", "lock"}, id : MsgIDs \cup {0}, obj : 0 .. created, calls : Nat]
  /\ snap.pc = "lock" => snap.id \in MsgIDs /\ snap.obj # 0

\* A read loop in handleMsg has a message; in AddBytes it has the entry of the
\* message's id, and between the two counters that entry's lock.
Handling ==
  \A r \in Readers :
    /\ rd[r] \notin {"read", "dead"} => loc[r].MsgID \in MsgIDs
    /\ rd[r] \in {"lock", "locked"} => /\ loc[r].stat # 0
                                       /\ Statistic[loc[r].MsgID] = loc[r].stat
    /\ rd[r] = "locked" => mu[loc[r].stat] = r

\* No two ids share an entry, and an entry not yet created has counted nothing.
Entries ==
  /\ \A i, j \in MsgIDs : Statistic[i] # 0 /\ Statistic[i] = Statistic[j] => i = j
  /\ \A o \in Objects : o > created => packets[o] = Zero

Before == {r \in Readers : rd[r] \in {"rlock", "lookup", "handle", "entry"}}
Uncounted == {r \in Readers : rd[r] \notin {"read", "locked"}}

\* There are no more entries than messages that have got so far.
Room ==
  /\ IsFiniteSet(Before)
  /\ UnknownMsg + created + Cardinality(Before) <= received

Count ==
  /\ IsFiniteSet(RecordedPackets) /\ IsFiniteSet(Uncounted)
  /\ received = UnknownMsg + Cardinality(RecordedPackets) + Cardinality(Uncounted)

\* An entry's bytes are its packets' but for the one its holder is counting.
Balance ==
  \A o \in Objects, b \in Outcomes :
    IF mu[o] # "free" /\ loc[mu[o]].outcome = b
      THEN bytes[o][b] + DataLen = DataLen * packets[o][b]
      ELSE bytes[o][b] = DataLen * packets[o][b]

IInv ==
  /\ TypeOK /\ Values /\ Handling /\ Entries /\ Room /\ Count /\ Balance
  /\ SnapshotConsistent

LEMMA InitHolds == Init => IInv
<1> SUFFICES ASSUME Init PROVE IInv
  OBVIOUS
<1> USE BoundsNatural
<1>1. TypeOK
  BY ReadersNotFree DEF Init, TypeOK, NoLoc, Outcomes, Objects
<1>2. Values
  BY DEF Init, Values, Counters, Zero, Outcomes
<1>3. Handling /\ Entries
  BY DEF Init, Handling, Entries
<1>4. Before = {} /\ Uncounted = {} /\ RecordedPackets = {}
  BY DEF Init, Before, Uncounted, RecordedPackets
<1>5. Room /\ Count
  BY <1>4, FS_EmptySet DEF Init, Room, Count
<1>6. Balance
  BY DataLenPositive DEF Init, Balance, Zero
<1>7. SnapshotConsistent
  BY DataLenPositive DEF Init, SnapshotConsistent, Zero
<1> QED BY <1>1, <1>2, <1>3, <1>5, <1>6, <1>7 DEF IInv

(***************************************************************************)
(* Types.  An entry is created only for a message, so there is room for it *)
(* among the objects.                                                      *)
(***************************************************************************)
Locals == [MsgID : MsgIDs \cup {0}, outcome : Outcomes, stat : 0 .. created]

LEMMA RoomForOne ==
  ASSUME IInv, NEW r \in Readers, rd[r] = "entry"
  PROVE  created + 1 \in Objects /\ created + 1 <= MaxMsgs
<1>1. Cardinality(Before) \in Nat /\ Cardinality(Before) # 0
  BY FS_CardinalityType, FS_EmptySet DEF IInv, Room, Before
<1> QED BY <1>1, BoundsNatural DEF IInv, Room, TypeOK, Values, Objects

\* The entry a read loop counts in.
LEMMA EntryOf ==
  ASSUME IInv, NEW r \in Readers, rd[r] \in {"lock", "locked"}
  PROVE  /\ loc[r].stat \in Objects /\ loc[r].outcome \in Outcomes /\ loc[r].MsgID \in MsgIDs
         /\ loc[r].stat # 0 /\ Statistic[loc[r].MsgID] = loc[r].stat
         /\ rd[r] = "locked" => mu[loc[r].stat] = r
<1>1. loc[r] \in Locals /\ created \in Nat /\ created <= MaxMsgs
  BY BoundsNatural DEF IInv, TypeOK, Locals
<1>2. loc[r].stat \in 0 .. created /\ loc[r].outcome \in Outcomes
  BY <1>1 DEF Locals
<1>3. /\ loc[r].stat # 0 /\ Statistic[loc[r].MsgID] = loc[r].stat /\ loc[r].MsgID \in MsgIDs
      /\ rd[r] = "locked" => mu[loc[r].stat] = r
  BY DEF IInv, Handling
<1> QED BY <1>1, <1>2, <1>3, BoundsNatural DEF Objects

LEMMA TypesStep == IInv /\ [Next]_vars => TypeOK' /\ Values'
<1> SUFFICES ASSUME IInv, [Next]_vars PROVE TypeOK' /\ Values'
  OBVIOUS
<1> USE DEF lockVars, msgVars, statVars, snapVars, Goto
<1>a. TypeOK /\ Values
  BY DEF IInv
<1>b. MaxMsgs \in Nat /\ MaxUpdates \in Nat
  BY BoundsNatural
<1>1. ASSUME NEW r \in Readers, NEW i \in MsgIDs, Receive(r, i) PROVE TypeOK' /\ Values'
  BY <1>a, <1>b, <1>1 DEF Receive, TypeOK, Values
<1>2. ASSUME NEW r \in Readers, RLock(r) PROVE TypeOK' /\ Values'
  BY <1>a, <1>2 DEF RLock, TypeOK, Values
<1>3. ASSUME NEW r \in Readers, Lookup(r) PROVE TypeOK' /\ Values'
  BY <1>a, <1>3 DEF Lookup, TypeOK, Values
<1>4. ASSUME NEW r \in Readers, LookupUnknown(r) PROVE TypeOK' /\ Values'
  BY <1>a, <1>4 DEF LookupUnknown, TypeOK, Values, NoLoc, Outcomes
<1>5. ASSUME NEW r \in Readers, NEW b \in Outcomes, HandleReturn(r, b) PROVE TypeOK' /\ Values'
  <2>1. TypeOK'
    <3>1. loc' \in [Readers -> Locals]
      BY <1>a, <1>5 DEF HandleReturn, TypeOK, Locals
    <3>2. \A x \in Readers : loc'[x].stat = loc[x].stat /\ (x # r => rd'[x] = rd[x])
      BY <1>a, <1>5 DEF HandleReturn, TypeOK
    <3>3. \A o \in Objects : mu[o] # "free" => rd'[mu[o]] = "locked" /\ loc'[mu[o]].stat = o
      BY <1>a, <1>5, <3>2 DEF HandleReturn, TypeOK
    <3> QED BY <1>a, <1>5, <3>1, <3>3 DEF HandleReturn, TypeOK, Locals
  <2>2. Values'
    BY <1>a, <1>5 DEF HandleReturn, Values
  <2> QED BY <2>1, <2>2
<1>6. ASSUME NEW r \in Readers, HandlePanic(r) PROVE TypeOK' /\ Values'
  BY <1>a, <1>6 DEF HandlePanic, TypeOK, Values, NoLoc, Outcomes
<1>7. ASSUME NEW r \in Readers, getOrCreateStatistic(r) PROVE TypeOK' /\ Values'
  <2>1. rd[r] = "entry" /\ loc[r].MsgID \in MsgIDs /\ created \in Nat
    BY <1>a, <1>7 DEF getOrCreateStatistic, IInv, Handling, TypeOK
  <2>2. created' \in Nat /\ created <= created' /\ created' <= MaxMsgs
    BY <1>a, <1>7, <2>1, RoomForOne DEF getOrCreateStatistic, TypeOK
  <2>3. PICK st \in 0 .. created' : loc' = [loc EXCEPT ![r].stat = st]
    BY <1>a, <1>7, <2>1, <2>2 DEF getOrCreateStatistic, TypeOK
  <2>4. Statistic' \in [MsgIDs -> 0 .. created']
    <3>1. Statistic \in [MsgIDs -> 0 .. created']
      BY <1>a, <1>b, <2>1, <2>2 DEF TypeOK
    <3>2. created' = created + 1 => created + 1 \in 0 .. created'
      BY <2>1
    <3> QED BY <1>7, <2>1, <3>1, <3>2 DEF getOrCreateStatistic
  <2>5. loc' \in [Readers -> Locals']
    BY <1>a, <2>2, <2>3 DEF TypeOK, Locals
  <2>6. \A o \in Objects : mu'[o] # "free" => rd'[mu'[o]] = "locked" /\ loc'[mu'[o]].stat = o
    BY <1>a, <1>7, <2>1, <2>3 DEF getOrCreateStatistic, TypeOK
  <2>7. TypeOK'
    BY <1>a, <1>7, <2>2, <2>4, <2>5, <2>6 DEF getOrCreateStatistic, TypeOK, Locals
  <2>8. Values'
    BY <1>a, <1>7, <2>1, <2>2 DEF getOrCreateStatistic, Values
  <2> QED BY <2>7, <2>8
<1>8. ASSUME NEW r \in Readers, AddPacket(r) PROVE TypeOK' /\ Values'
  <2>1. loc[r].stat \in Objects /\ loc[r].outcome \in Outcomes
    BY <1>8, EntryOf DEF AddPacket
  <2>2. packets' \in [Objects -> Counters]
    <3> DEFINE o == loc[r].stat
               b == loc[r].outcome
    <3>1. packets[o] \in Counters
      BY <1>a, <2>1 DEF Values
    <3>2. [packets[o] EXCEPT ![b] = @ + 1] \in Counters
      BY <2>1, <3>1 DEF Counters
    <3>3. packets' = [packets EXCEPT ![o] = [packets[o] EXCEPT ![b] = @ + 1]]
      BY <1>8 DEF AddPacket
    <3> QED BY <1>a, <3>2, <3>3 DEF Values
  <2>3. TypeOK'
    BY <1>a, <1>8, <2>1, ReadersNotFree DEF AddPacket, TypeOK
  <2>4. Values'
    BY <1>a, <1>8, <2>2 DEF AddPacket, Values
  <2> QED BY <2>3, <2>4
<1>9. ASSUME NEW r \in Readers, AddBytes(r) PROVE TypeOK' /\ Values'
  <2>1. /\ loc[r].stat \in Objects /\ loc[r].outcome \in Outcomes
        /\ mu[loc[r].stat] = r
    BY <1>9, EntryOf DEF AddBytes
  <2>2. bytes' \in [Objects -> Counters]
    <3> DEFINE o == loc[r].stat
               b == loc[r].outcome
    <3>1. bytes[o] \in Counters
      BY <1>a, <2>1 DEF Values
    <3>2. [bytes[o] EXCEPT ![b] = @ + DataLen] \in Counters
      BY <2>1, <3>1, DataLenPositive DEF Counters
    <3>3. bytes' = [bytes EXCEPT ![o] = [bytes[o] EXCEPT ![b] = @ + DataLen]]
      BY <1>9 DEF AddBytes
    <3> QED BY <1>a, <3>2, <3>3 DEF Values
  <2>3. NoLoc \in Locals
    BY <1>a DEF NoLoc, Locals, Outcomes, TypeOK
  <2>4. loc' \in [Readers -> Locals]
    BY <1>a, <1>9, <2>3 DEF AddBytes, TypeOK, Locals
  <2>5. \A o \in Objects : mu'[o] # "free" => rd'[mu'[o]] = "locked" /\ loc'[mu'[o]].stat = o
    BY <1>a, <1>9, <2>1 DEF AddBytes, TypeOK
  <2>6. TypeOK'
    BY <1>a, <1>9, <2>4, <2>5 DEF AddBytes, TypeOK, Locals
  <2>7. Values'
    BY <1>a, <1>9, <2>2 DEF AddBytes, Values
  <2> QED BY <2>6, <2>7
<1>10. ASSUME NEW x \in Readers \cup Apps, UpdateStep(x) PROVE TypeOK' /\ Values'
  BY <1>a, <1>10 DEF UpdateStep, Update, TypeOK, Values
<1>11. ASSUME NEW x \in Readers \cup Apps, NEW op \in {"Add", "Remove"}, CallUpdate(x, op)
       PROVE  TypeOK' /\ Values'
  BY <1>a, <1>b, <1>11 DEF CallUpdate, TypeOK, Values
<1>12. ASSUME NEW i \in MsgIDs, SnapFind(i) PROVE TypeOK' /\ Values'
  <2>1. TypeOK' /\ Statistic[i] \in 0 .. created
    BY <1>a, <1>12 DEF SnapFind, TypeOK
  <2>2. [packets |-> Zero, bytes |-> Zero] \in [packets : Counters, bytes : Counters]
    BY DEF Counters, Zero
  <2>3. answer' \in [MsgIDs -> [packets : Counters, bytes : Counters]]
    BY <1>a, <1>12, <2>2 DEF SnapFind, Values
  <2>4. CASE Statistic[i] = 0
    <3>1. snap' = [snap EXCEPT !.calls = @ + 1] /\ UNCHANGED <<UnknownMsg, packets, bytes, created>>
      BY <1>12, <2>4 DEF SnapFind
    <3>2. /\ snap' \in [pc : {"idle", "lock"}, id : MsgIDs \cup {0}, obj : 0 .. created, calls : Nat]
          /\ snap'.pc = "idle"
      BY <1>a, <1>12, <3>1 DEF SnapFind, Values
    <3> QED BY <1>a, <2>1, <2>3, <3>1, <3>2 DEF Values
  <2>5. CASE Statistic[i] # 0
    BY <1>a, <1>12, <2>1, <2>3, <2>5 DEF SnapFind, Values
  <2> QED BY <2>1, <2>4, <2>5
<1>13. ASSUME SnapCopy PROVE TypeOK' /\ Values'
  <2>1. TypeOK'
    BY <1>a, <1>13 DEF SnapCopy, Answer, TypeOK
  <2>2. snap.id \in MsgIDs /\ snap.obj \in Objects /\ snap.calls \in Nat
    <3>1. snap.id \in MsgIDs /\ snap.obj \in 0 .. created /\ snap.obj # 0 /\ snap.calls \in Nat
      BY <1>a, <1>13 DEF SnapCopy, Answer, Values
    <3>2. created \in Nat /\ created <= MaxMsgs
      BY <1>a, <1>b DEF TypeOK
    <3> QED BY <1>b, <3>1, <3>2 DEF Objects
  <2>3. [packets |-> packets[snap.obj], bytes |-> bytes[snap.obj]]
          \in [packets : Counters, bytes : Counters]
    BY <1>a, <2>2 DEF Values
  <2>4. answer' \in [MsgIDs -> [packets : Counters, bytes : Counters]]
    BY <1>a, <1>13, <2>3 DEF SnapCopy, Answer, Values
  <2>5. snap' = [pc |-> "idle", id |-> 0, obj |-> 0, calls |-> snap.calls]
    BY <1>13 DEF SnapCopy, Answer
  <2>6. 0 \in 0 .. created
    BY <1>a DEF TypeOK
  <2>7. UNCHANGED <<UnknownMsg, packets, bytes, created>>
    BY <1>13 DEF SnapCopy, Answer
  <2> QED BY <1>a, <2>1, <2>2, <2>4, <2>5, <2>6, <2>7 DEF Values
<1>14. CASE UNCHANGED vars
  BY <1>a, <1>14 DEF vars, TypeOK, Values
<1> QED BY <1>1, <1>2, <1>3, <1>4, <1>5, <1>6, <1>7, <1>8, <1>9, <1>10, <1>11, <1>12, <1>13, <1>14
        DEF Next, LibraryStep

LEMMA HandlingStep == IInv /\ [Next]_vars => Handling'
<1> SUFFICES ASSUME IInv, [Next]_vars PROVE Handling'
  OBVIOUS
<1> USE DEF lockVars, msgVars, statVars, snapVars, Goto
<1>a. TypeOK /\ Values /\ Handling
  BY DEF IInv
<1>1. ASSUME NEW r \in Readers, NEW i \in MsgIDs, Receive(r, i) PROVE Handling'
  BY <1>a, <1>1 DEF Receive, TypeOK, Handling
<1>2. ASSUME NEW r \in Readers, RLock(r) \/ Lookup(r) PROVE Handling'
  BY <1>a, <1>2 DEF RLock, Lookup, TypeOK, Handling
<1>3. ASSUME NEW r \in Readers, LookupUnknown(r) \/ HandlePanic(r) PROVE Handling'
  BY <1>a, <1>3 DEF LookupUnknown, HandlePanic, TypeOK, Handling
<1>4. ASSUME NEW r \in Readers, NEW b \in Outcomes, HandleReturn(r, b) PROVE Handling'
  BY <1>a, <1>4 DEF HandleReturn, TypeOK, Handling
<1>5. ASSUME NEW r \in Readers, getOrCreateStatistic(r) PROVE Handling'
  <2>1. rd[r] = "entry" /\ loc[r].MsgID \in MsgIDs /\ created \in Nat
    BY <1>a, <1>5, BoundsNatural DEF getOrCreateStatistic, Handling, TypeOK
  <2>2. /\ loc'[r].MsgID = loc[r].MsgID /\ loc'[r].stat = Statistic'[loc[r].MsgID]
        /\ loc'[r].stat # 0 /\ rd'[r] = "lock"
    BY <1>a, <1>5, <2>1 DEF getOrCreateStatistic, TypeOK
  <2>3. \A i \in MsgIDs : Statistic[i] # 0 => Statistic'[i] = Statistic[i]
    BY <1>a, <1>5, <2>1 DEF getOrCreateStatistic, TypeOK
  <2>4. \A x \in Readers \ {r} : loc'[x] = loc[x] /\ rd'[x] = rd[x]
    BY <1>a, <1>5 DEF getOrCreateStatistic, TypeOK
  <2>5. mu' = mu
    BY <1>5 DEF getOrCreateStatistic
  <2> QED BY <1>a, <2>1, <2>2, <2>3, <2>4, <2>5 DEF Handling
<1>6. ASSUME NEW r \in Readers, AddPacket(r) PROVE Handling'
  <2>1. loc[r].stat \in Objects
    BY <1>6, EntryOf DEF AddPacket
  <2>2. \A x \in Readers : rd[x] = "locked" => mu[loc[x].stat] = x
    BY <1>a DEF Handling
  <2>3. \A x \in Readers : rd'[x] = "locked" => mu'[loc[x].stat] = x
    BY <1>a, <1>6, <2>1, <2>2, ReadersNotFree DEF AddPacket, TypeOK
  <2> QED BY <1>a, <1>6, <2>3 DEF AddPacket, TypeOK, Handling
<1>7. ASSUME NEW r \in Readers, AddBytes(r) PROVE Handling'
  <2>1. loc[r].stat \in Objects /\ mu[loc[r].stat] = r
    BY <1>7, EntryOf DEF AddBytes
  <2>2. \A x \in Readers \ {r} : rd'[x] = rd[x] /\ loc'[x] = loc[x]
    BY <1>a, <1>7 DEF AddBytes, TypeOK
  <2>3. rd'[r] = "read" /\ Statistic' = Statistic
    BY <1>a, <1>7 DEF AddBytes, TypeOK
  <2>4. ASSUME NEW x \in Readers \ {r}, rd[x] = "locked" PROVE mu'[loc[x].stat] = x
    <3>1. mu[loc[x].stat] = x
      BY <1>a, <2>4 DEF Handling
    <3>2. loc[x].stat # loc[r].stat
      BY <2>1, <3>1
    <3> QED BY <1>a, <1>7, <3>1, <3>2 DEF AddBytes, TypeOK
  <2> QED BY <1>a, <2>2, <2>3, <2>4 DEF Handling
<1>8. ASSUME NEW x \in Readers \cup Apps, UpdateStep(x) PROVE Handling'
  BY <1>a, <1>8 DEF UpdateStep, Update, Handling
<1>9. ASSUME NEW x \in Readers \cup Apps, NEW op \in {"Add", "Remove"}, CallUpdate(x, op)
      PROVE  Handling'
  BY <1>a, <1>9 DEF CallUpdate, Handling
<1>10. ASSUME NEW i \in MsgIDs, SnapFind(i) PROVE Handling'
  BY <1>a, <1>10 DEF SnapFind, Handling
<1>11. ASSUME SnapCopy PROVE Handling'
  BY <1>a, <1>11 DEF SnapCopy, Answer, Handling
<1>12. CASE UNCHANGED vars
  BY <1>a, <1>12 DEF vars, Handling
<1> QED BY <1>1, <1>2, <1>3, <1>4, <1>5, <1>6, <1>7, <1>8, <1>9, <1>10, <1>11, <1>12
        DEF Next, LibraryStep

LEMMA EntriesStep == IInv /\ [Next]_vars => Entries'
<1> SUFFICES ASSUME IInv, [Next]_vars PROVE Entries'
  OBVIOUS
<1> USE DEF lockVars, msgVars, statVars, snapVars, Goto
<1>a. TypeOK /\ Values /\ Handling /\ Entries /\ created \in Nat
  BY BoundsNatural DEF IInv, TypeOK
<1>1. CASE UNCHANGED <<Statistic, created, packets>>
  BY <1>a, <1>1 DEF Entries
<1>2. ASSUME NEW r \in Readers, getOrCreateStatistic(r) PROVE Entries'
  <2>1. CASE UNCHANGED <<Statistic, created>>
    BY <1>a, <1>2, <2>1 DEF getOrCreateStatistic, Entries
  <2>2. CASE /\ created' = created + 1
             /\ Statistic' = [Statistic EXCEPT ![loc[r].MsgID] = created + 1]
    <3>1. \A i \in MsgIDs : Statistic[i] \in Nat /\ Statistic[i] <= created
      BY <1>a DEF TypeOK
    <3>2. packets' = packets
      BY <1>2 DEF getOrCreateStatistic
    <3>3. \A i \in MsgIDs : Statistic'[i] = IF i = loc[r].MsgID THEN created + 1 ELSE Statistic[i]
      BY <1>a, <2>2 DEF TypeOK
    <3>4. \A i, j \in MsgIDs : Statistic[i] # 0 /\ Statistic[i] = Statistic[j] => i = j
      BY <1>a DEF Entries
    <3>5. \A i, j \in MsgIDs : Statistic'[i] # 0 /\ Statistic'[i] = Statistic'[j] => i = j
      BY <1>a, <3>1, <3>3, <3>4
    <3>6. \A o \in Objects : o > created' => packets'[o] = Zero
      BY <1>a, <2>2, <3>2, BoundsNatural DEF Entries, Objects
    <3> QED BY <3>5, <3>6 DEF Entries
  <2> QED BY <1>2, <2>1, <2>2 DEF getOrCreateStatistic
<1>3. ASSUME NEW r \in Readers, AddPacket(r) PROVE Entries'
  <2>1. loc[r].stat \in Objects /\ ~(loc[r].stat > created)
    BY <1>a, <1>3, EntryOf, BoundsNatural DEF AddPacket, TypeOK, Objects
  <2>2. \A o \in Objects : o # loc[r].stat => packets'[o] = packets[o]
    BY <1>a, <1>3 DEF AddPacket, Values
  <2> QED BY <1>a, <1>3, <2>1, <2>2 DEF AddPacket, Entries
<1>4. ASSUME NEW r \in Readers,
             \/ RLock(r) \/ Lookup(r) \/ LookupUnknown(r) \/ HandlePanic(r) \/ AddBytes(r)
             \/ \E i \in MsgIDs : Receive(r, i)
             \/ \E b \in Outcomes : HandleReturn(r, b)
      PROVE  UNCHANGED <<Statistic, created, packets>>
  BY <1>4 DEF RLock, Lookup, LookupUnknown, HandlePanic, AddBytes, Receive, HandleReturn
<1>5. ASSUME NEW x \in Readers \cup Apps,
             UpdateStep(x) \/ \E op \in {"Add", "Remove"} : CallUpdate(x, op)
      PROVE  UNCHANGED <<Statistic, created, packets>>
  BY <1>5 DEF UpdateStep, Update, CallUpdate
<1>6. ASSUME SnapCopy \/ \E i \in MsgIDs : SnapFind(i)
      PROVE  UNCHANGED <<Statistic, created, packets>>
  BY <1>6 DEF SnapCopy, Answer, SnapFind
<1>7. CASE UNCHANGED vars
  BY <1>1, <1>7 DEF vars
<1> QED BY <1>1, <1>2, <1>3, <1>4, <1>5, <1>6, <1>7 DEF Next, LibraryStep

(***************************************************************************)
(* Counting.                                                               *)
(***************************************************************************)
LEMMA RoomStep == IInv /\ [Next]_vars => Room'
<1> SUFFICES ASSUME IInv, [Next]_vars PROVE Room'
  OBVIOUS
<1> USE DEF lockVars, msgVars, statVars, snapVars, Goto
<1>a. /\ TypeOK /\ Room /\ created \in Nat /\ received \in Nat /\ UnknownMsg \in Nat
      /\ IsFiniteSet(Before) /\ Cardinality(Before) \in Nat
      /\ UnknownMsg + created + Cardinality(Before) <= received
  BY BoundsNatural, FS_CardinalityType DEF IInv, TypeOK, Values, Room
<1>1. CASE UNCHANGED <<UnknownMsg, created, received>> /\ Before' = Before
  BY <1>a, <1>1 DEF Room
<1>2. ASSUME NEW r \in Readers, NEW i \in MsgIDs, Receive(r, i) PROVE Room'
  <2>1. Before' = Before \cup {r} /\ r \notin Before
    BY <1>a, <1>2 DEF Receive, TypeOK, Before
  <2>2. IsFiniteSet(Before') /\ Cardinality(Before') = Cardinality(Before) + 1
    BY <1>a, <2>1, FS_AddElement
  <2>3. UNCHANGED <<UnknownMsg, created>> /\ received' = received + 1
    BY <1>2 DEF Receive
  <2> QED BY <1>a, <2>2, <2>3 DEF Room
<1>3. ASSUME NEW r \in Readers, RLock(r) \/ Lookup(r) \/ AddPacket(r) \/ AddBytes(r)
      PROVE  UNCHANGED <<UnknownMsg, created, received>> /\ Before' = Before
  BY <1>a, <1>3 DEF RLock, Lookup, AddPacket, AddBytes, TypeOK, Before
<1>4. ASSUME NEW r \in Readers, NEW b \in Outcomes, HandleReturn(r, b)
      PROVE  UNCHANGED <<UnknownMsg, created, received>> /\ Before' = Before
  BY <1>a, <1>4 DEF HandleReturn, TypeOK, Before
<1>5. ASSUME NEW r \in Readers, LookupUnknown(r) \/ HandlePanic(r) \/ getOrCreateStatistic(r)
      PROVE  Room'
  <2>1. Before' = Before \ {r} /\ r \in Before
    BY <1>a, <1>5 DEF LookupUnknown, HandlePanic, getOrCreateStatistic, TypeOK, Before
  <2>2. IsFiniteSet(Before') /\ Cardinality(Before') = Cardinality(Before) - 1
    BY <1>a, <2>1, FS_RemoveElement
  <2>3. /\ received' = received
        /\ \/ UNCHANGED <<UnknownMsg, created>>
           \/ UnknownMsg' = UnknownMsg + 1 /\ created' = created
           \/ UnknownMsg' = UnknownMsg /\ created' = created + 1
    BY <1>5 DEF LookupUnknown, HandlePanic, getOrCreateStatistic
  <2> QED BY <1>a, <2>2, <2>3 DEF Room
<1>6. ASSUME NEW x \in Readers \cup Apps,
             UpdateStep(x) \/ \E op \in {"Add", "Remove"} : CallUpdate(x, op)
      PROVE  UNCHANGED <<UnknownMsg, created, received>> /\ Before' = Before
  BY <1>6 DEF UpdateStep, Update, CallUpdate, Before
<1>7. ASSUME SnapCopy \/ \E i \in MsgIDs : SnapFind(i)
      PROVE  UNCHANGED <<UnknownMsg, created, received>> /\ Before' = Before
  BY <1>7 DEF SnapCopy, Answer, SnapFind, Before
<1>8. CASE UNCHANGED vars
  BY <1>1, <1>8 DEF vars, Before
<1> QED BY <1>1, <1>2, <1>3, <1>4, <1>5, <1>6, <1>7, <1>8 DEF Next, LibraryStep

\* The packets counted in the entries of a map S with the counters P.
EntryPackets(S, P) ==
  UNION {UNION {{<<i, b, k>> : k \in 1 .. P[S[i]][b]} : b \in Outcomes} :
           i \in {j \in MsgIDs : S[j] # 0}}

Counted(S, P, t) ==
  \E i \in MsgIDs, b \in Outcomes :
    S[i] # 0 /\ \E k \in 1 .. P[S[i]][b] : t = <<i, b, k>>

LEMMA InEntries ==
  ASSUME NEW S, NEW P, NEW t
  PROVE  t \in EntryPackets(S, P) <=> Counted(S, P, t)
<1> DEFINE M == {j \in MsgIDs : S[j] # 0}
           C(i, b) == {<<i, b, k>> : k \in 1 .. P[S[i]][b]}
           E(i) == UNION {C(i, b) : b \in Outcomes}
           U == UNION {E(i) : i \in M}
<1>1. ASSUME NEW i, NEW b
      PROVE  t \in C(i, b) <=> \E k \in 1 .. P[S[i]][b] : t = <<i, b, k>>
  OBVIOUS
<1> HIDE DEF C
<1>2. ASSUME NEW i PROVE t \in E(i) <=> \E b \in Outcomes : t \in C(i, b)
  BY Zenon
<1> HIDE DEF E
<1>3. t \in U <=> \E i \in M : t \in E(i)
  BY Zenon
<1> HIDE DEF U
<1>4. t \in U <=> \E i \in MsgIDs, b \in Outcomes :
                    S[i] # 0 /\ \E k \in 1 .. P[S[i]][b] : t = <<i, b, k>>
  BY <1>1, <1>2, <1>3, Zenon
<1> QED BY <1>4 DEF C, E, U, EntryPackets, Counted

LEMMA Recorded ==
  ASSUME NEW t
  PROVE  /\ t \in RecordedPackets <=> Counted(Statistic, packets, t)
         /\ t \in RecordedPackets' <=> Counted(Statistic', packets', t)
<1>1. /\ RecordedPackets = EntryPackets(Statistic, packets)
      /\ RecordedPackets' = EntryPackets(Statistic', packets')
  BY DEF RecordedPackets, PacketsOf, EntryPackets
<1> QED BY <1>1, InEntries


\* A new entry holds nothing yet.
LEMMA CreateRecordsNothing ==
  ASSUME IInv, NEW r \in Readers, getOrCreateStatistic(r)
  PROVE  RecordedPackets' = RecordedPackets
<1>1. packets' = packets /\ rd[r] = "entry" /\ created \in Nat
  BY BoundsNatural DEF getOrCreateStatistic, Goto, IInv, TypeOK
<1>2. CASE Statistic' = Statistic
  BY <1>1, <1>2 DEF RecordedPackets, PacketsOf
<1>3. CASE /\ Statistic[loc[r].MsgID] = 0
           /\ Statistic' = [Statistic EXCEPT ![loc[r].MsgID] = created + 1]
  <2>1. \A b \in Outcomes : packets[created + 1][b] = 0
    <3>1. created + 1 \in Objects
      BY <1>1, RoomForOne
    <3>2. packets[created + 1] = Zero
      BY <1>1, <3>1 DEF IInv, Entries
    <3> QED BY <3>2 DEF Zero
  <2>2. \A i \in MsgIDs : Statistic'[i] = IF i = loc[r].MsgID THEN created + 1 ELSE Statistic[i]
    BY <1>3 DEF IInv, TypeOK
  <2>3. ASSUME NEW t PROVE t \in RecordedPackets' <=> t \in RecordedPackets
    <3>1. t \in RecordedPackets' <=>
            \E i \in MsgIDs, b \in Outcomes :
              /\ Statistic'[i] # 0
              /\ \E k \in 1 .. packets[Statistic'[i]][b] : t = <<i, b, k>>
      BY <1>1, Recorded DEF Counted
    <3>2. ASSUME NEW i \in MsgIDs, NEW b \in Outcomes, NEW k
          PROVE  (Statistic'[i] # 0 /\ k \in 1 .. packets[Statistic'[i]][b])
                 <=> (Statistic[i] # 0 /\ k \in 1 .. packets[Statistic[i]][b])
      BY <1>3, <2>1, <2>2
    <3>3. t \in RecordedPackets <=>
            \E i \in MsgIDs, b \in Outcomes :
              /\ Statistic[i] # 0
              /\ \E k \in 1 .. packets[Statistic[i]][b] : t = <<i, b, k>>
      BY Recorded DEF Counted
    <3> QED BY <3>1, <3>2, <3>3
  <2> QED BY <2>3
<1> QED BY <1>2, <1>3 DEF getOrCreateStatistic

\* AddPacket records one packet more.
LEMMA AddRecordsOne ==
  ASSUME IInv, NEW r \in Readers, AddPacket(r)
  PROVE  \E x : x \notin RecordedPackets /\ RecordedPackets' = RecordedPackets \cup {x}
<1> DEFINE m == loc[r].MsgID
           o == loc[r].stat
           c == loc[r].outcome
           n == packets[o][c] + 1
           x == <<m, c, n>>
<1>1. rd[r] = "lock" /\ Statistic' = Statistic
  BY DEF AddPacket, Goto
<1>2. /\ o \in Objects /\ c \in Outcomes /\ m \in MsgIDs /\ o # 0 /\ Statistic[m] = o
  BY <1>1, EntryOf
<1>3. \A p \in Objects, b \in Outcomes : packets[p][b] \in Nat
  BY DEF IInv, Values, Counters
<1>4. \A p \in Objects, b \in Outcomes :
        packets'[p][b] = IF p = o /\ b = c THEN n ELSE packets[p][b]
  BY <1>2 DEF AddPacket, IInv, Values, Counters
<1>5. \A i \in MsgIDs : Statistic[i] # 0 => Statistic[i] \in Objects
  BY BoundsNatural DEF IInv, TypeOK, Objects
<1>6. \A i \in MsgIDs : Statistic[i] = o => i = m
  BY <1>2 DEF IInv, Entries
<1>7. n \in Nat /\ 1 .. n = (1 .. packets[o][c]) \cup {n} /\ n \notin 1 .. packets[o][c]
  BY <1>2, <1>3
<1> HIDE DEF m, o, c, n
<1>8. x \notin RecordedPackets
  <2> SUFFICES ASSUME x \in RecordedPackets PROVE FALSE
    OBVIOUS
  <2>1. PICK i \in MsgIDs, b \in Outcomes :
          /\ Statistic[i] # 0
          /\ \E k \in 1 .. packets[Statistic[i]][b] : x = <<i, b, k>>
    BY Recorded DEF Counted
  <2>2. i = m /\ b = c /\ n \in 1 .. packets[Statistic[i]][b]
    BY <2>1
  <2> QED BY <1>2, <1>7, <2>2
<1>9. ASSUME NEW t PROVE t \in RecordedPackets' <=> t \in RecordedPackets \/ t = x
  <2>1. t \in RecordedPackets' <=>
          \E i \in MsgIDs, b \in Outcomes :
            /\ Statistic[i] # 0
            /\ \E k \in 1 .. packets'[Statistic[i]][b] : t = <<i, b, k>>
    BY <1>1, Recorded DEF Counted
  <2>2. ASSUME NEW i \in MsgIDs, NEW b \in Outcomes, Statistic[i] # 0, NEW k
        PROVE  k \in 1 .. packets'[Statistic[i]][b]
               <=> k \in 1 .. packets[Statistic[i]][b] \/ (i = m /\ b = c /\ k = n)
    <3>1. CASE i = m /\ b = c
      BY <1>2, <1>4, <1>7, <3>1
    <3>2. CASE ~(i = m /\ b = c)
      BY <1>4, <1>5, <1>6, <2>2, <3>2
    <3> QED BY <3>1, <3>2
  <2>a. t \in RecordedPackets <=>
          \E i \in MsgIDs, b \in Outcomes :
            /\ Statistic[i] # 0
            /\ \E k \in 1 .. packets[Statistic[i]][b] : t = <<i, b, k>>
    BY Recorded DEF Counted
  <2>3. t \in RecordedPackets' => t \in RecordedPackets \/ t = x
    BY <2>1, <2>2, <2>a
  <2>4. t \in RecordedPackets => t \in RecordedPackets'
    BY <2>1, <2>2, <2>a
  <2>5. t = x => t \in RecordedPackets'
    <3>1. n \in 1 .. packets'[Statistic[m]][c]
      BY <1>2, <2>2
    <3> QED BY <1>2, <2>1, <3>1
  <2> QED BY <2>3, <2>4, <2>5
<1>10. RecordedPackets' = RecordedPackets \cup {x}
  BY <1>9
<1> QED BY <1>8, <1>10

LEMMA CountStep == IInv /\ [Next]_vars => Count'
<1> SUFFICES ASSUME IInv, [Next]_vars PROVE Count'
  OBVIOUS
<1> USE DEF lockVars, msgVars, statVars, snapVars, Goto
<1>a. /\ TypeOK /\ UnknownMsg \in Nat /\ received \in Nat
      /\ IsFiniteSet(RecordedPackets) /\ Cardinality(RecordedPackets) \in Nat
      /\ IsFiniteSet(Uncounted) /\ Cardinality(Uncounted) \in Nat
      /\ received = UnknownMsg + Cardinality(RecordedPackets) + Cardinality(Uncounted)
  BY BoundsNatural, FS_CardinalityType DEF IInv, TypeOK, Values, Count
<1>1. CASE UNCHANGED <<UnknownMsg, received, RecordedPackets, Uncounted>>
  BY <1>a, <1>1 DEF Count
<1>b. UNCHANGED <<Statistic, packets>> => RecordedPackets' = RecordedPackets
  BY DEF RecordedPackets, PacketsOf
<1>2. ASSUME NEW r \in Readers, NEW i \in MsgIDs, Receive(r, i) PROVE Count'
  <2>1. Uncounted' = Uncounted \cup {r} /\ r \notin Uncounted
    BY <1>a, <1>2 DEF Receive, TypeOK, Uncounted
  <2>2. IsFiniteSet(Uncounted') /\ Cardinality(Uncounted') = Cardinality(Uncounted) + 1
    BY <1>a, <2>1, FS_AddElement
  <2>3. UnknownMsg' = UnknownMsg /\ received' = received + 1 /\ RecordedPackets' = RecordedPackets
    BY <1>2, <1>b DEF Receive
  <2> QED BY <1>a, <2>2, <2>3 DEF Count
<1>3. ASSUME NEW r \in Readers, RLock(r) \/ Lookup(r) \/ HandlePanic(r) \/ AddBytes(r)
      PROVE  UNCHANGED <<UnknownMsg, received, RecordedPackets, Uncounted>>
  <2>1. UNCHANGED <<UnknownMsg, received, Statistic, packets>>
    BY <1>3 DEF RLock, Lookup, HandlePanic, AddBytes
  <2>2. Uncounted' = Uncounted
    BY <1>a, <1>3 DEF RLock, Lookup, HandlePanic, AddBytes, TypeOK, Uncounted
  <2> QED BY <1>b, <2>1, <2>2
<1>4. ASSUME NEW r \in Readers, NEW b \in Outcomes, HandleReturn(r, b)
      PROVE  UNCHANGED <<UnknownMsg, received, RecordedPackets, Uncounted>>
  BY <1>a, <1>b, <1>4 DEF HandleReturn, TypeOK, Uncounted
<1>5. ASSUME NEW r \in Readers, LookupUnknown(r) \/ AddPacket(r) PROVE Count'
  <2>1. Uncounted' = Uncounted \ {r} /\ r \in Uncounted
    BY <1>a, <1>5 DEF LookupUnknown, AddPacket, TypeOK, Uncounted
  <2>2. IsFiniteSet(Uncounted') /\ Cardinality(Uncounted') = Cardinality(Uncounted) - 1
    BY <1>a, <2>1, FS_RemoveElement
  <2>3. CASE LookupUnknown(r)
    <3>1. /\ UnknownMsg' = UnknownMsg + 1 /\ received' = received
          /\ RecordedPackets' = RecordedPackets
      BY <1>b, <2>3 DEF LookupUnknown
    <3> QED BY <1>a, <2>2, <3>1 DEF Count
  <2>4. CASE AddPacket(r)
    <3>1. PICK x : x \notin RecordedPackets /\ RecordedPackets' = RecordedPackets \cup {x}
      BY <2>4, AddRecordsOne
    <3>2. /\ IsFiniteSet(RecordedPackets')
          /\ Cardinality(RecordedPackets') = Cardinality(RecordedPackets) + 1
      BY <1>a, <3>1, FS_AddElement
    <3>3. UNCHANGED <<UnknownMsg, received>>
      BY <2>4 DEF AddPacket
    <3> QED BY <1>a, <2>2, <3>2, <3>3 DEF Count
  <2> QED BY <1>5, <2>3, <2>4
<1>6. ASSUME NEW r \in Readers, getOrCreateStatistic(r)
      PROVE  UNCHANGED <<UnknownMsg, received, RecordedPackets, Uncounted>>
  <2>1. UNCHANGED <<UnknownMsg, received>> /\ Uncounted' = Uncounted
    BY <1>a, <1>6 DEF getOrCreateStatistic, TypeOK, Uncounted
  <2> QED BY <1>6, <2>1, CreateRecordsNothing
<1>7. ASSUME NEW x \in Readers \cup Apps,
             UpdateStep(x) \/ \E op \in {"Add", "Remove"} : CallUpdate(x, op)
      PROVE  UNCHANGED <<UnknownMsg, received, RecordedPackets, Uncounted>>
  BY <1>b, <1>7 DEF UpdateStep, Update, CallUpdate, Uncounted
<1>8. ASSUME SnapCopy \/ \E i \in MsgIDs : SnapFind(i)
      PROVE  UNCHANGED <<UnknownMsg, received, RecordedPackets, Uncounted>>
  BY <1>b, <1>8 DEF SnapCopy, Answer, SnapFind, Uncounted
<1>9. CASE UNCHANGED vars
  BY <1>1, <1>9, <1>b DEF vars, Uncounted
<1> QED BY <1>1, <1>2, <1>3, <1>4, <1>5, <1>6, <1>7, <1>8, <1>9 DEF Next, LibraryStep

(***************************************************************************)
(* Packets and their bytes.                                                *)
(***************************************************************************)
LEMMA OneMore ==
  ASSUME NEW p \in Nat PROVE DataLen * (p + 1) = DataLen * p + DataLen
BY DataLenPositive

LEMMA BalanceStep == IInv /\ [Next]_vars => Balance'
<1> SUFFICES ASSUME IInv, [Next]_vars PROVE Balance'
  OBVIOUS
<1> USE DEF lockVars, msgVars, statVars, snapVars, Goto
<1>a. TypeOK /\ Values /\ Balance
  BY DEF IInv
\* Whoever does not hold a lock may change its locals.
<1>1. ASSUME UNCHANGED <<packets, bytes, mu>>,
             \A r \in Readers : rd[r] = "locked" => loc'[r] = loc[r]
      PROVE  Balance'
  <2>1. \A o \in Objects : mu[o] # "free" => loc'[mu[o]] = loc[mu[o]]
    BY <1>a, <1>1 DEF TypeOK
  <2> QED BY <1>a, <1>1, <2>1 DEF Balance
<1>2. ASSUME NEW r \in Readers,
             \/ RLock(r) \/ Lookup(r) \/ LookupUnknown(r) \/ HandlePanic(r)
             \/ getOrCreateStatistic(r)
      PROVE  Balance'
  BY <1>a, <1>1, <1>2 DEF RLock, Lookup, LookupUnknown, HandlePanic, getOrCreateStatistic, TypeOK
<1>3. ASSUME NEW r \in Readers, NEW i \in MsgIDs, Receive(r, i) PROVE Balance'
  BY <1>a, <1>1, <1>3 DEF Receive, TypeOK
<1>4. ASSUME NEW r \in Readers, NEW b \in Outcomes, HandleReturn(r, b) PROVE Balance'
  BY <1>a, <1>1, <1>4 DEF HandleReturn, TypeOK
<1>5. ASSUME NEW r \in Readers, AddPacket(r) PROVE Balance'
  <2> DEFINE e == loc[r].stat
             c == loc[r].outcome
  <2>1. e \in Objects /\ c \in Outcomes
    BY <1>5, EntryOf DEF AddPacket
  <2>2. /\ mu[e] = "free" /\ UNCHANGED <<loc, bytes>>
        /\ \A o \in Objects : mu'[o] = IF o = e THEN r ELSE mu[o]
        /\ \A o \in Objects, b \in Outcomes :
             packets'[o][b] = IF o = e /\ b = c THEN packets[o][b] + 1 ELSE packets[o][b]
    BY <1>a, <1>5, <2>1 DEF AddPacket, TypeOK, Values, Counters
  <2>3. \A o \in Objects, b \in Outcomes : packets[o][b] \in Nat /\ bytes[o][b] \in Nat
    BY <1>a DEF Values, Counters
  <2>4. loc[r].outcome = c
    OBVIOUS
  <2> HIDE DEF e, c
  <2>5. ASSUME NEW o \in Objects, NEW b \in Outcomes
        PROVE  IF mu'[o] # "free" /\ loc'[mu'[o]].outcome = b
                 THEN bytes'[o][b] + DataLen = DataLen * packets'[o][b]
                 ELSE bytes'[o][b] = DataLen * packets'[o][b]
    <3>0. IF mu[o] # "free" /\ loc[mu[o]].outcome = b
            THEN bytes[o][b] + DataLen = DataLen * packets[o][b]
            ELSE bytes[o][b] = DataLen * packets[o][b]
      BY <1>a DEF Balance
    <3>1. CASE o # e
      BY <2>2, <3>0, <3>1
    <3>2. CASE o = e /\ b # c
      BY <2>2, <2>4, <3>0, <3>2
    <3>3. CASE o = e /\ b = c
      <4>1. bytes[o][b] = DataLen * packets[o][b]
        BY <2>2, <3>0, <3>3
      <4>2. mu'[o] = r /\ packets'[o][b] = packets[o][b] + 1 /\ bytes' = bytes
        BY <2>2, <3>3
      <4>3. DataLen * (packets[o][b] + 1) = DataLen * packets[o][b] + DataLen
        BY <2>3, OneMore
      <4> QED BY <2>2, <2>4, <3>3, <4>1, <4>2, <4>3, ReadersNotFree
    <3> QED BY <3>1, <3>2, <3>3
  <2> QED BY <2>5 DEF Balance
<1>6. ASSUME NEW r \in Readers, AddBytes(r) PROVE Balance'
  <2> DEFINE e == loc[r].stat
             c == loc[r].outcome
  <2>1. e \in Objects /\ c \in Outcomes /\ mu[e] = r
    BY <1>6, EntryOf DEF AddBytes
  <2>2. /\ packets' = packets
        /\ \A o \in Objects : mu'[o] = IF o = e THEN "free" ELSE mu[o]
        /\ \A x \in Readers \ {r} : loc'[x] = loc[x]
        /\ \A o \in Objects, b \in Outcomes :
             bytes'[o][b] = IF o = e /\ b = c THEN bytes[o][b] + DataLen ELSE bytes[o][b]
    BY <1>a, <1>6, <2>1 DEF AddBytes, TypeOK, Values, Counters
  <2>3. \A o \in Objects \ {e} : mu[o] # "free" => mu[o] \in Readers \ {r}
    BY <1>a DEF TypeOK
  <2>4. loc[r].outcome = c
    OBVIOUS
  <2> HIDE DEF e, c
  <2>5. ASSUME NEW o \in Objects, NEW b \in Outcomes
        PROVE  IF mu'[o] # "free" /\ loc'[mu'[o]].outcome = b
                 THEN bytes'[o][b] + DataLen = DataLen * packets'[o][b]
                 ELSE bytes'[o][b] = DataLen * packets'[o][b]
    <3>0. IF mu[o] # "free" /\ loc[mu[o]].outcome = b
            THEN bytes[o][b] + DataLen = DataLen * packets[o][b]
            ELSE bytes[o][b] = DataLen * packets[o][b]
      BY <1>a DEF Balance
    <3>1. CASE o # e
      BY <2>2, <2>3, <3>0, <3>1
    <3>2. CASE o = e
      BY <2>1, <2>2, <2>4, <3>0, <3>2, ReadersNotFree
    <3> QED BY <3>1, <3>2
  <2> QED BY <2>5 DEF Balance
<1>7. ASSUME NEW x \in Readers \cup Apps,
             UpdateStep(x) \/ \E op \in {"Add", "Remove"} : CallUpdate(x, op)
      PROVE  Balance'
  BY <1>1, <1>7 DEF UpdateStep, Update, CallUpdate
<1>8. ASSUME SnapCopy \/ \E i \in MsgIDs : SnapFind(i) PROVE Balance'
  BY <1>1, <1>8 DEF SnapCopy, Answer, SnapFind
<1>9. CASE UNCHANGED vars
  BY <1>1, <1>9 DEF vars
<1> QED BY <1>2, <1>3, <1>4, <1>5, <1>6, <1>7, <1>8, <1>9 DEF Next, LibraryStep

LEMMA SnapStep == IInv /\ [Next]_vars => SnapshotConsistent'
<1> SUFFICES ASSUME IInv, [Next]_vars PROVE SnapshotConsistent'
  OBVIOUS
<1> USE DEF lockVars, msgVars, statVars, snapVars, Goto
<1>a. TypeOK /\ Values /\ Balance /\ SnapshotConsistent
  BY DEF IInv
<1>1. CASE UNCHANGED answer
  BY <1>a, <1>1 DEF SnapshotConsistent
<1>2. ASSUME NEW i \in MsgIDs, SnapFind(i) PROVE SnapshotConsistent'
  <2>1. \A b \in Outcomes : Zero[b] = DataLen * Zero[b]
    BY DataLenPositive DEF Zero
  <2>2. CASE Statistic[i] = 0
    <3>1. \A j \in MsgIDs : answer'[j] = IF j = i THEN [packets |-> Zero, bytes |-> Zero] ELSE answer[j]
      BY <1>a, <1>2, <2>2 DEF SnapFind, Values
    <3> QED BY <1>a, <2>1, <3>1 DEF SnapshotConsistent
  <2>3. CASE Statistic[i] # 0
    BY <1>1, <1>2, <2>3 DEF SnapFind
  <2> QED BY <2>2, <2>3
<1>3. ASSUME SnapCopy PROVE SnapshotConsistent'
  <2>1. snap.id \in MsgIDs /\ snap.obj \in Objects /\ mu[snap.obj] = "free"
    <3>1. /\ snap.id \in MsgIDs /\ snap.obj \in 0 .. created /\ snap.obj # 0
          /\ mu[snap.obj] = "free"
      BY <1>a, <1>3 DEF SnapCopy, Answer, Values
    <3>2. created \in Nat /\ created <= MaxMsgs
      BY <1>a, BoundsNatural DEF TypeOK
    <3> QED BY <3>1, <3>2, BoundsNatural DEF Objects
  <2>2. \A b \in Outcomes : bytes[snap.obj][b] = DataLen * packets[snap.obj][b]
    BY <1>a, <2>1 DEF Balance
  <2>3. \A j \in MsgIDs : answer'[j] = IF j = snap.id THEN [packets |-> packets[snap.obj],
                                                            bytes |-> bytes[snap.obj]]
                                       ELSE answer[j]
    BY <1>a, <1>3 DEF SnapCopy, Answer, Values
  <2> QED BY <1>a, <2>2, <2>3 DEF SnapshotConsistent
<1>4. ASSUME NEW r \in Readers,
             \/ LibraryStep(r) \/ HandlePanic(r) \/ \E i \in MsgIDs : Receive(r, i)
             \/ \E b \in Outcomes : HandleReturn(r, b)
      PROVE  UNCHANGED answer
  BY <1>4 DEF LibraryStep, RLock, Lookup, LookupUnknown, HandlePanic, getOrCreateStatistic,
              AddPacket, AddBytes, Receive, HandleReturn
<1>5. ASSUME NEW x \in Readers \cup Apps,
             UpdateStep(x) \/ \E op \in {"Add", "Remove"} : CallUpdate(x, op)
      PROVE  UNCHANGED answer
  BY <1>5 DEF UpdateStep, Update, CallUpdate
<1>6. CASE UNCHANGED vars
  BY <1>1, <1>6 DEF vars
<1> QED BY <1>1, <1>2, <1>3, <1>4, <1>5, <1>6 DEF Next

LEMMA Inductive == Safety => []IInv
<1>1. IInv /\ [Next]_vars => IInv'
  BY TypesStep, HandlingStep, EntriesStep, RoomStep, CountStep, BalanceStep, SnapStep DEF IInv
<1> QED BY <1>1, InitHolds, PTL DEF Safety

(***************************************************************************)
(* The theorems.                                                           *)
(***************************************************************************)
\* The variables have their types, there is room for every entry that is
\* created, and a lock is held only by a read loop between its two counters.
THEOREM TypeCorrect == Safety => []TypeOK
<1>1. IInv => TypeOK
  BY DEF IInv
<1> QED BY <1>1, Inductive, PTL

\* No message is lost from the statistics or counted twice, however the read
\* loops race to create an entry: each one received is counted as unknown, is
\* recorded in an entry of the map, or is still being handled.
THEOREM CountCorrect == Safety => []EveryMessageCounted
<1>1. IInv => EveryMessageCounted
  BY DEF IInv, Count, Uncounted, EveryMessageCounted
<1> QED BY <1>1, Inductive, PTL

\* A snapshot never shows a packet without its bytes.
THEOREM SnapshotCorrect == Safety => []SnapshotConsistent
<1>1. IInv => SnapshotConsistent
  BY DEF IInv
<1> QED BY <1>1, Inductive, PTL

(***************************************************************************)
(* Answers over time.                                                      *)
(***************************************************************************)
\* An entry stays in the map and its counters only grow.
LEMMA EntriesStay ==
  ASSUME IInv, [Next]_vars
  PROVE  /\ \A i \in MsgIDs : Statistic[i] # 0 => Statistic'[i] = Statistic[i]
         /\ \A o \in Objects, b \in Outcomes :
              packets[o][b] <= packets'[o][b] /\ bytes[o][b] <= bytes'[o][b]
<1> USE DEF lockVars, msgVars, statVars, snapVars, Goto
<1> DEFINE Stay == /\ \A i \in MsgIDs : Statistic[i] # 0 => Statistic'[i] = Statistic[i]
                   /\ \A o \in Objects, b \in Outcomes :
                        packets[o][b] <= packets'[o][b] /\ bytes[o][b] <= bytes'[o][b]
<1>a. \A o \in Objects, b \in Outcomes : packets[o][b] \in Nat /\ bytes[o][b] \in Nat
  BY DEF IInv, Values, Counters
<1>1. CASE UNCHANGED <<Statistic, packets, bytes>>
  BY <1>a, <1>1
<1>2. ASSUME NEW r \in Readers, getOrCreateStatistic(r) PROVE Stay
  BY <1>a, <1>2 DEF getOrCreateStatistic, IInv, TypeOK
<1>3. ASSUME NEW r \in Readers, AddPacket(r) PROVE Stay
  <2>1. loc[r].stat \in Objects /\ loc[r].outcome \in Outcomes
    BY <1>3, EntryOf DEF AddPacket
  <2>2. \A o \in Objects, b \in Outcomes :
          packets'[o][b] = IF o = loc[r].stat /\ b = loc[r].outcome
                             THEN packets[o][b] + 1 ELSE packets[o][b]
    BY <1>3, <2>1 DEF AddPacket, IInv, Values, Counters
  <2>3. UNCHANGED <<Statistic, bytes>>
    BY <1>3 DEF AddPacket
  <2> QED BY <1>a, <2>2, <2>3
<1>4. ASSUME NEW r \in Readers, AddBytes(r) PROVE Stay
  <2>1. loc[r].stat \in Objects /\ loc[r].outcome \in Outcomes
    BY <1>4, EntryOf DEF AddBytes
  <2>2. \A o \in Objects, b \in Outcomes :
          bytes'[o][b] = IF o = loc[r].stat /\ b = loc[r].outcome
                           THEN bytes[o][b] + DataLen ELSE bytes[o][b]
    BY <1>4, <2>1 DEF AddBytes, IInv, Values, Counters
  <2>3. UNCHANGED <<Statistic, packets>>
    BY <1>4 DEF AddBytes
  <2> QED BY <1>a, <2>2, <2>3, DataLenPositive
<1>5. ASSUME NEW r \in Readers,
             \/ RLock(r) \/ Lookup(r) \/ LookupUnknown(r) \/ HandlePanic(r)
             \/ \E i \in MsgIDs : Receive(r, i)
             \/ \E b \in Outcomes : HandleReturn(r, b)
      PROVE  UNCHANGED <<Statistic, packets, bytes>>
  BY <1>5 DEF RLock, Lookup, LookupUnknown, HandlePanic, Receive, HandleReturn
<1>6. ASSUME NEW x \in Readers \cup Apps,
             UpdateStep(x) \/ \E op \in {"Add", "Remove"} : CallUpdate(x, op)
      PROVE  UNCHANGED <<Statistic, packets, bytes>>
  BY <1>6 DEF UpdateStep, Update, CallUpdate
<1>7. ASSUME SnapCopy \/ \E i \in MsgIDs : SnapFind(i)
      PROVE  UNCHANGED <<Statistic, packets, bytes>>
  BY <1>7 DEF SnapCopy, Answer, SnapFind
<1>8. CASE UNCHANGED vars
  BY <1>1, <1>8 DEF vars
<1> HIDE DEF Stay
<1>9. Stay
  <2>1. UNCHANGED <<Statistic, packets, bytes>> => Stay
    BY <1>1 DEF Stay
  <2>2. UNCHANGED vars => Stay
    BY <1>8 DEF Stay
  <2> QED BY <1>2, <1>3, <1>4, <1>5, <1>6, <1>7, <2>1, <2>2 DEF Next, LibraryStep
<1> QED BY <1>9 DEF Stay

\* The last answer for an id shows no more than its entry has, nothing if there
\* is none, and a GetStatistic call in front of an entry's lock has the right
\* entry.
Behind ==
  /\ snap.pc = "lock" => Statistic[snap.id] = snap.obj
  /\ \A i \in MsgIDs, b \in Outcomes :
       IF Statistic[i] = 0
         THEN answer[i].packets[b] = 0 /\ answer[i].bytes[b] = 0
         ELSE /\ answer[i].packets[b] <= packets[Statistic[i]][b]
              /\ answer[i].bytes[b] <= bytes[Statistic[i]][b]

Grow ==
  \A i \in MsgIDs, b \in Outcomes :
    answer[i].packets[b] <= answer'[i].packets[b] /\ answer[i].bytes[b] <= answer'[i].bytes[b]

LEMMA BehindStep == IInv /\ Behind /\ [Next]_vars => Behind' /\ Grow
<1> SUFFICES ASSUME IInv, Behind, [Next]_vars PROVE Behind' /\ Grow
  OBVIOUS
<1> USE DEF lockVars, msgVars, statVars, snapVars, Goto
<1>a. /\ \A o \in Objects, b \in Outcomes : packets[o][b] \in Nat /\ bytes[o][b] \in Nat
      /\ \A i \in MsgIDs, b \in Outcomes : /\ answer[i].packets[b] \in Nat
                                           /\ answer[i].bytes[b] \in Nat
  BY DEF IInv, Values, Counters
<1>b. \A i \in MsgIDs : Statistic[i] # 0 => Statistic[i] \in Objects
  BY BoundsNatural DEF IInv, TypeOK, Objects
<1>c. /\ Statistic' \in [MsgIDs -> 0 .. created'] /\ created' \in 0 .. MaxMsgs
      /\ \A o \in Objects, b \in Outcomes : packets'[o][b] \in Nat /\ bytes'[o][b] \in Nat
  BY TypesStep DEF TypeOK, Values, Counters
<1>d. \A i \in MsgIDs : Statistic'[i] # 0 => Statistic'[i] \in Objects
  BY <1>c, BoundsNatural DEF Objects
<1>e. /\ \A i \in MsgIDs : Statistic[i] # 0 => Statistic'[i] = Statistic[i]
      /\ \A o \in Objects, b \in Outcomes :
           packets[o][b] <= packets'[o][b] /\ bytes[o][b] <= bytes'[o][b]
  BY EntriesStay
<1>1. CASE UNCHANGED snapVars
  <2>1. UNCHANGED <<snap, answer>>
    BY <1>1
  <2>2. Grow
    BY <1>a, <2>1 DEF Grow
  <2>3. snap.pc = "lock" => Statistic'[snap.id] = snap.obj
    BY <1>e DEF Behind, IInv, Values
  <2>4. ASSUME NEW i \in MsgIDs, NEW b \in Outcomes
        PROVE  IF Statistic'[i] = 0
                 THEN answer[i].packets[b] = 0 /\ answer[i].bytes[b] = 0
                 ELSE /\ answer[i].packets[b] <= packets'[Statistic'[i]][b]
                      /\ answer[i].bytes[b] <= bytes'[Statistic'[i]][b]
    <3>1. CASE Statistic[i] = 0
      <4>1. answer[i].packets[b] = 0 /\ answer[i].bytes[b] = 0
        BY <3>1 DEF Behind
      <4> QED BY <1>c, <1>d, <4>1
    <3>2. CASE Statistic[i] # 0
      <4> DEFINE o == Statistic[i]
      <4>1. /\ o \in Objects /\ Statistic'[i] = o
            /\ answer[i].packets[b] <= packets[o][b] /\ answer[i].bytes[b] <= bytes[o][b]
        BY <1>b, <1>e, <3>2 DEF Behind
      <4>2. packets[o][b] <= packets'[o][b] /\ bytes[o][b] <= bytes'[o][b]
        BY <1>e, <4>1
      <4> HIDE DEF o
      <4>3. /\ answer[i].packets[b] <= packets'[o][b] /\ answer[i].bytes[b] <= bytes'[o][b]
        BY <1>a, <1>c, <4>1, <4>2
      <4> QED BY <3>2, <4>1, <4>3 DEF o
    <3> QED BY <3>1, <3>2
  <2> QED BY <2>1, <2>2, <2>3, <2>4 DEF Behind
<1>2. ASSUME NEW k \in MsgIDs, SnapFind(k) PROVE Behind' /\ Grow
  <2>0. UNCHANGED <<Statistic, packets, bytes>>
    BY <1>2 DEF SnapFind
  <2>1. CASE Statistic[k] # 0
    <3>1. answer' = answer /\ snap'.pc = "lock" /\ snap'.id = k /\ snap'.obj = Statistic[k]
      BY <1>2, <2>1 DEF SnapFind
    <3>2. Grow
      BY <1>a, <3>1 DEF Grow
    <3> QED BY <2>0, <3>1, <3>2 DEF Behind
  <2>2. CASE Statistic[k] = 0
    <3>1. /\ snap'.pc = "idle"
          /\ answer' = [answer EXCEPT ![k] = [packets |-> Zero, bytes |-> Zero]]
      BY <1>2, <2>2 DEF SnapFind, IInv, Values
    <3>2. \A b \in Outcomes : answer[k].packets[b] = 0 /\ answer[k].bytes[b] = 0
      BY <2>2 DEF Behind
    <3>3. \A i \in MsgIDs, b \in Outcomes :
            answer'[i].packets[b] = answer[i].packets[b] /\ answer'[i].bytes[b] = answer[i].bytes[b]
      BY <3>1, <3>2 DEF IInv, Values, Zero
    <3>4. Grow
      BY <1>a, <3>3 DEF Grow
    <3> QED BY <2>0, <3>1, <3>3, <3>4 DEF Behind
  <2> QED BY <2>1, <2>2
<1>3. ASSUME SnapCopy PROVE Behind' /\ Grow
  <2> DEFINE k == snap.id  o == snap.obj
  <2>1. /\ k \in MsgIDs /\ o \in Objects /\ o # 0 /\ Statistic[k] = o
    BY <1>3, <1>b DEF SnapCopy, Answer, Behind, IInv, Values
  <2>2. /\ UNCHANGED <<Statistic, packets, bytes>> /\ snap'.pc = "idle"
        /\ answer' = [answer EXCEPT ![k] = [packets |-> packets[o], bytes |-> bytes[o]]]
    BY <1>3 DEF SnapCopy, Answer
  <2>3. \A b \in Outcomes : /\ answer[k].packets[b] <= packets[o][b]
                            /\ answer[k].bytes[b] <= bytes[o][b]
    BY <2>1 DEF Behind
  <2> HIDE DEF k, o
  <2>4. /\ \A b \in Outcomes : answer'[k].packets[b] = packets[o][b] /\ answer'[k].bytes[b] = bytes[o][b]
        /\ \A i \in MsgIDs \ {k} : answer'[i] = answer[i]
    BY <2>1, <2>2 DEF IInv, Values
  <2>5. Grow
    BY <1>a, <2>3, <2>4 DEF Grow
  <2>6. \A b \in Outcomes : packets[o][b] <= packets[o][b] /\ bytes[o][b] <= bytes[o][b]
    BY <1>a, <2>1
  <2> QED BY <2>1, <2>2, <2>4, <2>5, <2>6 DEF Behind
<1>4. ASSUME NEW r \in Readers,
             \/ LibraryStep(r) \/ HandlePanic(r) \/ \E i \in MsgIDs : Receive(r, i)
             \/ \E b \in Outcomes : HandleReturn(r, b)
      PROVE  UNCHANGED snapVars
  BY <1>4 DEF LibraryStep, RLock, Lookup, LookupUnknown, HandlePanic, Receive, HandleReturn,
     getOrCreateStatistic, AddPacket, AddBytes
<1>5. ASSUME NEW x \in Readers \cup Apps,
             UpdateStep(x) \/ \E op \in {"Add", "Remove"} : CallUpdate(x, op)
      PROVE  UNCHANGED snapVars
  BY <1>5 DEF UpdateStep, Update, CallUpdate
<1>6. CASE UNCHANGED vars
  BY <1>1, <1>6 DEF vars
<1> QED BY <1>1, <1>2, <1>3, <1>4, <1>5, <1>6 DEF Next

\* Of two answers of GetStatistic for the same id the later never shows fewer
\* packets or bytes: the read loops that race to create an entry never replace
\* one, and a call that waits for an entry's lock waits at the right one.
THEOREM AnswersGrow ==
  Safety => [][\A i \in MsgIDs, b \in Outcomes :
                 /\ answer[i].packets[b] <= answer'[i].packets[b]
                 /\ answer[i].bytes[b] <= answer'[i].bytes[b]]_vars
<1>1. Init => Behind
  BY DEF Init, Behind, Zero
<1>2. IInv /\ Behind /\ [Next]_vars
        => [\A i \in MsgIDs, b \in Outcomes :
              /\ answer[i].packets[b] <= answer'[i].packets[b]
              /\ answer[i].bytes[b] <= answer'[i].bytes[b]]_vars
  BY BehindStep DEF Grow
<1>3. IInv /\ Behind /\ [Next]_vars => Behind'
  BY BehindStep
<1> QED BY <1>1, <1>2, <1>3, Inductive, PTL DEF Safety
=============================================================================
