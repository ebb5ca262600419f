------------------------------ MODULE Dispatch ------------------------------
(***************************************************************************)
(* handleMsg of Server and Client: the read loops of several connections   *)
(* (on a client, a connection that is being abandoned and its successor)   *)
(* look up the handler of a message under the read lock, call it without   *)
(* the lock, and count the result in stats.HandlerStats, whose map and     *)
(* whose entries have locks of their own.  Handlers are added and removed  *)
(* meanwhile, also by handlers; GetStatistic takes snapshots.              *)
(***************************************************************************)
EXTENDS Naturals, FiniteSets

CONSTANTS
  Readers,     \* read loops
  Apps,        \* goroutines that call AddHandler and RemoveHandler
  MsgIDs,
  DataLen,     \* the length of a message's data
  MaxMsgs,     \* bound on the number of messages received
  MaxUpdates,  \* bound on the number of AddHandler and RemoveHandler calls
  MaxSnaps     \* bound on the number of GetStatistic calls

ASSUME DataLenPositive == DataLen \in Nat \ {0}
ASSUME BoundsNatural == {MaxMsgs, MaxUpdates, MaxSnaps} \subseteq Nat
ASSUME AppsAreNoReaders == Apps \cap Readers = {}
ASSUME ReadersNotFree == "free" \notin Readers   \* nobody holds a free lock
ASSUME IdsNotZero == 0 \notin MsgIDs   \* 0 marks a read loop without a message

Outcomes == {"Success", "Failed"}
Objects == 1 .. MaxMsgs   \* HandlerStatistic values, in the order of creation

VARIABLES
  handler,    \* the message ids that have a handler
  rlocked,    \* the read loops that hold its read lock
  writer,     \* each goroutine's AddHandler or RemoveHandler call, or "no"
  updates,    \* number of those calls so far
  rd,         \* position of each read loop in handleMsg
  loc,        \* its locals: MsgID, what Handle returned, the entry to update
  received,   \* number of messages received
  UnknownMsg,
  Statistic,  \* MsgID to object, 0 for none
  created,    \* number of objects
  packets, bytes, \* SuccessPacket, FailedPacket, SuccessBytes, FailedBytes
  mu,         \* who holds each object's lock: a read loop or "free"
  snap,       \* the GetStatistic call: its position, id and object
  answer      \* the last answer for each id

lockVars == <<handler, rlocked, writer, updates>>
msgVars == <<rd, loc, received>>
statVars == <<UnknownMsg, Statistic, created, packets, bytes, mu>>
snapVars == <<snap, answer>>
vars == <<lockVars, msgVars, statVars, snapVars>>

\* Locals outside handleMsg.
NoLoc == [MsgID |-> 0, outcome |-> "Success", stat |-> 0]

Zero == [b \in Outcomes |-> 0]

Init ==
  /\ handler \in SUBSET MsgIDs   \* WithHandlers
  /\ rlocked = {} /\ writer = [x \in Readers \cup Apps |-> "no"] /\ updates = 0
  /\ rd = [r \in Readers |-> "read"]
  /\ loc = [r \in Readers |-> NoLoc]
  /\ received = 0 /\ UnknownMsg = 0
  /\ Statistic = [i \in MsgIDs |-> 0] /\ created = 0
  /\ packets = [o \in Objects |-> Zero] /\ bytes = [o \in Objects |-> Zero]
  /\ mu = [o \in Objects |-> "free"]
  /\ snap = [pc |-> "idle", id |-> 0, obj |-> 0, calls |-> 0]
  /\ answer = [i \in MsgIDs |-> [packets |-> Zero, bytes |-> Zero]]

Goto(r, from, to) == rd[r] = from /\ rd' = [rd EXCEPT ![r] = to]
-----------------------------------------------------------------------------
(* handleMsg.                                                              *)

\* read(): Unmarshal returned a message.
Receive(r, i) ==
  /\ received < MaxMsgs /\ received' = received + 1
  /\ Goto(r, "read", "rlock") /\ loc' = [loc EXCEPT ![r].MsgID = i]
  /\ UNCHANGED <<lockVars, statVars, snapVars>>

\* RLock: a writer that waits goes first.
RLock(r) ==
  /\ \A x \in DOMAIN writer : writer[x] = "no"
  /\ rlocked' = rlocked \cup {r}
  /\ Goto(r, "rlock", "lookup")
  /\ UNCHANGED <<handler, writer, updates, loc, received, statVars, snapVars>>

\* Mutant: the read lock is held until handleMsg returns.
LookupDeferred(r) ==
  /\ Goto(r, "lookup", "handle") /\ loc[r].MsgID \in handler
  /\ UNCHANGED <<lockVars, loc, received, statVars, snapVars>>

\* The handler is read and RUnlock called.
Lookup(r) ==
  /\ Goto(r, "lookup", "handle") /\ loc[r].MsgID \in handler
  /\ rlocked' = rlocked \ {r}
  /\ UNCHANGED <<handler, writer, updates, loc, received, statVars, snapVars>>

\* RUnlock, IncUnknownMsg, return.
LookupUnknown(r) ==
  /\ Goto(r, "lookup", "read") /\ loc[r].MsgID \notin handler
  /\ rlocked' = rlocked \ {r}
  /\ UnknownMsg' = UnknownMsg + 1 /\ loc' = [loc EXCEPT ![r] = NoLoc]
  /\ UNCHANGED <<handler, writer, updates, received,
                 Statistic, created, packets, bytes, mu, snapVars>>

\* Handle returns nil or an error.
HandleReturn(r, b) ==
  /\ Goto(r, "handle", "entry") /\ writer[r] = "no"
  /\ loc' = [loc EXCEPT ![r].outcome = b]
  /\ UNCHANGED <<lockVars, received, statVars, snapVars>>

\* Handle panics: the read task ends, nothing is counted.
HandlePanic(r) ==
  /\ Goto(r, "handle", "dead") /\ writer[r] = "no"
  /\ loc' = [loc EXCEPT ![r] = NoLoc]
  /\ UNCHANGED <<lockVars, received, statVars, snapVars>>
-----------------------------------------------------------------------------
(* AddHandler and RemoveHandler, by the application or inside a handler.   *)

CallUpdate(x, op) ==
  /\ updates < MaxUpdates /\ updates' = updates + 1
  /\ x \in Readers => rd[x] = "handle"
  /\ writer[x] = "no" /\ writer' = [writer EXCEPT ![x] = op]
  /\ UNCHANGED <<handler, rlocked, msgVars, statVars, snapVars>>

\* Lock, change the map for the id of the call, Unlock.
Update(x, i) ==
  /\ writer[x] # "no" /\ rlocked = {}
  /\ handler' = IF writer[x] = "Add" THEN handler \cup {i} ELSE handler \ {i}
  /\ writer' = [writer EXCEPT ![x] = "no"]
  /\ UNCHANGED <<rlocked, updates, msgVars, statVars, snapVars>>
-----------------------------------------------------------------------------
(* AddBytes.                                                               *)

\* Mutant: an entry is created without a second look under the write lock.
CreateStatistic(r) ==
  /\ Goto(r, "entry", "lock") /\ created < MaxMsgs
  /\ created' = created + 1 /\ loc' = [loc EXCEPT ![r].stat = created + 1]
  /\ Statistic' = [Statistic EXCEPT ![loc[r].MsgID] = created + 1]
  /\ UNCHANGED <<lockVars, received, UnknownMsg, packets, bytes, mu, snapVars>>

\* getOrCreateStatistic, under the lock of the map.
getOrCreateStatistic(r) ==
  /\ Goto(r, "entry", "lock")
  /\ \/ /\ Statistic[loc[r].MsgID] # 0
        /\ loc' = [loc EXCEPT ![r].stat = Statistic[loc[r].MsgID]]
        /\ UNCHANGED <<created, Statistic>>
     \/ /\ Statistic[loc[r].MsgID] = 0
        /\ created' = created + 1 /\ loc' = [loc EXCEPT ![r].stat = created + 1]
        /\ Statistic' = [Statistic EXCEPT ![loc[r].MsgID] = created + 1]
  /\ UNCHANGED <<lockVars, received, UnknownMsg, packets, bytes, mu, snapVars>>

\* stat.Lock(), and the packet counter.
AddPacket(r) ==
  /\ Goto(r, "lock", "locked")
  /\ mu[loc[r].stat] = "free" /\ mu' = [mu EXCEPT ![loc[r].stat] = r]
  /\ packets' = [packets EXCEPT ![loc[r].stat][loc[r].outcome] = @ + 1]
  /\ UNCHANGED <<lockVars, loc, received, UnknownMsg, Statistic, created,
                 bytes, snapVars>>

\* The byte counter, the deferred Unlock, and handleMsg returns.
AddBytes(r) ==
  /\ Goto(r, "locked", "read")
  /\ bytes' = [bytes EXCEPT ![loc[r].stat][loc[r].outcome] = @ + DataLen]
  /\ mu' = [mu EXCEPT ![loc[r].stat] = "free"] /\ loc' = [loc EXCEPT ![r] = NoLoc]
  /\ UNCHANGED <<lockVars, received, UnknownMsg, Statistic, created,
                 packets, snapVars>>
-----------------------------------------------------------------------------
(* GetStatistic.                                                           *)

\* The entry is read under the read lock of the map; without one the answer
\* is all zero.
SnapFind(i) ==
  /\ snap.pc = "idle" /\ snap.calls < MaxSnaps
  /\ \/ /\ Statistic[i] = 0
        /\ snap' = [snap EXCEPT !.calls = @ + 1]
        /\ answer' = [answer EXCEPT ![i] = [packets |-> Zero, bytes |-> Zero]]
     \/ /\ Statistic[i] # 0
        /\ snap' = [pc |-> "lock", id |-> i, obj |-> Statistic[i], calls |-> snap.calls + 1]
        /\ UNCHANGED answer
  /\ UNCHANGED <<lockVars, msgVars, statVars>>

\* The answer for the entry the call found.
Answer ==
  /\ snap.pc = "lock" /\ snap' = [pc |-> "idle", id |-> 0, obj |-> 0, calls |-> snap.calls]
  /\ answer' = [answer EXCEPT ![snap.id] = [packets |-> packets[snap.obj],
                                            bytes |-> bytes[snap.obj]]]
  /\ UNCHANGED <<lockVars, msgVars, statVars>>

\* Mutant: the entry is copied without its lock.
SnapUnlocked == Answer

\* stat.Lock(), copy, Unlock.
SnapCopy == snap.pc = "lock" /\ mu[snap.obj] = "free" /\ Answer
-----------------------------------------------------------------------------
\* What the library does by itself in a read loop, without the handler.
LibraryStep(r) ==
  \/ RLock(r) \/ Lookup(r) \/ LookupUnknown(r)
  \/ getOrCreateStatistic(r) \/ AddPacket(r) \/ AddBytes(r)

UpdateStep(x) == \E i \in MsgIDs : Update(x, i)

Next ==
  \/ \E r \in Readers :
       \/ LibraryStep(r) \/ HandlePanic(r)
       \/ \E i \in MsgIDs : Receive(r, i)
       \/ \E b \in Outcomes : HandleReturn(r, b)
  \/ \E x \in Readers \cup Apps :
       UpdateStep(x) \/ \E op \in {"Add", "Remove"} : CallUpdate(x, op)
  \/ SnapCopy \/ \E i \in MsgIDs : SnapFind(i)

Safety == Init /\ [][Next]_vars

\* Locks are granted in the end.  No handler needs to return, no message to
\* come, and nobody to call anything.
Spec ==
  /\ Safety /\ WF_vars(SnapCopy)
  /\ \A r \in Readers : WF_vars(LibraryStep(r))
  /\ \A x \in Readers \cup Apps : WF_vars(UpdateStep(x))
-----------------------------------------------------------------------------
TypeOK ==
  /\ handler \subseteq MsgIDs /\ rlocked \subseteq Readers
  /\ writer \in [Readers \cup Apps -> {"no", "Add", "Remove"}]
  /\ updates \in 0 .. MaxUpdates /\ received \in 0 .. MaxMsgs
  /\ rd \in [Readers -> {"read", "rlock", "lookup", "handle", "entry", "lock",
                         "locked", "dead"}]
  /\ loc \in [Readers -> [MsgID : MsgIDs \cup {0}, outcome : Outcomes, stat : 0 .. created]]
  /\ Statistic \in [MsgIDs -> 0 .. created] /\ created \in 0 .. MaxMsgs
  /\ mu \in [Objects -> Readers \cup {"free"}]
  /\ \A o \in Objects : mu[o] # "free" => rd[mu[o]] = "locked" /\ loc[mu[o]].stat = o
  /\ rlocked = {r \in Readers : rd[r] = "lookup"}

\* The packets that the entry of an id, and all entries of the map, have counted.
PacketsOf(i) ==
  UNION {{<<i, b, k>> : k \in 1 .. packets[Statistic[i]][b]} : b \in Outcomes}

RecordedPackets == UNION {PacketsOf(i) : i \in {j \in MsgIDs : Statistic[j] # 0}}

\* No message is lost from the statistics or counted twice, however the read
\* loops race to create an entry: each one received is counted as unknown, is
\* recorded in an entry that GetStatistic finds, or is still being handled
\* (its handler may have panicked).
EveryMessageCounted ==
  received = UnknownMsg + Cardinality(RecordedPackets)
             + Cardinality({r \in Readers : rd[r] \notin {"read", "locked"}})

\* A snapshot taken while read loops count never shows a packet without its
\* bytes.
SnapshotConsistent == 
  \A i \in MsgIDs, b \in Outcomes : answer[i].bytes[b] = DataLen * answer[i].packets[b]

\* AddHandler and RemoveHandler return even if every running handler blocks
\* for ever, also when it is a handler that calls them: handleMsg does not hold
\* the lock while a handler runs.
UpdatesReturn == \A x \in Readers \cup Apps : (writer[x] # "no") ~> (writer[x] = "no")
=============================================================================
