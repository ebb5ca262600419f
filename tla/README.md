# simple-message in TLA+

Specifications of the concurrent core of simple-message: the task manager, the
send queue of a connection, the handler manager that serves a connection, the
server, the client, the wire protocol, the dispatch of messages, the WebSocket
transport and the authentication examples. Each module is translated from the Go source; TLC checks
small instances, and TLAPS proves every safety property for every instance.
`PROJECT.json` lists the runs, the source lines behind every definition, the
hazards the properties are aimed at, the mutants that show each property can
fail, and the theorems.

## The system

| part | state | operations | talks to |
|---|---|---|---|
| `pkg/taskgo` TaskGo | tasks by name, their number, status, a one-token channel | `Go`, `done` (deferred), `StopAndWait`, queries | context, task functions |
| `connection` Connection, MessageBody | bounded channel of messages, context, acknowledgement per message | `SendMsg`, `SendMsgContext`, `Close`, `AckMessage` | callers, the send loop |
| `connection` HandlerManager | three tasks (callback, read loop, send loop), `Once`, first error, context, `done` | `NewHandlerManager`, `read`, `send`, `stop`, `StopWithTimeout`, `Err` | TaskGo, Connection, transport, owner |
| `server` Server | context, listener, running flag, connection count, `done` | `Start`, `Stop`, `accept`, `handlerTcpConn`, `handleMsg` | HandlerManager, listener |
| `client` Client | context, `done`, stopped flag, pointer to the current connection | `Start`, `Stop`, dial loop, `SendMsg`, `handleMsg` | HandlerManager, dialer |
| `protocol` Decoder | none | `Marshal`, `Unmarshal` | transport |
| `stats` | counters per message id behind two levels of locks | `AddBytes`, `GetStatistic`, `IncUnknownMsg` | `handleMsg` |
| `examples/websocket` | transport and listener on gorilla/websocket | `Read`, `Write`, `Close`, `Accept`, `handleWS` | server, client |
| `examples/*_auth` | login state per connection | login handler, gate, timeout | server, client |

A goroutine that calls `SendMsg` queues a message and waits for its
acknowledgement; the send loop takes it, writes the frame and acknowledges. The
read loop decodes messages and runs their handlers on its own goroutine. Whoever
fails first runs `stop()` (once): record the error, close the Connection, close
the transport, cancel the context. The owner (the server's goroutine for the
connection, or the client's dial loop) wakes up on that context, waits up to two
seconds for the tasks, reports `ConnErr` and closes the transport.

What is hard here: `select`s with several ready cases; a send loop stuck in
`Write` on a peer that does not read; a handler that sends while it occupies the
read loop; panics in handlers or in the transport; timeouts that race the event
they wait for; unsynchronised reads (`Err`, `Server.Stop`); a connection limit
kept by several acceptors; waits chained over four levels of goroutines; a stop
in the middle of a dial, a connection or a sleep; a transport that accepts one
writer at a time under two that do not exclude each other; a handler whose
answer and whose Close go different ways to the same loop.

## Modules

| module | models | state and actions |
|---|---|---|
| `TaskGo` | `pkg/taskgo` | one action per critical section of the mutex (`Go`, `Done`, `StopAndWait`) and per step `StopAndWait` makes outside it (`Cancel`, `StopFinished`, `StopTimeout`, `StopReport`) |
| `Connection` | `sendMsg`, `Close`, MessageBody | one action per branch of the two selects; the consumer is `Take` and `Ack` |
| `MsgDelivery` | what `SendMsg` promises | abstract: calls and the frames on the wire, nothing else |
| `HandlerManager` | `connection/handler.go` and its owner in `server/handler.go`, `client/client.go` | instances of `TaskGo` and `Connection`; the two loops, the body of `stop()` in its four steps, the owner, the environment |
| `Server` | `Start`, `Stop`, `stop`, the watcher, `accept`, a connection's goroutine | a served connection is a HandlerManager with its owner, reduced to when it ends |
| `Client` | `Start`, `Stop`, `start`, `dialAndRun`, `SleepAtLeast`, `SendMsg` | a connection is reduced to its transport and the messages queued on it; a send is queued, written and returned in separate steps; time is the time since the last dial, up to the interval |
| `Protocol`, `MCProtocol` | `protocol.Decoder` at both ends of a stream | bytes; `Marshal` as its three outcomes (refused, panic, one `Write` that may be torn), `Unmarshal` as the two `ReadFull` calls fed by `Read`s of any size |
| `Dispatch` | `handleMsg` of server and client, `AddHandler`, `RemoveHandler`, `stats` | one action per critical section; statistics entries are objects, so that two for one id could be told apart |
| `WebSocket` | `examples/websocket`: `Conn` and `WebSocketListener`, and the dialled `Conn` of its client | `Conn`'s two critical sections per `Read` and `Write` and the one of `Close`, which spans the writing of the close frame; `handleWS`, `Accept`, the listener's `Close` in its three steps; gorilla's connection and the peer |
| `Auth` | `examples/tcp_auth`, `examples/websocket_auth`, both ends of one connection | one action per handler, per step of its `SendMsg`, per case of the login timer; the example clients, or a peer that sends anything |
| `TaskGoProofs`, `HandlerManagerProofs`, `ServerProofs`, `ClientProofs`, `ProtocolProofs`, `DispatchProofs`, `WebSocketProofs`, `AuthProofs` | | the theorems about each module; those about `Connection` are in `HandlerManagerProofs` |

Abstractions. A message is the name of its call; contents and sizes appear only
as "above the limit or not" (`Oversize`). A decoded message is just "a handler
runs". A `Write` either puts a whole frame on the wire, or fails and may leave a
part of it (`torn`). A context is a flag, a child context the disjunction of its
ancestors' flags. An unsynchronised read is a choice between the values the
memory model allows: `Err()` (`ErrOrdered`) and `Server.Stop`. Of what goes over a
WebSocket only the received bytes are kept, numbered; gorilla's `WriteMessage` is
an interval with a set of results, "panic" among them when two intervals overlap
(its check for concurrent writers finds either of them, or none); a close frame
ends the stream with EOF or with an error, depending on its code. A login request
is one that does not parse, does not match or matches; the transport between the
two ends of `Auth` holds `NetCap` messages, and a `Write` blocks when it is full;
a response is queued and taken by the send loop in one step, so one that is
abandoned in the queue after `Close` and written later is left out (the properties
promise nothing then). `SleepAtLeast`'s early return for a negative elapsed time is
left out: Go's clock is monotonic there.
Mutants (operators
whose comment starts with "Mutant") stand before the definition they distort and
are used by no other definition.

Composition. `HandlerManager` uses `TaskGo` and `Connection` only through their
actions, each conjoined with its own part of the step; `ContainsTaskGo` and
`ContainsConnection` prove that the components then behave as specified.
`HandlerManager` takes from `Protocol` that a receiver returns exactly the whole
frames written (`Framed`), and `Dispatch` is what its handlers run in.
`WebSocket` is a transport under a HandlerManager, whose loops and `stop()` are its
read loop, send loop and owner. `Auth` takes `SendMsg` and the two loops from
`HandlerManager` (a send is taken, written and acknowledged, or given up once the
Connection is closed) and adds the handlers, so that two ends that both send
from their read loops meet.
`Server` and `Client` rely on two facts about a connection: its owner returns once
its context is done (`StopEnds`), and nothing is written on a closed transport, so
that a send returns nil only for a message written while it was open
(`NilMeansWritten`; the caller may get the nil later, after a close, a redial or
`done`).

## Runs

| run | instance | shows |
|---|---|---|
| `taskgo` | 3 tasks, 2 stoppers | exact count, one winner, nil means nothing runs, `done()` never blocks with the mutex held, every stop returns |
| `taskgo_timeout` | 2 tasks, 1 stopper | violation: a task runs and ends, then a stop waits for its whole deadline and reports an empty list of unfinished tasks |
| `connection` | 3 calls, channel of 1 | callers released by close or context, wherever they wait, also in front of a full channel |
| `handler_manager` | 2 calls (a handler's, the callback's), every fault | nil means written, the error names the cause, `ConnErr` gets nil only when stuck, a stop that returns nil left nothing open or running, `MsgDelivery` is implemented |
| `handler_manager_live` | 2 calls (a handler's, one above the limit), parent, peer and panics | stop always completes for the owner, the send loop and every caller, also with a peer that never reads, when an acknowledgement can never come, and when the read loop stays in a `Read` on the closed transport |
| `handler_manager_close` | user closes | violation: `Connection.Close` does not stop a connection whose send loop is in `Write` |
| `server` | 2 acceptors, 3 connections, limit 1, 1 `Stop` | limit, count, drained when done, every stop completes |
| `client` | 3 connections in a row, interval 2, 2 sends | spacing of dials, one connection at a time, nothing written on an old one, stop completes, reconnection |
| `protocol` | 3 messages out of 6 lengths, limits 1, 3 and 15, bytes of 2 values (word 16) | what was sent is returned whatever the pieces; refusals, end of stream and panics only where they belong |
| `dispatch` | 2 read loops, 2 ids, 3 messages, 2 updates, 1 snapshot | no message lost from the counts, snapshots consistent, `AddHandler` and `RemoveHandler` return although handlers block |
| `websocket` | 2 idle connections and a `connChan` of 1; or 1 upgraded connection with traffic; or 1 dialled one | bytes in order across message boundaries, EOF only after all of them; a connection lives until its owner or the listener closes it; then it is torn down, wherever its goroutines were |
| `auth` | example clients with good and bad logins, or any peer; transport of 2 | a good client is never refused; a refusal is told before the close; business replies only after the login's answer; logged in or closed in the end; heartbeats go on |

Bounds. Two stoppers are the race of `StopAndWait`; a third behaves as the
second. Three calls on a channel of one (`connection`) give the three places a
sender can be in: written, queued, in front of the full channel; two calls
(`handler_manager`) still meet in front of it while the send loop is at its
select or over. A connection limit of one
with two acceptors and three connections makes admission, rejection and a place
given back overlap. Three connections of a client are the current, the previous
(still in `connPointer`) and one before it. `Client` bounds successful dials by
`MaxGen` (afterwards only failing dials are left); `Protocol`
bounds the messages (three: one in step, one torn, one after it), `Dispatch` the
messages, updates and snapshots (two messages of one id race for its entry and a
third finds it; two updates make a handler's call meet the application's). The word of
`Protocol` is 16 (bytes of two values) and its header 8 bytes, so that data of 8 bytes wraps the frame's
size and data of 17 the length itself, as 2^32 - 8 and 2^32 + 1 would. Nothing
else is cut off, and every run explores its whole state space. `HandlerManager`'s `Faults` chooses
which ends are possible, so that the liveness run stays small: it leaves out a
user's `Close`, which is `connection`'s `ReleasesCallers`; the safety run has all
of them. `WebSocket`'s `Scenarios` are independent instances checked in one run:
two connections for the hand-over (one queued, one in front of the full
`connChan`), one for everything between `Conn` and a live, closing, stalled or
lost peer. Its messages of two bytes are read with slices of one and of three,
so that a slice ends inside, at and behind a message. `Auth`'s transport of two
lets another peer pipeline a login and a business message, and fills up when it
does not read. The systems may really stop, so deadlock is not checked.

Fairness is weak fairness of the goroutines' own steps: a goroutine that can run
does run, and timers fire. Assumed of the environment: a handler that is not
blocked in `SendMsg` ends; a `Write` on a transport closed on this side returns an
error, and the transport's `Close` returns (in `HandlerManager` it does not panic
either; `WebSocket` has one that blocks or panics); `DialContext` returns once its context is done; bytes that were written arrive;
a `sync.RWMutex` lets a waiting writer go before new readers. `Dispatch` assumes
of handlers nothing at all. In `Auth` leaving the send loop is strongly fair: a
`select` picks among its ready cases at random, so a loop that meets the closed
context again and again does not choose messages for ever. A loop of `WebSocket`
that ended calls `stop()`. Not assumed: that a
`Read` on a closed transport returns (the comment at `connection/handler.go:177` says
that `read()` sometimes does not exit; `StopEnds` therefore claims of the read loop
only that nothing but such a `Read` keeps it), that a peer
reads (`Write` may block for ever, no write deadline is set), that tasks or the
`ConnectedBegin` callback return, that anybody calls `Stop` or `Close`.

## What the runs found

* `StopAndWait` after the last task ended: `done()` signals only when the
  manager is already stopped, so the call waits for the full deadline and
  returns "unfinish tasks:[]" (comment at `pkg/taskgo/taskgo.go:195`). The property
  asks it only of a manager some task of which ran, and leaves out the race of the
  last task with the deadline. In
  `HandlerManager` the two loops, which end before the owner stops, make this the
  usual case for a connection that ends by itself: its owner idles for two
  seconds whenever all three tasks are quicker than it is.
* `Connection.Close` cancels the Connection's context only; a send loop inside
  `Write` does not see it (comment at `connection/connection.go:113`).

Worth knowing besides, from the models and their exceptions:

* `Marshal` casts the length to 32 bits before it compares it with the limit, so a
  message of 2^32 bytes or more may pass, is written shortened, and is reported
  as sent (`OnWire` in `Framed`; `src/README.md:240`).
* `Conn` of the WebSocket adapter: its mutex does not exclude `Write` from `Close`
  (`conn.go:101`, `conn.go:126`), so gorilla may see two writers and panic in either;
  a panic inside `Close` leaves `stop()` before it cancels the connection's
  context. `TornDown` shows that the upgraded connection is closed all the same,
  because `handleWS` closes it once more; a dialled one is not, and neither is
  it when its close frame fails (`conn.go:127`). A peer that does not read blocks
  `Close` with the mutex held. A panic in a `Close` called by `stop()` is recovered by
  TaskGo; in the deferred `conn.Close()` of the client's dial loop (`client.go:193`) or
  of the server's goroutine (`server/handler.go:34`) nobody recovers it, and the
  process ends. The model has one owner's `Close` for both, and `TornDown` excepts
  what follows a panic of a dialled connection.
* A `Read` that does not notice the close of its transport (comment at
  `connection/handler.go:177`) leaves the read loop behind, as a task that the
  owner's `StopAndWait` names in its error; neither the owner nor a caller of
  `SendMsg` waits for it longer than the two seconds.
* `SendMsg` of a client may return nil after the connection, or the client, is gone:
  the frame was written before, the caller found out later. It may also return an
  error for a message that was, or will be, written.
* The login timer tests the property and closes in two steps: a login handled in
  between is answered with OK and its connection closed.
* A handler goes on being called after it closed its connection, until the send
  loop has closed the transport; its responses may or may not go out
  (`HelloAfterOK` promises nothing then).
* A handler looked up before `RemoveHandler` returned may run after it, so the
  assertion in `examples/testtcp/client/main.go:45` can fail for a message that is
  already being handled. The `Accept` of the tcp examples retries every error but
  `net.ErrClosed`.
* `h.done` is closed after a timeout as well, with tasks
  running (compare the comment at `connection/handler.go:31`), and the server's
  `done` inherits this, since it waits for owners and not for tasks; with a single acceptor
  whose `Accept` fails, `Server`'s `done` may be closed before the watcher has
  closed the listener (`StopCompletes` therefore asks for both eventually); a
  connection may be rejected below the limit while another rejection has not yet
  given back its place (`CountExact` counts both).

## Proofs

Every theorem holds for every value of the constants under the assumptions named
in the module that declares them. The theorems of `WebSocket` and `Auth` are about
`Spec`, of which only `Init` and `[][Next]_vars` are used; the others are about
`Safety`, the specification without fairness. Each proof has an inductive
invariant (`IInv`, or one per property), one lemma for each group of actions that
it takes work to get past, and the theorems as its consequences.

* `TaskGoProofs` (tasks form a finite set). `IInv` adds to the properties that
  nobody has touched `doneCh` before the stop (`Untouched`) and that a token in
  it means nothing runs (`TokenMeansNone`). The latter is what `DoneNeverBlocks`
  and `FinishedMeansNoneRunning` need, and it is inductive because `Go` is
  refused once a token can exist. `RegisterCount` and `FinishCount` tie the
  counter to the cardinality of the running tasks.
* `HandlerManagerProofs` (capacity at least one). The instance `C` of `Connection`
  has the constants and variables of the same names, so what is proved of
  `C!Safety` is proved of `Connection` by itself (`ConnectionCorrect`): `QueueOK` (a
  message is queued once and unacknowledged) and `ResultIsAck` are inductive with the
  types (`ConnInv`); `GotoKeeps` covers the
  branches of `sendMsg` that do not touch the queue. `ConnectionStep` and `TaskGoStep` map every step to a
  step of the component or a stutter, which brings in the components'
  invariants. `WriteInv` says that the wire holds exactly the messages
  acknowledged with nil and that the send loop is over once a frame was torn;
  with it follow `NilIsWritten` and the refinement `DeliveryCorrect`.
  `CauseInv` records how far `stop()` has come (`StopOrder`) and why a loop is
  at its `stop()` (`LoopCause`); from it follows `CauseCorrect`. `StuckInv` adds
  that a loop whose task is done has been through `stop()` (`LoopTasks`), where
  the owner is in `StopAndWait` (`OwnerOrder`) and that a task its report leaves
  out has ended (`UnreportedEnded`). So an error still nil after the wait means that
  neither loop ended: `NilConnErrIsStuck`, which needs `TaskGo`'s
  `FinishedMeansNoneRunning`. `StopIsClean` needs it too, with `CleanInv`: who may be
  inside `SendMsg` (`Senders`) and what `stop()` has closed by when (`StopDid`).
* `ServerProofs` (finitely many acceptors and connections; any limit). `CountExact`
  is inductive with the types: each step that changes `connCount` moves one place
  between the sets it counts. `LimitHeld` follows from the count an acceptor has
  seen after its own addition. `Phase` (no acceptor before `Start` or after
  `StopRunning`) and `Drained` (an acceptor that ended has waited for its
  connections) give `DrainCorrect` and the action property `StaysDrained`: after
  `done` nothing is accepted or served any more.
* `ClientProofs` (interval at least one tick). `Reports` says, for each position
  of the loop, which transport may be open and which connections were reported;
  `Leaving` and `Spaced` why the loop is where it is: a sleep cut short leads to
  the top of the loop only with the context done, and it stays done. From it follow
  the properties, among them the action properties `DialSpacing`,
  `StaleNotWritten` (a message queued through an outdated `connPointer` is never
  written once the loop has left that connection) and `StaysGone` (after `done` no
  dial, no transport and no message written).
* `ProtocolProofs` (a byte has at least two values; limits are words; the ids of
  messages are words and their data bytes). `RoundTrip` is a field of four bytes
  by division with remainder, whatever the base; `FrameShape` says what is where in
  a frame, and `HeaderDecoded` that a header gives back what was put in. The stream
  needs no induction over its bytes: `Stream` says that there are a sequence `T` of all
  bytes ever written and the offsets `off` of the frames in it (`Written`) such that
  what the running `ReadFull` has read, and behind it what is on the wire, is `T` from
  the offset of the message to be returned next (`Consumed`). A `Read` leaves both as
  they are, a returned message goes on to the next offset, and a `Write` appends to
  both; a torn one appends less to `T` than to `off`, and nothing follows it.
  `InStep` adds that the header held in the data phase is the one of that message. From
  this follow `FramesReturned` and, because offsets only grow and `T` ends at the
  last one unless a `Write` failed, `EndsCorrect`.
* `DispatchProofs` (bounds are natural numbers; no finiteness of the read loops or
  ids is assumed, the invariant carries that of the sets it counts). `Entries` (no
  two ids share an entry, although the read loops race to create them) makes the
  recorded packets of different ids disjoint sets, so `AddPacket` adds exactly one
  (`AddRecordsOne`) and creating an entry none. `Room` shows that entries do not
  outnumber the messages that got so far. `Balance` says an entry's bytes are
  those of its packets but for the one message its lock holder is counting, which is
  why a snapshot taken with the lock is consistent. `AnswersGrow` is an action
  property: entries stay in the map and only grow (`EntriesStay`), and a call in
  front of an entry's lock has the right entry (`Behind`), so a later answer never
  shows less.
* `WebSocketProofs` (messages and slices not empty). The stream: `Line` cuts the
  peer's bytes into returned, kept, in hand and on the way, and `Hands` says which
  of these the reader may have at each of its positions and that nothing follows a
  close frame, so that EOF comes last; `CopySplits` is what `copy` and the slice
  expression of `Read` do to a message. The hand-over: `Queued` (a connection in
  `connChan` is there once, has no owner yet and its `handleWS` has left the select),
  `Reason` (why `handleWS` leaves or the context is cancelled) and `Early` (nobody owns
  a connection before the hand-over) give `KeptUntilClosed`. `Mutex` ties the holder of a `Conn`'s
  mutex to the writers inside gorilla, panics and failed frames included.
* `AuthProofs` (transport of any capacity above zero). Until something ends the
  connection, the send loop works on the response its handler waits for
  (`Handling`); so a refusal is written before `Close`, and a positive answer before
  a business reply (`Answered`). `Friendly` says that with a client whose login
  matches everything in either direction of the transport is something that
  cannot lead to a refusal: a hello exists only when the session does.

Only model-checked: the liveness properties. Fairness and ENABLED are outside the
prover.

The type invariants of `Client`, `Protocol`, `Dispatch` and
`WebSocket` and the action properties `StaysDrained`, `StaysGone`
and `AnswersGrow` are proved and no run lists them; the runs list the other
properties about behaviour.

## Not modelled

Of the property map of a Connection (a `sync.Map` for the user) `Auth` has the two
operations the examples use; the others pass through to `sync.Map`. Logging,
address accessors, the `useTaskgo = false` path (the switch is an unexported
variable that nothing sets to false), `MustStopWithTimeout` (no caller), a Client with a nil action or a
nil handler map. The `main` functions and the `tcp`, `testtcp` and `websocket`
programs only wire the library to sockets, signals and log lines; interface
files have no behaviour. The frames a WebSocket writes: two writers that meet
inside gorilla share its buffer, and what then goes out is not specified.

## Plan

Every safety property the runs check is proved. Left are action properties in the
way of `AnswersGrow`: `h.err` is written once, a session is never taken back, a
closed transport is never opened again; and a client with a nil action.
