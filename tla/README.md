# Verification of turntf-go

TLA+ models of the turntf Go SDK and of its demo runner.  TLC checks them on small
instances; for every part but the values of the demo runner and the agreement of the two
request interfaces, TLAPS proves the main safety properties for every value of the constants.

## 1. The system

The SDK talks to a turntf server over one WebSocket.

| Part | Source | What it does | Module |
|---|---|---|---|
| Client: life cycle | client.go 360-405, 1211-1395 | one run goroutine logs in, reads, tears down and reconnects; Connect, Close | `Client` |
| Client: RPC calls | client.go 424-1210, 1528-1735 | a request is registered, written under writeMu, answered by the reader | `Client` |
| Client: tracked sends | client.go 506-583, 1737-1786 | stream frames whose result is reported through a callback | `Client` |
| Client: messages | client.go 1397-1463, store.go | a message is saved, acknowledged, then shown | `Client` |
| Relay: sending half | relay.go, relay_flush.go, relay_retry.go | ordered, acknowledged DATA over transient packets: Send, Flush, Close, sendLoop, retransmission | `RelaySender` |
| Relay: receiving half | relay.go, relay_dispatch.go | admission, dispatcher, reorder buffer, ACK worker | `RelayReceiver` |
| Relay manager | relay.go 32-292 | the registry of connections, OPEN handling, closeAll | `RelayManager` |
| StreamConn | stream_conn.go 256-643, stream_protocol.go | a byte stream with a credit window and epochs (Resume) | `StreamConn` |
| StreamMux | stream_conn.go 27-254 | the registry of streams: Dial, Accept, Close | `StreamMux` |
| Client: request methods | client.go 424-1210, 1465-1526, types.go | argument checks, requests, decoding of the answers | `Requests` |
| HTTPClient | http_client.go | the same operations over REST | `Requests` |
| Typed metadata, passwords, types | metadata_typed.go, password.go, types.go | policies on metadata keys and values, checks, conversions | `Requests` |
| Demo runner | demo/runtime.go, demo/schema.go, cmd/turntf-demo | runs YAML scenarios with parallel branches, barriers, sessions, events and expectations | `DemoRunner`, `DemoValues`, `DemoMatch` |

How they interact: the reader of `Client` calls into the Relay manager and the stream
handler; a Relay connection sends its envelopes as RPCs of `Client`, whose answer is
the server's acceptance, not the peer's; when the connection is lost, `Client` closes
every Relay connection and fails every pending call and tracked send.  Client and
HTTPClient are two ways to one server and have to agree on what an operation means.  The
demo runner is a user of Client.

## 2. The modules

**RelaySender.**  One sending RelayConnection.  `sendCh` holds the items queued under
`enqueueMu`; `loop` and `held` are the position of sendLoop and the item it took;
`nextSeq`, `sendBase`, `unacked`, `retransCnt`, `ackCh`, `timer` are the fields of the
window; `retry`, `frames` the retransmission round; `rpcs` the acceptance RPCs that hold
an inflight slot.  `dataNet` is the set of packets the server has accepted: it only
grows, so any packet may be lost, repeated, delayed or overtaken.  The payload of a Send
is its ordinal among the Sends that returned nil.  Alone, the module meets a peer that
acknowledges any number at any time (`PeerAck`), and receives no DATA: the wait of Close for
the ACKs the receiving half owes (waitReceiveACK) is in RelayReceiver.

**RelayReceiver.**  The receiving half.  `reader` is the shared reader between the two
critical sections of enqueueEnvelope, with the values it read in the first; `dispatch`,
`active`, `ready`, `batchAck` are the dispatcher and its batch; `ackPending`,
`ackSending`, `ackIdle`, `ackGenerating` the ACK worker's; `recvCh` and `read` what the
application finds and has read.  Alone, it meets a peer that sends any DATA up to
`MaxSeq`, CLOSE or ERROR at any time.  **MCRelayReceiver** runs it in three settings,
one per behaviour: ReliableOrdered with failing ACK RPCs, the same with a window of one, a
Close and every failure, and AtLeastOnce, the only one that reaches the overflow of the budget.

**RelayLink** joins the two: a packet in `dataNet` may reach enqueueEnvelope, an ACK in
`ackNet` may reach handleAck, again and in any order.  **RelayChannel** is the abstract
specification, a queue with Flush and an end; `IsChannel` states that RelayLink
implements it with `queue <- recvCh`, `received <- read`, `accepted <- sent`.
**MCRelayLink** keeps the instance small: a behaviour has a Flush, or reads and a Close of
the sender, or a Close of the receiver (`OneEnd`), not two of them, and the
retransmission timer fires only beside a Flush.

**StreamConn.**  One direction: the writing side with StreamSenderState (`sEpoch`,
`sNext`, `sAcked`, `sPending`) and its `sendWin`, the reading side with
StreamReceiverState and the read buffer.  Byte k of the stream is the number k, so
order, loss and repetition can be told apart.  waitSendCredit is two steps, because it
takes two locks.  The paths are FIFO; `Faults` says whether a frame may be lost,
repeated or delayed past others, at most `MaxFaults` times.

**Client.**  Every section under stateMu, pendingMu or streamSendMu is a step, and so is
every write to the socket.  A connection is the number of its login; `conn` stands for
conn, authenticated and loginInfo, which are set and cleared together.  A request is the
call that made it; a call that is no longer in `pending` without a result has had its
context end.  `saved`, `cursors`, `seen`, `shown` follow a message through the store, the
login and OnMessage; `own` keeps which SendMessage created a message and whether its answer
found the caller (`Fate`).

**StreamMux, RelayManager.**  The registries: streams and connections are numbered in the
order they are made, an ID maps to a number or 0, and every call is split where it
releases the lock.  In RelayManager loginInfo is read without a lock, so `ConnectOpen`
may see the current login or none.  **MCRegistries** runs the two side by side in one
run; they share no variable.

**Requests, Directory.**  `Requests` has an action for every method of Client that is one
RPC and for every method of HTTPClient.  A call checks its arguments and fills in
defaults, writes a request (a record with the fields of the generated message, or a path,
a query and a JSON body), the server reads it (`ReadWS`, `ReadHTTP`), carries it out and
answers in the wire form of that interface, and the call decodes the answer, with the
several JSON shapes the code accepts, the status codes it allows and its zero values.  The
server, JSON and proto are external; old servers may answer in the older shapes.
`Directory` is what both interfaces promise: a caller names a well-formed command, the
server carries it out once or not at all, and the caller gets its answer or an error.
`expected` is a history variable for the refinement.  Texts, bodies and profiles are
representatives of the kinds the code tells apart (empty, blank, with blanks around it,
a bool, null).  An int32 has `Int32Size` values, 4 for 2^32: the limits are negative, zero,
small, and the first two that do not fit.

**DemoRunner, DemoValues, DemoMatch.**  `DemoRunner` is RunScenario: `Validate`, the script
of each task (`task[t].pc`, `at`), the parallel step (`group`: errCh, cancel, barrier hits),
the sessions with their mutex, client and locals, and the event queues with the waits and
their watchers.  A step that blocks in the code (the mutex, Connect, a request, a barrier,
an event, a sleep) is a step of its own.  A client whose Connect returned the error of its
context may still log in (`LateLogin`), also after RunScenario has returned.  The siblings of a branch are the branches of its
own parallel step, not those of an earlier or later one of the same task.
`DemoValues` has the values and the fields of a request; `DemoMatch` what goes down nested
values and is recursive: the replacement of `${name}`, the normalised form of an answer,
dotted paths, and `matchSubset` with its comparison of numbers of different Go types.
`DemoRunner` takes these four as constant operators (`Resolve`, `PayloadOf`, `Lookup`,
`Matches`), so that what is proved of it holds whatever they compute; the run gives them the
definitions of `DemoMatch`.  `DemoInvariants` has the invariants of the proofs.  **MCDemo**
lists the scenarios: branches that share a session, meet in order or crosswise, fail and
wait; nested and wide parallel steps; every action with its answer saved and expected
again; requests that cannot be read; and one scenario per reason for Validate to refuse.

The modules `*Proofs` hold lemmas and proofs only.  A definition marked
"Variant" is a deliberately wrong form of the definition after it, kept to show that the
property it belongs to is sensitive to the mistake; nothing refers to it.

## 3. The runs

| Run | Instance | What it shows |
|---|---|---|
| relay_sender | WindowSize 1, sendCh 1, 2 Sends, a Flush, a Close, 1 retransmission, all faults | window, timer and wakeups; Flush and Close cover what was sent and return even if the peer is silent |
| relay_receiver | ReliableOrdered: reorder window 2, recvCh 1, DATA 1..3, failing ACK RPCs; the same with window 1, rejected and failing ACK RPCs, a Close and aborts; AtLeastOnce: window 1, DATA 1..2; a terminal frame in each | what is admitted on values read earlier fits the window when it is handled; the budget holds although its parts are counted at different times; CLOSE does not overtake the ACKs owed unless one has failed; a terminal frame is handled |
| relay_link | both halves, windows 2, 2 Sends; a Flush, a Close of the sender or a Close of the receiver | ACKs cover delivered data only, Flush and the orderly end are end to end, and the direction is a queue |
| relay_link_at_least_once | AtLeastOnce, 2 Sends, a Flush | **violated**: see finding 1 |
| stream_conn | window 2, 3 bytes, one Resume, one Close, one fault of each kind | no byte lost, repeated or swapped; Resume returns and repairs |
| stream_wakeup | window 2, 4 bytes, no faults | **violated**: see finding 2 |
| client | one RPC, one tracked send, one message, 2 logins, all failures | calls settle, Close leaves nothing behind, messages are neither skipped nor shown twice |
| client_tracked | the same | **violated**: see finding 3 |
| client_connect | no calls, one login | **violated**: see finding 4 |
| registries | 2 stream IDs, a dialler, 2 handlers, backlog 1; a relay ID, a Connect, 3 connections, 2 logins | a live stream or connection owns its ID and is in somebody's hands; Close ends all of them |
| requests | a caller with any call and any arguments, and a rival that writes what the first reads; 1 node, 2 users | WebSocket and HTTP implement one Directory; the reserved key system.visible_to_others stays a bool, whoever writes it |
| demo | the scenarios of MCDemo, at most 2 pushed events, the context may end at any time | branches leave a barrier together, the cause of a failure is reported and not the cancellation it led to, clients are closed, expectations are compared soundly, RunScenario returns |

**Bounds.**  Each constant named Max... bounds how often the environment acts: calls,
faults, packets, logins.  They are the smallest with which the interesting case exists:
two payloads to be reordered, one retransmission budget to be exhausted, a reorder window
of two with a frame beyond it, two logins for a call to cross a reconnect, three
connections for a late removal to meet a successor, two events so that one is left for a
second branch.  `MaxSlots` stands for the literal 64
of sendLoop, `Reserve` for the 8 reserved inbox slots.  relay_sender has a window of one
to keep the liveness check small; relay_link has two, and the proofs any.  Deadlock
checking is off because every model stops when its bounded calls are used up; that
calls do come back is stated as liveness.

**Fairness.**  Weak fairness of a goroutine's steps: a goroutine that can run does run.
In RelaySender also: an armed timer fires, an acceptance RPC returns (SendPacket runs
under RequestTimeout), and Close obtains enqueueMu (strong fairness, as Go's select on a
channel is fair among waiters).  No ACK, deadline or context end is assumed.  In
StreamConn a Read is assumed to go on.  In Client the run goroutine, the calls and Close
proceed, and reading ends once its socket is broken or ctx is cancelled; no answer of the
server is assumed.  In RelayManager the reader ends and run exits only once Close has
been called.  In DemoRunner tasks, watchers and timers run, and a request ends with its
timeout; Connect has no timeout of its own and is only sure to return once its context has
ended.  Nothing makes a client that was left behind log in.

## 4. Findings

1. **AtLeastOnce loses frames** (relay.go:713, 795).  The receiver acknowledges a frame by
   its own number; the sender takes every ACK as cumulative.  Frame 1 lost, frame 2
   acknowledged: frame 1 is retired, never repeated, and Flush returns nil.
2. **Lost wakeup in Write** (stream_conn.go:395).  waitSendCredit reads the sender state
   before it locks c.mu; an ACK between the two is missed and Write waits on an open
   window.
3. **Untracked success** (client.go:559).  A tracked send registered before a disconnect
   and written after the reconnect returns nil, though the teardown has forgotten it.
4. **Connect without a signal** (client.go:1237).  Close during the reconnect delay before
   the first login ends run without signalFirstConnect.

## 5. The proofs

Assumptions: the named ASSUMEs of RelaySender, RelayReceiver, StreamMux (`MuxConstants`),
RelayManager (`ManagerConstants`), StreamConn (`StreamConstants`), Client
(`ClientConstants`) and Requests (`RequestsAssumption`): positive windows and capacities,
natural bounds, no bound on their size, and a nil that is not the name of a metadata type.  DemoRunner has `ScenarioTree`: the scripts of a
scenario form a tree, each the branch of at most one parallel step, because the YAML
document nests them.  What Validate checks is not assumed.

*Sending half* (`RelaySenderProofs`).  Type correctness and the lemmas on the queue hold in
every mode.  `UnackedIsWindow`, `NoSilentStall` and `NoLostWakeup` follow from `WakeInv`,
which adds to them where the loop, the timer and a retry round can be.  `FlushCovers` and
`CloseAfterAcks` (ReliableOrdered) follow from `SenderInv`:
`NumberingInv` (frame n carries payload n), `QueueInv` (sendCh holds the payloads not yet
taken, in order), `FlushInv` and `AcceptedInv` (what was sent before a barrier stays
before it, and the sends under way have returned), `CloseInv` (nothing follows the item of
Close).  The properties alone are not inductive: they speak of the end of a call, and the
invariant has to follow its barrier through the queue.

*Receiving half* (`RelayReceiverProofs`).  Four invariants.

* `ReceiverInv` (ReliableOrdered): every stored frame n carries payload n (`GenuineInv`);
  read, recvCh and ready together are 1..expectedSeq-1 (`OrderInv`); an ACK at any stage,
  also the watermark the reader copied before it released the lock, covers delivered
  payloads (`AckInv`); `EndInv` for the end of the stream.
* `OwedInv`, for `CloseNotBeforeAck`: ackGenerating counts at least the DATA of the inbox
  and in hand (`CountInv`), ackIdle exists while an ACK is registered, pending or being sent
  (`IdleInv`), the ACK of what is in recvCh is on its way unless handleData is about to
  queue it (`CoverInv`); so when ackIdle closes, what Close waits for has been accepted
  (`CloserInv`).  The property speaks of the last moment only; that nothing is owed when
  ackIdle closes depends on counting each frame from its admission on.  All of it is claimed
  while no ACK has failed for good (section 7).
* `FitInv`, for `AdmittedFits`: the numbers in inboxSeq are those of the inbox and of the
  frame in hand, each once and none of them stored (`HeldInv`, `HandInv`, `InboxInv`);
  whatever lies a window or more before an admitted frame is stored, in hand or ahead of it
  (`GapInv`); and what the reader concluded from its old values about its frame is still true
  (`CallInv`).  `GapInv` is the heart: admission compares with the first number that is
  missing, so the frames before it arrive at handleData first.
* `BudgetInv`, for `WithinBudget` in every mode: inboxData counts at least the DATA of the
  inbox (`DataInv`), what enqueueEnvelope has counted grows by at most the frame in hand
  until it takes the lock again (`GrownInv`), and every prefix of the inbox that ends with
  DATA, with all that lies beyond the inbox, is within the budget (`PrefixInv`, `BatchInv`).

The run relay_receiver checks the last two as `OrderedFits` and `ModesWithinBudget`, which
put AdmittedFits and WithinBudget side by side for the three settings of one run; the
theorems are about one receiver with any setting.

*The link* (`RelayLinkProofs`, both halves ReliableOrdered).  `LinkInv` says that what the
receiver holds was numbered by the sender; with `SenderInv` and `ReceiverInv` it gives
`AckedDelivered`, `FlushDelivered`, `RemoteCloseComplete` and the refinement
`LinkIsChannel`, action by action.

*StreamConn* (`StreamConnProofs`, with every fault of the paths and any number of
Resumes).  `StreamInv` gives `BytesInOrder`, `NothingLost` and `WindowBounds`.
`StreamTypeOK` says that every frame on a path or in pending carries the bytes its offset
names, and that every answer names an offset the receiver has reached: a late, repeated or
overtaking frame is then harmless whenever it arrives.  `ReaderInv`: what was read and what
is buffered are the bytes 1..rOffset.  `WriterInv`: what is acknowledged was received, every
byte after it is in a pending frame, and the offset that Resume keeps between its two
locks was acknowledged.  The properties alone are not inductive: NothingLost says nothing
of the answer that is about to remove a frame from pending.

*Requests* (`RequestsProofs`).  `VisibleIsBool`, for any number of callers, nodes and users
(texts and values are the representatives of the model): whoever writes
system.visible_to_others, through whichever of the two interfaces, and whatever other calls
and cancellations come between, the stored entry is a bool without an expiry.  The database alone is not inductive, because a request is checked by the client
and stored by the server later; `RequestInv` adds that a request on the wire that the
server will read as a write of this key carries such a value (`WireInv`).  One lemma per
interface goes through all its calls, one through the server's reading of a request
(`ReadWSMild`, `ReadHTTPMild`), one through the operations of the server (`MetaKeeps`).

*Client* (`ClientProofs`).  Three invariants, one for each concern.  `SendInv`: a tracked
send has not been reported and a send that was taken out is never tracked again
(`NotifiedOnce`).  `QuietInv`: a connection is published only while run serves it, and a
call that was written and has no result exists only until run fails the calls of that
connection (`CloseQuiesces`).  `MessageInv`: a stored cursor stands for a message that was
shown, is being shown, or was the answer of a call that took it or had ended, and the login or the push on this
connection keeps the server from pushing it again (`ShownOnce`, `NeverSkipped`).
CloseQuiesces speaks only of the state after Close, and the others of the counts alone;
the invariants say who is still able to change them.

*The registries* (`ClientProofs`).  `MuxInv` gives `LiveIsRegistered`, `CloseEndsStreams`
and `NoStrandedStream`: numbers are given in order, so a new stream never has the number
of an entry or of a removal under way (`MadeInv`), and once Close has taken its list only
the streams on it are live (`MuxClosingInv`).  `ManagerInv` gives `AliveIsOwner` and
`SessionBound`.  SessionBound alone is not inductive: a Connect that registers behind the
snapshot of closeAll stays alive across the login.  It is harmless because nobody can
answer an OPEN that has not been sent (`OpenSentInv`), while what a login has carried is
registered when closeAll takes its snapshot and has ended before the next login
(`CarriedInv`).

*The demo runner* (`DemoTreeProofs`, `DemoProofs`), for any number of branches and barriers
and any depth of parallel steps.  `DemoInv` (theorem
`RunnerInvariant`): a task that joins has started its branches and owns them, a branch that
runs has an owner that joins, and so has every task around it (`TreeInv`); a barrier has
as many hits as branches have come to it (`HitsInv`); a cancellation in errCh has a
cancelled context around it, and errCh is not empty when a parallel step is cancelled
(`ErrorInv`).  With validateParallelBarriers (`ScenarioInv`) a full count means that every
branch has come: `BarrierTogether`.  The first error of a parallel step is a cancellation
only if the context around it had ended: `ErrorIsCause`, by `WithinInv` up to the caller.
Neither is inductive without the tree: the hits and the errors of a task are those of the
parallel step it is at, so every branch that runs has to belong to that step.  `SessInv` gives `ClosedAtEnd`: a
logged-in client is the one its session names, unless the session was closed before or the
client was left behind by its Connect (`ClientInv`).  `DemoTreeProofs` takes `DemoInv` through the steps, the start, end, failure
and join of branches and the count of a barrier; `DemoProofs` shows what each step does to
the tasks, that it keeps `SessInv`, and that a full count lets every branch go on, and
has the theorems.

The type invariants of the Relay modules and of the registries, `InOrder`,
`AckedDelivered` and `RunnerInvariant` are only proved: what the runs check says more of the
behaviour.

Only model-checked:

* every liveness property (fairness and ENABLED are out of the prover's reach);
* `ExpectationsHold`: it is about what `matchSubset` computes on nested values, a recursive
  operator, and would need an induction over data;
* `ImplementsDirectory`: the answers to a listing are filtered and paged sequences
  (`SelectSeq`), so that an answer survives its encoding is an induction over data too.
  What the refinement says of the reserved key is proved as `VisibleIsBool`.

## 6. Not modelled

* Wire formats: the generated protocol code, the byte layout of stream frames, the copying
  of Relay envelopes, YAML decoding.  They hold no state; what is decoded is a record here.
* Password hashing is a library function; only the checks on its input are modelled.
* Attachment types and error codes that neither interface names, error wrappers, String
  methods, logging, the flags and exit codes of the demo command.
* handlePing of a Relay connection, which only answers with an ERROR frame, and the
  callbacks OnConnection and OnOrphan, which belong to the application.
* Times: every timeout may fire at any moment its code path is waiting.
* The end of the process: reconnects and store errors are modelled, a restart is not.
* The OPEN handshake between two managers is seen from one side: the other manager sends
  any packet at any time.

## 7. Where the code keeps less

Each of these is a behaviour the models have.  The property that would fail says so in its
comment and excepts it; what is left is checked, and proved where section 5 says so.

* `CloseNotBeforeAck` excepts an ACK that has failed for good.  receiveACKLoop resets
  ackSending (relay_dispatch.go:220) and closes the connection after it has released c.mu
  (226); in between finishReceiveACK of another frame can close ackIdle, and Close sends
  CLOSE without the ACK.  relay_retry.go:21 says "Close must not overtake a failed ACK".
  Without the exception (`CloseNeverBeforeAck`) TLC finds it in the instance of
  relay_receiver.
* `CloseReturns` of RelaySender is about a connection that receives no DATA.  With some, a
  dispatcher stuck on a full recvCh holds Close until its deadline (relay.go:494).
* `ResumeRepairs` excepts a Resume answered while Write is beyond the peer's credit.  The
  handler of an ACK moves acked (a window of 0 is ignored, stream_protocol.go:154) before it
  updates sendWin (stream_conn.go:506); a Write in between computes a credit the peer never
  gave, the peer refuses the bytes with ErrStreamCredit, and a Resume sends them only to have
  them refused again.  stream_conn.go:357 says "Write splits p into frames and waits for
  peer-advertised credit": as `WithinCredit` this is violated in the model, with a window
  of 2, 4 bytes and no faults within 11 states.
* `NeverSkipped` excepts the message of a SendMessage that had ended when its answer came:
  persistMessage stores the cursor whether or not resolvePending finds the caller
  (client.go:1451-1463), the next login lists the message as seen, and nobody gets it.
  That no message is shown twice (`ShownOnce`) rests on the server, which pushes a message
  once per connection and none that is listed as seen: docs/client-websocket.md:248-255 says
  the SDK starts with an idempotency check on (node_id, seq), and client.go:1399-1414 has
  none.
* `CloseQuiesces` and `CloseReturns` of Client are about a Close called from outside the
  handlers: one called from OnMessage would wait for the goroutine it runs on.
* `ImplementsDirectory` takes as the limit of ListMessages and ListEvents over the WebSocket
  what is left of it in an int32 (`Asked`; client.go:1023, 1079); without that the
  refinement fails for a limit beyond 2^31.  A limit that is not positive means no limit,
  and HTTP leaves it out.
* `ClosedAtEnd` excepts two clients that nobody can close any more: that of a session
  connected again after a close step (its `closed` flag stays set and closeAll passes it
  over), and one that logs in after its Connect returned the error of its context
  (client.go:362-374; executeConnect neither stores nor closes it, demo/runtime.go:215-217).
* `ExpectationsHold` excepts integers from 2^53 on, which numericEqual compares as float64.
* `OrderlyReturns` leaves out scenarios whose branches meet two barriers crosswise: Validate
  accepts them and they wait until the context ends, when `StopReturns` has them return.
* `OrderlyReturns` and `StopReturns` leave out a sleep that names no session: Validate
  accepts it (demo/schema.go:292-295), and executeStep dereferences the nil session
  (demo/runtime.go:124-125), which ends the process.
* `FlushDelivered` is claimed for ReliableOrdered only (finding 1).
