# hwarr: specifications, model checks and proofs

hwarr ("화르르") shows a map on which anonymous users light fires. A Go server
(`server/`) keeps the fires in Redis and talks to the browsers (`client/`) over
its own implementation of Socket.IO and Engine.IO. This directory holds TLA+
models of the server's stateful parts and of the client's stores, the TLC
configurations that check them, and TLAPS proofs about them. File names below are relative to the repository;
`sio/`, `engine/`, `redis/`, `model/`, `handler/` are under `server/internal/`,
`socketio/` and `engineio/` under `server/pkg/`.

Run a check with `tlc -config X.cfg M` (the module of each `.cfg` is in the table
of runs) and a proof with `tlapm M.tla`.

## 1. The system

### Components, their state and their operations

| Component | State | Operations | What makes it correct |
|---|---|---|---|
| Fire registration (`sio/fire_ignite.go`, `handler/demo_fire.go`) | locals of a handler; everything else is in Redis | ZCOUNT, hop to a neighbour, ZADD, SADD, INCR, INCR, ZINCRBY, ZCOUNT | a registered fire survives until it expires; the cascade ends; the limit of a cell is overshot by a bounded number; counters agree with the store |
| Fire stages (`model/fire.go`) | a table of thresholds | `GetStage` | monotone; "none" means no fire |
| Progression engine (`engine/fire_progression.go`) | `gridStages` | every 2 s: SMEMBERS, for each cell ZCOUNT, compare, broadcast, SREM | each change of stage of an indexed cell is announced, and once only |
| Cleanup engine (`engine/cleanup.go`) | none | every 60 s: SMEMBERS, for each cell ZREMRANGEBYSCORE, ZCARD, DEL, SREM, RemoveStage | deletes what has expired and nothing else |
| Redis store (`redis/`) | sorted sets `fire:{cell}`, set `active_grids`, counters, lists | one command at a time; errors, lost replies, resends | index and sets agree |
| Rooms (`socketio/room.go`) | two maps, room to sockets and socket to rooms | Join, Leave, LeaveAll, Members, Rooms | the maps are inverse, nothing leaks |
| Namespaces and dispatch (`socketio/namespace.go`, `server.go`) | `ns.sockets` | CONNECT, DISCONNECT, events, DisconnectAll, broadcasts | no broadcast to a socket unknown to the application |
| Connection manager and handlers (`sio/connection_manager.go`, `handler.go`, `disconnect.go`) | `connections`, `userSessions`, the rooms on record, heartbeats | Add, Remove, SetRooms, GetRooms, GetPreviousSession, RecordHeartbeat | a user's entry belongs to the newest session; the record agrees with the rooms |
| Reaper (`sio/reaper.go`) | none | every tick: GetStaleSIDs, DisconnectAll for each | whoever is gone is removed in the end |
| Rate limiter (`sio/ratelimit.go`) | buckets and violations by session | Allow, Remove | nothing is kept for a session that has ended |
| Viewport, chat (`sio/subscribe_viewport.go`, `chat_*.go`) | rooms; the chat list in Redis | replace the rooms; join, leave, send | a chat member stays one; clients end on what the list and the room hold |
| Packet codec (`socketio/packet.go`, `engineio/packet.go`) | none | build, Encode, Decode, number and replace binary data, join and split payloads | what is decoded is what was built; attachments find their places |
| Acknowledgements (`socketio/ack.go`) | pending callbacks with timers | Register, Resolve, timeout, cancel, RemoveAll | no request is forgotten; one answer at most |
| Engine.IO (`engineio/`) | sessions, buffers, transport, upgrade | handshake, polling, WebSocket, upgrade, ping, Close | packets neither lost nor reordered; nobody sleeps over a full buffer |
| Fire batcher (`sio/fire_batcher.go`) | pending updates | Add, flush, Stop | the update added last wins |
| Fire state queries (`sio/fire_state.go`, `get_fires_compat.go`) | none | SMEMBERS, for each cell ZCOUNT | a cell that burns all along is in the list |
| Client (`client/src`) | stores of fires, animations and chat | fires:sync, fire:update, history, message | the store ends on the newest data |
| Feedback (`handler/feedback.go`) | a counter in Redis per address and ten minutes | INCR, EXPIRE, limit, send | the limit is lifted when the window is over |
| Shutdown (`internal/server/server.go`, Run) | the loops, the Redis client, the listener | stop each loop, close sessions, Redis, HTTP | no engine runs without Redis; the process ends |

The REST read handlers, tokens, grid geometry, regions, the pages of the client,
`infra/`, `docs/` and `scripts/` keep no state that several actors share.

### How they interact

* The handlers of a client run one after the other in the goroutine that reads
  its transport (`engineio/websocket.go`, wsReadLoop). Handlers of different
  clients, the demo endpoint, the two engines, the batcher and the reaper run
  next to each other. Nothing spans two Redis commands: no transaction, no
  script.
* Closing an Engine.IO session calls `DisconnectAll` (`internal/server/server.go`,
  setupSocketServers) in whatever goroutine closes it: the read loop, the write
  loop or the ping loop. The reaper and the rate limiter call `DisconnectAll` too.
  So up to three goroutines may run `HandleDisconnect` for one client while its
  message goroutine still runs a handler.
* Four structures with four locks describe a connection (sockets, rooms, manager,
  limiter). No lock covers two of them.
* What the server sends a client goes through `Session.Send` into one buffer, which
  a waiting GET or the write loop empties. So each client gets what it is sent in
  one order, but the broadcasts of two goroutines come in any order, which need not
  be the same for every client.

### What is hard

Read-then-act across Redis commands; two engines with different clocks (seconds
and milliseconds) and different ideas of an empty cell; commands that fail or are
executed twice half-way through a registration; a disconnect in the middle of a
CONNECT or of an event; sessions of one user that overlap; packets in the buffer
while the transport changes; a timer that fires while the answer arrives; counts
taken in one order and broadcast in another; a history that overtakes a message;
a process that ends while requests run. `PROJECT.json` lists
each hazard with its line and the properties that look after it.

## 2. Modules

| Module | Models | Role |
|---|---|---|
| `FireStages` | `model/fire.go` | stages as an operator over a table of thresholds |
| `FireLifecycle` | registration, both engines, the Redis data they share | the core |
| `FireFeed` | broadcasts, batcher, queries, the client's map of fires | what becomes of a count |
| `RoomMembership` | what a room manager promises | abstract specification |
| `RoomIndex` | `socketio/room.go` | implements `RoomMembership` |
| `Connections` | connect, events, disconnect, reaper, limiter | uses `RoomMembership` for the rooms |
| `Dispatch` | `socketio/server.go`, `middleware.go`, `sio/ratelimit.go` | what becomes of each packet and of its ACK |
| `AckRegistry` | `socketio/ack.go` | callbacks against timers |
| `MessageChannel` | what a session promises the layer above | abstract specification |
| `EngineSession` | `engineio/session.go`, `websocket.go`, `server.go` | implements `MessageChannel` |
| `PacketCodec` | `socketio/packet.go`, `engineio/packet.go` | pure operators |
| `PacketTransfer` | packets built, sent, received | drives `PacketCodec` |
| `Chat` | `sio/chat_*.go`, its list in Redis, the client's store | |
| `Feedback` | `handler/feedback.go` | |
| `Shutdown` | `Run` of `internal/server/server.go` | |
| `MCFireLifecycle`, `MCConnections` | | small constants for TLC |
| `MCFireTrouble` | | two kinds of trouble side by side |
| `MCParts`, `MCMessages` | | small constants, several modules side by side |
| `FireLifecycleProofs`, `FireSpreadProofs` | | theorems about `FireStages` and `FireLifecycle` |
| `ConnectionsProofs`, `ChatProofs`, `FireFeedProofs` | | theorems about the module of that name |
| `SocketioProofs` | | theorems about `RoomIndex`, `AckRegistry` and `Dispatch` |
| `PacketProofs` | | theorems about `PacketCodec` and `PacketTransfer` |
| `ServerProofs` | | theorems about `EngineSession` and `Shutdown` |

An operator whose name has an underscore (`ScanCompare_RisesOnly`) is a plausible
wrong version of the one that follows it. It is used by no specification; put in
the other's place, it makes TLC report the property that `PROJECT.json` names with it.

### FireLifecycle

One action is one Redis command and the Go code up to the next one, so every
interleaving of commands is a behaviour.

* `fires[g]` is the sorted set of cell `g`, `expireAt[e]` the score of its member
  `e`; `activeGrids` the index; `totalFires`, `dailyFires`, `ranked` the counters.
* `Arrive`, `Enter`, `CheckRoom`, `CheckSpread`, `Landing`, `TrackActive`,
  `IncrTotal`, `IncrDaily`, `IncrRanking`, `FinalCount` are `registerFireEvent`
  line by line, with `igPc[e]` the place of handler `e` in it. `handler/demo_fire.go`
  has the same commands in the same order; there the request's context may be
  cancelled, which is a command that fails.
* `ScanStart` ... `ScanUnindex` are one pass of `scanAndUpdateStages`,
  `CleanStart` ... `CleanRemoveStage` one pass of `RunCleanup`. A pass visits the
  cells in any order, as Redis returns a set in any order.
* Time is in whole seconds. The scan reads a clock in milliseconds: `midSecond`
  says that the second is past its first millisecond, so the scan counts only
  fires that expire later (`MilliCutoff`).
* A failure (`faults`) leaves a command undone, done with its answer lost, or done
  and to be done again. The Redis client repeats a command up to three times
  (`NewClient` leaves `MaxRetries` at its default). Only commands for which twice
  differs from once, or a late repetition differs from an early one, have the
  third form.
* `raced` is a history variable: the fires that were registered while an engine,
  having found their cell empty, was on its way to SREM. `RegistrationDurable`
  excepts exactly those, and the run `IndexInStep` shows why it must.
* The scan writes its table under the lock (`ScanApply`) and broadcasts after it
  (`ScanAnnounce`); the cleanup may come in between. `announced[g]` is the stage
  that the clients were last told. `forgotten` is a history variable: the cells that
  the cleanup has dropped from the table since their last announcement. In those a
  transition may start at "none" again, which `TransitionsChain` excepts, or never
  come, which the run `FallsAnnounced` shows.
* `GetNeighbors8` fails only for a name that is not a cell, which the code has
  checked before; the branch (`fire_ignite.go:282`) is left out.

### RoomIndex

`rooms` and `sids` are the two maps of `RoomManager`; an absent key is a value
outside a function's domain, so that a forgotten `delete` shows. `RoomMembership`
is one relation. Its refinement maps the relation to the pairs of `rooms`.

### Connections

Every action is one critical section of one of the four structures and the code
up to the next one. A session has three goroutines in it: `msgPc` (messages),
`netPc` (whoever closes the session) and `reapPc` (the reaper, one for all).

* CONNECT is `Connect` (previous rooms looked up), `Register` (Add),
  `SetPrevious`, `Restore` (one room at a time) and `JoinNamespace`: the socket is
  entered last, when the handler has returned.
* `Subscribe`, `GetRooms`, `LeaveOld`, `EnterNew`, `TrackRooms` are
  `subscribe:viewport`; `ChatJoin`, `ChatEnter`, `ChatTrack` and `ChatLeave`,
  `ChatLeaveRoom`, `ChatUntrack` the chat; `Send` any other limited event;
  `Reject` an event that the limiter refuses. A `ConnectionInfo` outlives its
  entry in the table, so `infoRooms` is kept when `Remove` drops it.
* `HasSocket`, `DropSocket`, `LeaveAllRooms`, `RemoveConn`, `ForgetLimits` are
  `DisconnectAll` and `HandleDisconnect`; three actions run them, one for each
  goroutine.
* Events of a client that is no longer in the namespace are handled all the same:
  `HandleEvent` does not look, and neither the reaper nor the limiter closes the
  Engine.IO session. `strayed` remembers the sessions to which this happened.

Assumed of the client: it sends CONNECT once in a session, and no event before it,
as the client library does (the server does not check: `namespace.go:156`,
`socketio/server.go:196`). A CONNECT whose token is refused (`handler.go:80`) touches
no state that is shared and is left out. The refill of the token buckets is a free choice between acceptance and
rejection.

### Dispatch

One packet of one client is one step: the messages of a session are handled one
after the other (`Connections` has what goes on meanwhile). `ConnectPacket` ...
`Refuse`, `Allow`, `Reject` are the branches of `DispatchPacketFull` with the
limiter's middleware in front of the handler; `bucket` and `violations` are the
limiter's maps, with `Fresh` for a bucket that has not been made. `Disconnect` is
DISCONNECT or the reaper; the client may go on sending, as nobody closes its
session.

### AckRegistry

`pending` has the two levels of the map. A timer is armed, fires, takes the lock,
calls; an ACK packet takes the lock (`ResolveTakes`), stops the timer
(`ResolveStops`), calls (`ResolveCalls`). `calls[r]` records what the callback of
`r` was called with. A request may take the key of another, as `Register` takes
any id. Nothing in the server calls the registry: it asks for no ACK, drops the ACK
packets it gets (`socketio/server.go:213`), and no disconnect calls `RemoveAll`. The
module is about the package's own promise to whoever uses it.

### EngineSession

`buf`, `closed`, `bound`, `upgrading` are the fields under `s.mu`; `recvSig` and
`wsSig` the channels with one slot; `poll`, `ws`, `wl` the places of the GET
handler, the WebSocket handler and the write loop; `listed` the server's table.
`Upgrade` is `UpgradeToWebSocket`. `client` is what the library does: it stops
polling before it sends UPGRADE. Pings count for the signal they give only: one that
is put into the buffer before a WebSocket is bound is not in it. `MessageChannel` sees `pollOut \o wlOut \o buf`
as underway.

### PacketCodec and PacketTransfer

A JSON value is a function from paths to leaves, a text frame a sequence of tokens.
`Numberings` has every order in which a Go map may be walked. `Encode` and `Decode`
follow the code branch by branch, with the digits of numbers one by one, since
that is where an attachment count, a namespace and an id could run into each other.
`PacketTransfer` builds packets (`Build`), sends them by `Poll` or by `WriteFrames` and
puts them together as the comments of `AddAttachment` ask of a caller. `emitted` and
`received` are history, `buffer` and `frames` the frames not sent and not read yet,
`packet` the one that waits for attachments. The numbers of a frame, its joined
payload and the split are recursive functions, not RECURSIVE operators, so that they
can be reasoned about. An empty array or object has no leaf and is not told from
a missing one: messages are made of values with one leaf at least
(`TransferAssumption`).

### Chat

`pc[c]` is the place of client `c`'s handler: `Push`, `Trim`, `Members`, `Send` for
chat:send; `Enter`, `LoadHistory`, `Count`, `Members`, `Send`, `Answer` for
chat:join; `Leave`, `Count`, `Members`, `Send` for chat:leave and for the chat part
of `HandleDisconnect`. `inbox[c]` is on its way to the client, `view` and
`presence` are in its store. History variables remember what `setHistory`
replaced, joins that could not read the history, and counts taken while an older
one was not out yet. LPUSH, LTRIM and EXPIRE are two steps, as nothing looks at the
time to live in between: the LPUSH may fail, and of the other two each or both. The
join of a client unknown to the manager is in `Connections`; `EnterRoom` fails for an
unknown namespace only, and this one exists.

### FireFeed

`Register` counts a cell; `Tell` and `Add` broadcast the count and give it to the
batcher; `FlushTakes` and `FlushSends` are its tick; `ScanCounts` and
`ScanAnnounces` the scan's broadcast; `ReadCell`, `ReadFails` and the answers the
queries, which collect the cells that burned when they began: an unindexed cell
(`IndexInStep`) is in no list. `shown` is the client's map. `lastAdded` and `disturbed` are history.

### Feedback and Shutdown

`Feedback` has the counter of one address, its time to live in ticks, and requests
at INCR, EXPIRE, the limit or Discord. `Shutdown` has the four loops, the goroutine
that stops them one after the other, the main goroutine (`Exit`) and requests with
two writes each. A loop whose tick and whose stop are both ready takes either.

### MCFireTrouble, MCParts and MCMessages

Races and failures together are beyond what a run can visit: the variable `trouble`
of `MCFireTrouble` says which of the two a behaviour of `FireLifecycle` has. The
proofs have both at once.

Modules that share no variable are checked in one run: the variable `part` says
whose steps a behaviour has, and the others rest. TLC so visits the sum of their
states, not the product, and the properties of a part are as they would be in a
run of its own. The fairness of `MCParts` is that of the part that moves.
`MCParts` and `MCMessages` extend the modules that have proofs, whose names therefore differ
(`SessionInit`, `AckInit`, `FeedInit`, `DispatchInit`, `TransferInit`), so that the properties they
check are those proved.

## 3. Runs

| Run | Module | Shows |
|---|---|---|
| `FireLifecycleDurable` | MCFireTrouble | one cell, both engines, the clock past an expiry; two handlers at once, or one at a time and one command that fails or is repeated: `TypeOK`, `RegistrationDurable`, `AckSeesOwnFire`, `TransitionsChain` |
| `FireLifecycleSpread` | MCFireLifecycle | three fires, two cells, limit one, two hops, one fault: `OvershootBounded`, `StatsBracketed`, `IgniteTerminates` |
| `FireLifecycleStages` | MCFireLifecycle | fair engines: `StageEventuallyTold`, `ExpiredReclaimed` |
| `ConnectionsReaped` | MCConnections | one session, three events, reaper: `TypeOK`, `SocketsRegistered`, `OnlyStraysLeaveTraces`, `EventuallyForgotten` |
| `ConnectionsPair` | MCConnections | two overlapping sessions of a user: `SessionTableSound`, `TrackedRoomsMatch` |
| `Parts` | MCParts | rooms: `MutuallyInverse`, `NoEmptyEntries`, `ImplementsMembership`; a session: `NoSleepOverWork`, `ImplementsChannel`, `Delivered`, `EventuallyDropped`; acknowledgements: `NoneForgotten`, `NothingLeaks`, `AnsweredOnce`, `EventuallyCalled`; feedback: `KeyExpires`; the shutdown: `EnginesEndFirst`, `SignalExits` |
| `Messages` | MCMessages | chat: `ShowsNewest`, `ShownOnce`, `PresenceSettles`; the feed: `LastAddedShown`, `ListsHonest`; dispatch: `RateBounded`; encoding: `Reassembled`, `HandlersGetArguments` |

Five more runs check a statement of the documentation or of a comment and end in a
counterexample:

| Run | The documentation | The code |
|---|---|---|
| `IndexInStep` | `active_grids` is in step with the fires | an SREM after an earlier count takes out the cell of a new fire |
| `FallsAnnounced` | the scan catches a stage that falls by expiry (`fire-stages.md:48`) | the cleanup may unindex the cell and forget its stage first, and nobody is told |
| `RoomsRestored` | the rooms survive a disconnect | `Remove` deletes the user's entry |
| `ChatKept` | chat is not among the rooms a viewport replaces | it is, and it is not joined again |
| `RequestsFinish` | a graceful end of the HTTP server | `Run` returns as soon as the listener closes, not when `Shutdown` does |

Met on the way, without a run of their own:

* Ranges in Redis include their ends, so a fire whose score is the current second
  is counted as active (`docs/reference/fire-stages.md` says `score >
  current_time`) and deleted (`engine/cleanup.go:179` says `score < now`).
* The threshold that the documents call the upper limit of a cell is a check
  before the write; `OvershootBounded` says by how much it is exceeded.
* When the scan unindexes a cell before cleanup has been there, its expired members
  stay (`docs/reference/redis-schema.md:233`). `ExpiredReclaimed` and
  `StageEventuallyTold` except cells that left the index.
* `docs/reference/fire-stages.md:47` says that a registration announces a change of
  stage at once. Nothing in the server calls `BroadcastStageChange`: a handler sends
  `fire:update`, and the transition waits for the next scan.
* The comments at `sio/fire_batcher.go:23` and `:79` call the flush room-scoped. The
  code (`:104`), its tests and `docs/reference/api-socketio.md:308` broadcast to all.
* `HandleDisconnect` "cleans up all room memberships", except those a handler makes
  after it (`OnlyStraysLeaveTraces`).
* The limiter's "consecutive" rejections (`ratelimit.go:22`) are never reset by an
  accepted event. The error of a rejected event "is delivered to the client as an ACK
  error message" (`ratelimit.go:116`): it is not, as the bridge acknowledges data
  only (`internal/server/server.go:156`) and logs the error (`Reject` of `Dispatch`).
* The chat list has 100 messages at most, kept by an atomic pipeline
  (`docs/reference/redis-schema.md:137`, `:150`; the comment at `chat_send.go:149`). The code
  sends LPUSH, LTRIM and EXPIRE one by one: the list is longer than that in between,
  and until the next message when the LTRIM fails (`Push` and `Trim` of `Chat`).
* `RemoveAll` of the acknowledgements drops callbacks silently, but a timer that has
  fired by then still calls its own (`ack.go:142`).
* `DeconstructBinary` looks for `[]byte` in parsed JSON, where there is none
  (`packet.go:412`), and a binary event is dispatched before its attachments
  (`socketio/server.go:196`). No client of this program sends binary data.
* The demo endpoint's `fire:update` has no `gridId`: the client's map ignores it.
* `users:count` is counted and broadcast like `chat:presence`, in two steps; two
  handlers may leave clients with the older number until the next change.

### Bounds, and why they are enough

* Fires, cells, hops: a race is between one fire and an engine, or between two
  handlers in a cell, which `Two` fires and `OneGrid` show; spreading needs a
  second cell and a third fire, which is forced to land. `TTL = 1`, `MaxTime = 1`
  let a fire be born, live through its last second and expire; later seconds
  repeat. `MaxInFlight` is 2 where handlers race with each other; `MCFireTrouble` lets
  one run at a time where commands fail. The stage thresholds
  are 1, 2, 3, ... instead of 1, 10, 40, 120, 280, so that two fires make a stage rise,
  fall and be skipped.
* One fault: a second one repeats what the first has shown at another command.
* Rooms: three rooms and sockets are one more than a shared entry needs.
* Sessions: two for what overlaps, one for what is between the goroutines of a
  client; the reaper together with two sessions is beyond ten million states,
  and it treats sessions one by one. One cell and the chat room are enough for
  "left" and "kept". `MaxViolations = 1` stands for ten. `MaxEvents` (3 for one
  session, 2 for two) bounds the events sent, not the connects and disconnects; two
  are needed for one viewport to replace another.
* `Parts`: three messages (`MaxSends`) are one in a poll's hands, one in the write
  loop's and one in the buffer; three requests are one that replaces another
  and one with another id; one failing command, a limit of one and two ticks for
  the feedback; two requests for the shutdown.
* `Messages`: two clients and two messages, with one message kept, are the least for
  a history that overtakes a message and for a list that is cut
  (`MaxKept = HistorySize = 1`); four requests are join, send, leave and join again.
  Two cells and three fires, one for each way of telling. Five packets and a burst
  of two reach a rejection, a disconnect and an event after it. Two transfers of
  seven kinds of packet show one packet running into the next; an id of three digits
  and two attachments, nested and not, next to placeholders of the sender's own,
  show the rest of the grammar.
* The mutants named in `PROJECT.json` show that each property can fail within these
  bounds.
* No deadlock check: clients may stop sending, and the events are bounded.

### Fairness

* `WF(Handler(e))`: a goroutine that has started is scheduled again, and every
  Redis call returns, as the client is given timeouts (`redis/fire.go`).
* `WF(Progression)`, `WF(Cleanup)`: tickers that run until the server stops.
* `WF(Handling(s))`, `WF(NetDisconnect(s))`: handlers run to their end.
* `WF(ReadLoopEnds(s))`: a read from a connection that is gone returns an error.
* `WF(Quiet(s))`: a client without heartbeats becomes stale; `WF(Reaper)`: ticker.
* `EngineSession`: `WF` of the handlers and loops, of a read that fails, of the ping
  ticker, and of the client's polls and the end of an upgrade it began, which the
  library does without being asked.
* `AckRegistry`: `WF` of timers and of a `Resolve` that has begun. No ACK ever has
  to arrive.
* `Feedback`: `WF` of time and of handlers that have begun.
* `Shutdown`: `WF` of goroutines; `SF(LoopEnds)`, since a `select` with both cases
  ready chooses at random and takes the stop in the end.
* Nothing is assumed of clients (`Arrive`, `Open`, `Subscribe`, ...) or of time
  beyond that (`Tick`).

## 4. Proofs

All for every value of the constants, under the assumptions named in the modules
(`ConstantsAssumption`, `ConnectionsAssumption`, `ChatAssumption`, `FeedAssumption`,
`DispatchAssumption`, `TransferAssumption`, and in `FireStages` the thresholds in descending order), which
TLC evaluates in the runs.

| Theorem | Statement | Argument |
|---|---|---|
| `FireLifecycleProofs!GetStageMonotone`, `StageNoneMeansEmpty` | more fires, no lower stage; "none" exactly at zero | `GetStageSpec`: `GetStage` is the highest stage whose threshold is reached |
| `FireLifecycleProofs!TypeCorrect` | `[]TypeOK` | one lemma per process |
| `FireLifecycleProofs!FiresDurable` | `[]RegistrationDurable` | `DurableInv` below |
| `FireSpreadProofs!OvershootIsBounded` | `[]OvershootBounded` | `OvershootInv` below |
| `FireSpreadProofs!TransitionsChained` | `Spec => TransitionsChain` | `ChainInv` below |
| `FireSpreadProofs!AckCountsOwnFire` | `AckSeesOwnFire` | `DurableInv`: the fire is in the cell, and the count's cutoff is before its end |
| `FireSpreadProofs!StatisticsBracketed` | `[]StatsBracketed` | `StatsInv` below |
| `FireFeedProofs!MapEndsOnLastAdded` | `[]LastAddedShown` | `Held` and `Carried` below |
| `FireFeedProofs!ListsAreHonest` | `[]ListsHonest` | `Honest` below |
| `ConnectionsProofs!TypeCorrect` | `[]TypeOK` | a disconnect's step typed once for its three goroutines |
| `ConnectionsProofs!BroadcastsGoToRegistered` | `[]SocketsRegistered` | `RegisteredInv` below |
| `ConnectionsProofs!LatestSessionKeepsEntry` | `[]SessionTableSound` | only `Add` and `Remove` touch the table (`NextTableStep`) |
| `ConnectionsProofs!RecordsMatchRooms` | `[]TrackedRoomsMatch` | `RoomsInv` below |
| `ConnectionsProofs!EndedLeavesNothing` | `[]OnlyStraysLeaveTraces` | `TracesInv` below |
| `SocketioProofs!RateIsBounded` | `[]RateBounded` | `Allowance` below |
| `ChatProofs!NothingShownTwice` | `[]ShownOnce` | `Unrepeated` below |
| `ChatProofs!PresenceIsRight` | `[]PresenceSettles` | `Counted` below |
| `ChatProofs!NewestArrive` | `[]ShowsNewest` | `Arrives` below |
| `SocketioProofs!IndexTypeCorrect`, `AckTypeCorrect` | `[]TypeOK`, `[]AckTypeOK` | one step per operation |
| `SocketioProofs!MapsAreInverse`, `NoEmptyRooms` | `[]MutuallyInverse`, `[]NoEmptyEntries` | inductive together with the types |
| `SocketioProofs!IndexRefinesMembership` | `Spec => ImplementsMembership` | each operation is the operation of the relation |
| `SocketioProofs!RequestsAreKept`, `NothingIsLeft`, `OneAnswer` | `[]NoneForgotten`, `[]NothingLeaks`, `[]AnsweredOnce` | `RegistryInv` below |
| `PacketProofs!SplitUndoesJoin` | a payload is split into the packets it was joined from | `EncodePayload` and `DecodePayload` in step, frame by frame |
| `PacketProofs!DecodeUndoesEncode` | `Decode(Encode(p))` is `p` without its attachments | `Laid` below |
| `PacketProofs!ReconstructUndoesDeconstruct` | the values come back, for every numbering | a numbering hits every number once, so each placeholder finds its own buffer |
| `PacketProofs!EventTakenApart` | name and arguments of an event come back | the greatest first index is the number of values |
| `PacketProofs!PacketsReassembled` | `[]Reassembled` | `TransferInv` below |
| `PacketProofs!HandlersServed` | `[]HandlersGetArguments` | `TransferInv` and `EventTakenApart` |
| `ServerProofs!SessionTypeCorrect` | `[]SessionTypeOK` | from `CarryInv` |
| `ServerProofs!NobodySleepsOverWork` | `[]NoSleepOverWork` | `SleepInv` below |
| `ServerProofs!SessionIsAChannel` | `SessionSpec => ImplementsChannel`, for `MaxSends \in Nat` | `CarryInv` below |
| `ServerProofs!EnginesBeforeRedis` | `[]EnginesEndFirst` | `EndedInv`: where the shutdown stands says which engines have ended, and an ended loop has no step |

* **Durability.** `RegistrationDurable` is not inductive: whether DEL and SREM spare
  a fire depends on what the engines have seen. `DurableInv` adds that an engine
  on its way to SREM has found the cell empty of fires that are not in `raced`
  and that the cutoff of a pass is never later than the clock.
* **Overshoot.** A handler past its check holds a claim on the cell. `OvershootInv`
  counts fires and claims together: at the moment of a check that succeeds there
  are fewer than `Threshold` unexpired fires, and at most `MaxInFlight` claims.
* **Transitions.** `ChainInv` ties three things to each other: outside the scan's write
  and broadcast, the table shows what was announced or "none" in a forgotten cell
  (`TableTold`); the scan's `pgPrev` is what was announced last, or "none" in a
  forgotten cell, and not the stage it has counted (`TransitionStart`); and between
  the two steps the table holds the counted stage unless the cleanup came
  (`WriteStands`).
* **Sockets.** `RegisteredInv` says that nobody is inside `HandleDisconnect` for a
  session whose CONNECT is not over (it could not have seen the socket), and
  that whoever is past the removal of the socket finds it gone for good. Hence
  `Remove` never hits a session whose socket is there.
* **Rooms on record.** `TrackedRoomsMatch` speaks of clients with no handler under
  way. Within a handler the rooms and the record differ, and `RoomsInv` says how at
  each point: a connect has restored all but `todo`, a viewport event has left all
  but `todo`, a chat event is one room ahead. It says nothing from the moment a
  goroutine has emptied the rooms of a client: the same goroutine takes it off the
  table next, and a session never comes back to the table.
* **Traces.** `TracesInv`: while no event of a client strays, whoever drops its socket
  finds no event of it being handled, and from then on its rooms and its bucket
  are there only as long as some goroutine has yet to remove them. The history
  variable `strayed` excepts exactly the sessions with an event handled meanwhile.
* **Map of fires.** What is pending is what the batcher was given last (`Held`). For a
  cell that is not pending `Carried` says that the batch under way carries that
  count, or the client shows it, or a handler that broadcast a newer one has yet to
  give it to the batcher. At rest there is no such handler and no batch.
* **Lists.** `Honest`: of the cells that burned all along, those that are not yet read
  and did not fail are all that is missing, and `lit` and `dark` are right now, not
  only when the query began.
* **Rate.** `RateBounded` is not inductive: `Allowance` adds the tokens that are
  left to the events let through. A disconnect renews the bucket and adds a burst to
  the bound.
* **Chat.** `ChatInv` has three parts over types that say what a handler has in hand at
  each step. `Unrepeated`: the list, every history read, sent or shown, has no message
  twice, for a new one is above all the old (`list[i] <= made`). `Counted`: unless
  `raced`, at most one count is out; once nobody is between a change of the room and
  its count, that count is right, and it is on its way to a member or the last number
  the member was sent. `Arrives`: for a member that has read its history, each of the
  newest messages is in the hands of a sender that will still reach it; or is in its
  store or inbox with at most one history to come after it; or is in the last history
  it will get; or was replaced by it. That at most one history is to come is the
  point: the second would drop what the first has remembered in `replaced`. `Reaches`
  states this of one inbox, one store and one history, and lemmas about sequences
  carry it over each append and each receipt.
* **Statistics.** Each counter is bracketed by the number of handlers past its
  increment (`StatsInv`): every handler past it has been counted, and what was
  counted is a handler past it, a failed one, or a command executed twice, one per
  failure. The acknowledged and the written fires of `StatsBracketed` lie outside
  that bracket.
* **Sleep.** `NoSleepOverWork` says nothing of a write loop in the middle of its
  packets, which will look at the signal again; `SleepInv` does, and says that the
  buffer of a WebSocket that is not bound yet is empty and that a write loop means
  a bound session, which is where the signals go.
* **Channel.** The order across the change of transport rests on what `CarryInv`
  says of who may hold packets: a poll only until it has answered, and never once
  the client has turned to the WebSocket; the write loop only from then on. Hence
  at most one of `pollOut` and `wlOut` is filled, and both were taken before `buf`.
* **Acknowledgements.** `RegistryInv` is `WellKept` (entries under their own keys,
  no empty map, so that a deletion by key takes one request) and `Life`, which
  ties the timer, the `Resolve` and the calls of a request to whether it is pending.
* **Frames.** `Laid` says where each part of a text frame begins. A search of `Decode`
  (`IndexOf`, `IndexNot`) ends where the next part begins, as no token before
  that is of the kind it looks for; `ValueOfDigits` says that the digits of a number,
  of whatever length, are read back as that number.
* **Packets.** `Reassembled` says nothing of frames on their way, and the frames
  already read are in no variable. `TransferInv` says that there are a sequence of
  all frames ever sent, the packets they belong to, the position at which each packet
  starts and the number of frames read, such that `frames` and `buffer` are the
  rest of that sequence (`Line`), every packet received is the one built at its
  place, and the packet that waits is the next one with its first `k` attachments,
  `k` frames after its start (`Progress`). A frame read is then known by its number:
  the text of the next packet or its attachment `k + 1`, never one of another packet.
* **Induction.** What a recursive function computes is proved with the smallest
  counterexample: the library's `WFMin` takes a set where the induction theorems take
  an operator. `Induction` and `Recursion` of `PacketProofs` state this for numbers,
  and each recursion of the codec has a lemma that unfolds it (`JoinedStepwise`,
  `SplitStepwise`, `DigitsStepwise`, `ValueStepwise`).

Model-checked only:

* the liveness properties (`IgniteTerminates`, `StageEventuallyTold`,
  `ExpiredReclaimed`, `EventuallyForgotten`, `Delivered`, `EventuallyDropped`,
  `EventuallyCalled`, `KeyExpires`, `SignalExits`), which the provers cannot do:
  they rest on fairness and ENABLED.

Every invariant and every action property that a passing run checks, and the
refinement of both abstract specifications, is stated by a theorem.

## 5. Not modelled, and the plan

Next, in this order:

1. `FireLifecycle` and `FireFeed` in one model, with stage announcements and single
   counts in the same client.
2. `users:count`, with sessions that overlap.

Parts of modelled components that are left out: the validation of inputs and the
spread animation of a registration; the snapshot sent back by a viewport; message
text, identities and the store's cap of the chat; origins, size limits and
malformed requests of Engine.IO; parsing of JSON; `ReplaceRooms` and the listings of
rooms, which nothing in the server calls; the time that a token of the limiter takes
(a refill may come at any time).

Out of reach or without content for these tools: floating-point geometry, HMAC
tokens, HTTP handlers that only read, rendering, infrastructure. The data race on
`ConnectionInfo.Rooms` (`sio/chat_join.go:62` writes a plain map that a reconnect
may be copying) can end the Go process; the models treat each access as atomic.
A second CONNECT within one session, which the client library does not send, is
not modelled.
