# natsub in TLA+

natsub lets web socket sessions subscribe topics of a NATS server. The
repository has three parts with logic of their own: the Java service
(`src/src/main/java`), the NATS server gnatsd in Go, vendored under
`src/example/topic/scheduled.nats.trigger/Godeps/_workspace/src/github.com/nats-io/gnatsd`
and run beside it, and a browser client (`ws.js`). This directory holds TLA+
models of the first two, the TLC runs that check them, and theorems that TLAPS
proves.

## The system

```
ws.js --web socket--> WebSocketService --> MessageProcessor --> actions --> TopicManager
                                                                              | HandlerFactory
session <--sendText-- NatsHandler.execute <--reader thread-- Connection <-- NatsHandler
                                                              (NatsManager)
                                                                  | TCP
main.go --publishes--> gnatsd:  parser --> client --> sublist (cache: hashmap)
                                              | route
                                           another gnatsd
```

| Component | State | Operations | Talks to |
|---|---|---|---|
| `ws.js` | one global socket, a closed flag and message handlers per instance, timers | connect, send, send_params, close, register_handler, disregister_handler; callbacks open, message, close, timer | the endpoint |
| `WebSocketService` | one static MessageProcessor | onOpen, onMessage, onClose, onError, on the container's threads | MessageProcessor |
| `MessageProcessor`, `Topic` | the list of actions; TopicType is fixed at compile time | onMessage (parse, health check, dispatch), onClose, onError; buildTopic, splitString | the actions, the session |
| `TopicManager`, `HandlerFactory` | an unsynchronised `WeakHashMap<Topic, WeakReference<NatsHandler>>` shared by all sessions | subscribeTopic, unsubscribeTopic, unsubscribeTypeTopic, unsubscribeAllTopic; getHandler, generateHandler | NatsHandler; the garbage collector is its silent partner |
| `NatsHandler` | topic, subId, a `HashSet` of sessions | register, disregister (synchronized), execute (not) | NatsManager; the sessions |
| `NatsManager` | conn | getConnection (double-checked), buildConnection | `org.nats.Connection` |
| `org.nats.Connection` (a jar) | socket, map from sid to handler, reader thread, timer | connect, isConnected, subscribe, unsubscribe | gnatsd; calls execute |
| `main.go` | none | publishes one topic every four seconds | gnatsd |
| gnatsd `parser.go` | parse state, argument and message buffers of a connection | parse of each read | the handlers in client.go |
| gnatsd `client.go`, `server.go` | clients, their subscriptions, write buffers, ping and auth timers | accept, the read loop with SUB, UNSUB, PUB, PING, PONG, CONNECT, delivery, flush, closeConnection, Shutdown | sublist, other clients |
| gnatsd `sublist.go` | tree of subject tokens, cache of results | Insert, Remove, Match | its hash map |
| gnatsd `hashmap.go`, `rand_evict.go` | buckets of chains | Set, Get, Remove, All, resize, RemoveRandom | |
| gnatsd `route.go` | s.remotes, s.routes, dial goroutines | connectToRoute, createRoute, processRouteInfo, addRoute, reConnectToRoute; sendLocalSubsToRoute, broadcasts | the same code in another server |
| gnatsd `conf/`, `opts.go`, `auth/`, `monitor.go`, `log.go` | options read at start, counters | | |

What is hard, and what makes each part correct:

* **Registry.** The map holds neither its keys nor its handlers. A handler is
  kept by its NATS subscription and by local variables, its Topic object by the
  handler. `put` under an equal key keeps the *old* key object. Lookups and
  copies of the key set take no lock while other threads put. Correct means: a
  handler with sessions is never lost and stays findable, requests change only
  the registrations they are about, a closed session is forgotten, requests end.
* **Handler.** Several threads register and disregister while a reader thread
  sends, `subscribe` and `unsubscribe` may fail in the middle, connections are
  built lazily, lost and rebuilt. Correct means: the two methods are atomic to
  their callers, sessions and subscription agree, a message goes to exactly the
  registered sessions, nobody blocks for ever.
* **Message processor.** Sequential; the difficulty is the grammar. Correct
  means: a message asks for what its last well-formed words ask for.
* **Parser.** A stream arrives in reads cut anywhere, and slices point into a
  buffer that the next read overwrites. Correct means: the handlers get what was
  sent, whatever the cuts.
* **Clients.** Every client is written to, unsubscribed from and closed by the
  goroutines of the others, by timers and by the shutdown. Correct means: a
  closed client leaves nothing behind, maxima hold, what is written is flushed,
  a silent client is closed.
* **Subject list.** Match looks at the cache, lets go of the lock and fills the
  cache later; removal prunes the tree; the cache evicts and rehashes. Correct
  means: it is a set of interests and answers as one.
* **Routes.** Both ends of a connection register, find duplicates, close and
  reconnect on their own. Correct means: the two keep one connection and agree
  on which, and do not give up.
* **Interest.** Snapshots, broadcasts and messages cross on a route that is just
  coming up. Correct means: each server knows what the other has, and a message
  reaches everyone once.
* **Web client.** Sends before the socket opens wait on timers of their own.
  Correct means: in order, at most once, and to the handlers that were registered.

## Modules

| Module | Models | Extends or instantiates |
|---|---|---|
| `TopicManager` | the registry, the actions that call it, onClose, the collector | Registrations |
| `Registrations` | what the registry promises | |
| `NatsHandler` | NatsHandler, NatsManager, what they use of the client library | HandlerContract |
| `HandlerContract` | what register and disregister promise the registry | |
| `MessageProcessor` | onMessage, parse, buildTopic, the dispatch | |
| `Parser` | parser.go with the argument handling of client.go | |
| `Clients` | the connections of one server | |
| `Sublist` | sublist.go | HashMap, SubjectInterest |
| `HashMap` | hashmap.go and rand_evict.go, as operators on a value | |
| `SubjectInterest` | what a subject list promises | |
| `Routes` | how two servers come to keep one route | |
| `Interest` | what two servers know of each other, and messages between them | |
| `MC...` | instances for TLC; `MCNatsHandlerLive` counts calls and losses, too | the module they are named after |
| `TopicManagerProofs`, `NatsHandlerProofs`, `RoutesProofs`, `ClientsProofs`, `InterestProofs`, `MessageProcessorProofs`, `ParserProofs`, `SublistProofs` (HashMap's too) | theorems | their module, TLAPS |

Operators named `X_y` are variants: `X` with a bug someone could write. Each
property is violated when its variant takes the place of the definition, so each
says something about the code.

The server's modules meet at what each takes of the next: Clients uses the
subject list as a set of subscriptions, which Sublist shows it to be; Parser ends
where the handlers of Clients begin; Interest takes the list as a set too, a
route that is there from Routes, and the order of operations from Clients.
NatsHandler takes from the server that a subscription it made is delivered to.

### TopicManager

A thread is a session's onMessage or its onClose. `pc` walks through a call:
`looping` over the topics of an array or a copied key set, `copying` the key
set, `generating` (in generateHandler, waiting for its lock), `invoking`
(holding a handler, about to call it). `call` has the local variables, because
they are what the collector must respect. The map is `key` (the key object
of the entry for a name) and `ref` (what its weak reference yields). Topic and
Handler objects are members of bounded sets that are free again once collected:
a behaviour of any length needs only as many as live at one time.

What keeps a handler is the map of subscriptions in the NATS connection, where
the library files it before it sends anything. A `Register` that fails may
therefore leave the handler there (`leaked`), under an id that nobody knows and
nobody takes out. The connection is one object throughout this module; that
NatsManager may replace it, and the map with it, is modelled in NatsHandler, and
no property of TopicManager is about handlers whose connection is gone.

| Code | Actions |
|---|---|
| `SubAction`, `UnsubAction`, `UnsubTypeAction`, `UnsubAllAction`, `onClose` | `Subscribe`, `Unsubscribe`, `UnsubscribeType`, `UnsubscribeAll`, `OnClose` |
| `new HashSet<Topic>(handlers.keySet())` | `StartPass`, then `CopyDone`, or `CopyThrow` when a put moved modCount |
| the loop, `getHandler` and its unlocked `fetchHandler` | `Fetch` |
| `generateHandler` under the factory's lock, second look included | `Generate` (with `Put`) |
| `register`, `disregister` under the handler's lock | `Register`, `Disregister` |
| end of a request | `Return` |
| the collector clears a handler, a Topic (and its entry) | `CollectHandler`, `CollectTopic` |

The collector clears handler and Topic in separate steps since a generational
collector may find the one long before the other. The unsynchronised WeakHashMap
is a data race; `Torn` admits the outcomes that matter here: a get misses an
entry whose put is under way (always admitted), a copy that meets a put ends
early, a put is lost to a reader that expunges stale entries. Corruption beyond
that (a chain that loops) is left out. `ConcurrentClose` lets the container run
onClose beside the session's own onMessage. The runs leave it off, since four
threads on one map are too many states; the theorems hold with it on or off.

### NatsHandler

A thread of the container waits to enter (`entering`), and then holds the
handler's lock through `checking` (the unlocked look at the connection),
`building` (waiting for the manager's lock), `connecting` (holding it), `using`
(subscribe or unsubscribe) and `adding`. `lost` has the connections that have
been lost at least once, `subs[c]` is the map of connection c, `reader[c]` its
reader thread, and `round[c]` the iterator of execute's loop: `next` is the
element `HashIterator` has fetched ahead, `raced` says that modCount moved.

| Code | Actions |
|---|---|
| `register`: lock, hasSubscribed; then sessions.add | `EnterRegister`, `Add` |
| `disregister`: lock, sessions.remove, size | `EnterDisregister` |
| `getConnection`: look, lock and second look; `buildConnection` | `CheckConn`, `EnterBuild`; `Connect` |
| `subscribe`, `unsubscribe`, their exceptions | `Subscribe`, `Unsubscribe`, `UseFails` |
| `execute`: iterator, next() and its fetch-ahead, ConcurrentModificationException, synchronized(session), sendText, end | `Deliver`, `Take`, `Advance`, `Comodify`, `SendStart`, `SendEnd`, `EndRound` |
| the library: connection lost, back with its map replayed | `Drop`, `Reconnect` |

`Lossy` admits Drop and `Failing` admits exceptions. The client library is
external. What the model says of it was read off the class files of the jar: a
subscription is filed before it is sent, unsubscribe of an unknown id returns,
the reader's loop catches only IOException, a reconnection replays the map and
has a thread that reads. That commands are buffered, that a caller whose flush
fails becomes a reader itself, and that two concurrent subscribes may draw one
id are left out. Memory is taken to be sequentially consistent.

### MessageProcessor

A message is a sequence of pieces between "&", a piece a pair of texts and the
number of "=", a text the sequence of its fields between commas, blanks kept
apart from words. So trim, split and splitString do what they do in Java on the
distinctions that decide anything. splitString leaves the fields at their places,
with gaps where one is blank. `calls` is what onMessage has called, in the order
of these places.

### Parser

One connection and the stream it sends. `Read` takes the next bytes of the
stream into the read buffer and, since the buffer is the same each time, spoils
what `pa` still points to in it. Then one action per kind of state looks at one
byte, as one turn of the loop in `parse` does: `OpStart`, `Letter` (all keyword
letters, from one table), `Space`, `PubArg`, `MsgArg`, `SubArg`, `UnsubArg`,
`ConnectArg`, `InfoArg`, `MinusErrArg`, `MsgPayload`, `MsgEnd`, and `Ping`,
`Pong`, `PlusOk` that wait for the line feed. `PubArg` jumps ahead over the
payload as the code does. `EndOfRead` is what follows the loop: `SplitArgument`,
and `SplitMessage` with `clonePubArg` and the choice between the scratch buffer
and one of its own, whose capacity is `msgCap`. `start` is c.as. Slices are values with a
mark (`inBuf`) of where they lie. An index beyond a slice is the error "panic".
`Sendable` says what a stream is made of: operations with as many words as they
take, a size that is the payload's length, PUB from clients and MSG from routes.

### Clients

A connection has a read loop (`pc`: read, parse, deliver, unsub, flush, end), a
`closeConnection` that somebody runs (`closing`: unregister, subs, done;
`closer`: the read loop that waits for it), a ping timer and an auth timer. A
step is a critical section of `c.mu` or `s.mu`, or the code between two.

| Code | Actions |
|---|---|
| accept loop, createClient, its registration in s.clients | `Accept`, `createClient`, `register` |
| readLoop: read, error, end of a read, flush of pcd | `ReadSome`, `ReadError`, `EndOfRead`, `flushPending` |
| the operations | `processConnect`, `processPing`, `processPong`, `processSub`, `processUnsub`, `processErr`, `processMsg`; `Refuse` for what ends the loop |
| deliverMsg to one match; unsubscribe | `deliverMsg`, `unsubscribe` |
| closeConnection, then removeClient and the subscriptions it took | `closeConnection` within its callers, `removeClient`, `removeSub` |
| timers | `processPingTimer`, `AuthTimerFires`, `authTimeout` |
| Shutdown | `Shutdown`, `ShutdownClose` |

A write goes into `buffered`; a flush writes all of it, fails, or times out.
`nc` is "cut" when clearConnection has closed the socket below a `c.nc` that
stays. `delivered`, `allowed`, `reused` and `late` are histories.

### Sublist and HashMap

The tree is a function from the path of tokens of a node to its subscriptions;
Insert and Remove hold the write lock and are one step (`Insert`, `Withdraw`), a
Match is `MatchCached` and, on a miss, `MatchTree`. Subjects are sequences of
bytes, because tree and cache read them differently: the tree decides by a
token's first byte, the cache (`matchLiteral`) byte by byte. The cache is a
`HashMap` value: chains, `Grow` and `Shrink` with their rehash, and
`RemoveRandom`. The refinement mapping reads the tree as a set of interests.

### Routes

Two servers and the links between them. Of each end there is its read loop
(`pc`: read, add, upgrade, dup, loop, end) and its closing (`closing`:
unregister, ask, check, done). `remotes` is s.remotes, `dials` counts the
goroutines in connectToRoute.

| Code | Actions |
|---|---|
| connectToRoute, the accepting side | `Dial` |
| createRoute; INFO; addRoute with its duplicate and its upgrade | `createRoute`, `processRouteInfo`, `addRoute`, `Upgrade`, `Duplicate` |
| the read loop ends; closed by another goroutine | `ReadError`, `CloseFromOutside` |
| removeClient; the look at didSolicit; reConnectToRoute or not | `removeClient`, `isSolicitedRoute`, `Reconnect` |
| the network | `Cut` |

### Interest

The two servers with a route between them, which comes up while clients act.
`wire[s]` is what s has written and the other has not read. The code sends a
snapshot of the local subscriptions when the INFO comes (`CopyLocalSubs`,
`sendLocalSubsToRoute`) and broadcasts to registered routes (`Register`).

| Code | Actions |
|---|---|
| processSub: into c.subs and the list; then broadcastSubscribe | `processSub`, `broadcastSubscribe` |
| processUnsub: sub.max and unsubscribe; then broadcastUnSubscribe | `processUnsub`, `BroadcastUnsub` |
| closeConnection, by any goroutine; then its broadcastUnSubscribe | `closeConnection`, `BroadcastClose` |
| a publisher's look into the list; deliverMsg to the matches | `Match`, `processMsg` |
| SUB, UNSUB, MSG from the route | `RouteSub`, `RouteUnsub`, `RouteMsg` |

A client can send UNSUB with a maximum and then be closed, between any two of
these steps: closeConnection withdraws the subscription a second time, with the
maximum if that has not been reached, although the list has it no more. `op` and
`closed` are apart for that. closeConnection sets c.nc to nil, unregisters the
client and removes the subscription in three critical sections; here they are one
step. A delivery in between counts its message and writes nothing, as does that of
a message which had matched before the step; a message from the route that comes in
between differs from one that comes before it only in that it is not received. The
delivery of one message to its matches at one server is one step, too. Module
Clients takes both apart.

## Runs

Passing runs, with the distinct states TLC finds:

| Run | Bounds | Shows | States |
|---|---|---|---|
| `drains` | 2 sessions, 1 name, 2 topics, 2 handlers, fair | the inductive invariant; handlers stay findable and are not lost; requests end; an unused map empties, but for what a failed subscribe has left | 214k |
| `types` | 2 sessions, 2 names of 2 types, 2 topics, 2 handlers, Torn | what each kind of unsubscribe gives up; a closed session is forgotten; refinement of Registrations | 2.0M |
| `rounds` | 2 threads, 2 sessions, 1 handler, 2 connections, 2 ids, Lossy, Failing | register and disregister against the rounds of two readers, with failures; refinement of HandlerContract | 2.8M |
| `live` | 2 threads with 3 calls, 1 session, 2 handlers, 2 connections, 2 ids, 1 loss, fair | one connection is built, NATS holds what is needed, calls and rounds end, messages arrive | 99k |
| `requests` | messages of up to 4 of 17 pieces | parse and dispatch against a declarative definition | 479k |
| `sublist` | 2 matching threads, 8 subjects (plain, wildcard, refused, ill-formed), 4 literals, 2 subscriptions at a time, a cache of 3 in a map that starts with 1 bucket | cache and tree agree; pruning leaves nothing and takes nothing; refinement of SubjectInterest | 160k |
| `parser` | 2 operations of every kind, up to 4 reads, a scratch buffer of 8 bytes, payloads up to 11 | handlers get what was sent | 288k |
| `clients` | 2 clients; one subscribes, both publish, one failure or the shutdown, one ping out, one PONG unasked | closing, maxima, flushes, timers | 740k |
| `routes` | 2 links; one solicits, with 2 failures, or both solicit | one agreed connection, not given up | 187k |
| `interest` | 2 servers; two plain subscriptions, one of which may be closed, or a queue group of two, one or two messages, route coming up or up | what each knows; a message reaches everyone once | 2.6M |

Runs in which the code breaks what a document or comment says (PROJECT.json,
findings):

| Run | What happens |
|---|---|
| `second_handler` | A handler filed under an old, equal key loses its entry with that key; the next subscriber makes a second handler of the topic (README.md:4). |
| `routes_given_up` | Two servers that each are to connect to the other each drop a connection as a duplicate of one that the other has dropped, find themselves connected as it closes, and end apart with nobody dialling (client.go:923). |

**Bounds.** Two sessions are enough for one to hold a handler while another
looks it up, leaves or replaces it. Two Topic objects of one name are an old key
and that of a new request; `second_handler` has a third for the key of the live
handler. Two connections are the lost one and its successor. One id per live
subscription, and a spare, since failures leak some. In `live` two handlers let
two threads, each with the lock of its own, wait for the manager's lock, and the
readers of a lost and a rebuilt connection wait for the one session; three calls
(`MaxCalls`) are two subscriptions and one that is given up, and one loss
(`MaxLosses`) makes the second connection. Four pieces are an action, a type and
an id, with one more to repeat or to spoil them. Two subscriptions in the tree
and three cache entries make it share, prune, grow, evict and shrink. A scratch
buffer of 8 bytes is passed by arguments and payload together, by payload alone,
and by neither; two operations show what one leaves to the next; four reads put
a cut into the argument, the payload and its end. Of the two clients one is the
closed, the other the one that still writes to it; with a maximum of 1 the two
publishers race for it; one PONG that nobody asked for (`MaxUnasked`) takes the
count of pings below zero. Two links are a route and its duplicate; a link that
both ends have left stands for a new one. One announcement in the snapshot and
one in a broadcast are all an rsid gets (`Entry`). Of the clients in `interest`,
those in `Closing` may be closed, one with a plain subscription and one of the
group; a client sends UNSUB once.

Runs with symmetric sets use symmetry unless they check liveness. `rounds` has a
view without the history `lost`, which none of its steps and properties depends on
but for its type. CHECK_DEADLOCK
is off where the system may stop: clients need send nothing, a stream ends, and
two servers with their route have nothing to do; the calls in `live` are counted.
It is on for `rounds`.

**Fairness.** `drains`: a thread that can take a step does (the JVM schedules
threads; subscribe and unsubscribe return or throw), and the collector finds in
the end what is unreachable. `RequestsFinish` also supposes that the bounded set
of handlers has a free member again and again, which the heap provides. `live`:
threads and readers are scheduled, calls to NATS return, sendText returns or
throws, a reader that waits for a session gets in between the sends of another
(strong fairness), and every subscribed topic has another message after each
(`main.go` publishes every four seconds). For threads weak fairness is enough,
as calls are finitely many: a lock is free for good in the end, and Java's locks
promise no more. `ReceivedWhileReading` supposes besides that the connection is
not replaced and is up in the end, and that no round was overtaken by a register
or disregister, since the code then ends the reader. `clients`: goroutines run,
the ping timer fires, and a read ends: it holds finitely many operations (strong
fairness of `EndOfRead`, as an operation may always be handled instead).
`routes`: goroutines run, and a server that listens can be reached in the end;
connections are cut finitely often (`MaxFaults`). A PONG that nobody asked for
puts off the close of a silent client, as in the code; finitely many do
(`MaxUnasked`). Nothing else is assumed of clients, and nothing of requests,
reconnections and failures.

## What the code does that documents do not say

Modelled, and found in the models, but with no run of its own:

* unsubscribeTopic ignores its topic: one id gives up all of them
  (TopicManager.java:41, against README.md:93-109).
* Another session's put during the copy of the key set ends unsubscribeAll with
  nothing unsubscribed (`CopyThrow`).
* A register during a round ends the reader thread (`Comodify`); nobody receives
  anything on that connection until it is rebuilt, and isConnected stays true.
* After a rebuild register trusts an id of the old connection and subscribes
  nothing (`EnterRegister` with a stale `subId`).
* A subscribe that throws leaves the handler in the connection's map: nothing takes
  it out, so the handler and its entry in the registry stay (`leaked`).
* parse throws at a piece that is a lone "=" (`Throw` in MessageProcessor), so
  the whole message is lost, where MessageProcessor.java:85-87 skips a piece
  without a key.
* gnatsd's tree takes "a*" for a plain token and its cache for a wildcard; what
  is cached for a literal such as "a." goes stale (`WellFormed`).
* An INFO that a read cuts within its argument is handed over as garbage or
  panics (`infoSplit`).
* A client may be closed and unregistered before it is registered: it stays in
  s.clients (`late`). Shutdown leaves a connection open that is being accepted.
* A second SUB under one sid leaves the first in the list for good (`reused`).
* The auth timer's function, once started, closes a client whose CONNECT has
  just been accepted. A parse error returns without the flush of pcd.
* A PONG that answers no ping takes c.pout below zero, and the stale close needs as
  many more pings (`processPong`).
* sub.max is written, and c.subs read, without the lock: a step of its own in
  `processUnsub`.
* An accepted route connection closed by the auth timer between its INFO and
  addRoute is filed in s.remotes for good (`ghosts`); an incoming connection
  that registers between a solicited one's removal and its check leaves the
  route to the other side. Goroutines that dial one route can pile up (bounded
  by `MaxDials`).
* What is broadcast between the snapshot and the registration of a route is not
  sent to it (`missed`); what is broadcast before the snapshot is sent twice, and
  may outlive its UNSUB (`raced`). A message that meets an entry at its maximum is
  taken for sent to that server (`dropped`). A message for a queue member that
  has gone by then is dropped.
* A client that is closed before the maximum of its UNSUB is reached is withdrawn at
  the other server with that maximum, which makes it wait for messages that are no
  longer delivered: the entry stays (`BroadcastClose`, route.go:301-305). One that
  another goroutine closes before its SUB is broadcast is withdrawn first and then
  announced (`raced`).

## Theorems

For every value of the constants, under the assumptions named in each module.

| Module | Theorem | States |
|---|---|---|
| `TopicManagerProofs` | `TypeCorrect` | `Spec => []TypeOK`: the types, and that register and disregister are never called on null |
| | `Invariance` | `Spec => []Inv` |
| | `FiledStayFindable` | `Spec => []FiledFindable` |
| | `SessionsAreServed` | a handler with sessions is subscribed |
| | `HandlersAreNotLost` | `Spec => NoLostHandler` |
| | `UnsubscribeAllLeavesAll` | `Spec => UnsubscribeAllCompletes` |
| | `ClosedStayForgotten` | `Spec => []ClosedIsForgotten`, unless ConcurrentClose |
| | `Refinement` | `Spec => RegistrySpec`: the registry implements Registrations |
| `NatsHandlerProofs` | `HandlerTypes` | `Spec => []TypeOK` |
| | `NextIsInTheSet` | `Spec => NextIsRegistered` |
| | `RoundsAreFull` | `Spec => FullRound` |
| | `ContractKept` | `Spec => ContractSpec`: the methods implement HandlerContract |
| | `OneBuilt` | `Spec => []OneConnection`: no second connection is built beside one that was not lost |
| | `NatsHoldsWhatIsNeeded` | `Spec => []SubscriptionsMatch`, where nothing fails and the connection is not replaced |
| `RoutesProofs` | `RouteTypes` | `Spec => []TypeOK` |
| | `RemotesAreTrue` | `Spec => []RemotesTrue` |
| | `RouteIsNotGivenUp` | `Spec => []NotGivenUp` |
| | `SettledRoutesAgree` | `Spec => []SettledAgree` |
| `ClientsProofs` | `ClientTypes` | `Spec => []TypeOK` |
| | `NothingIsLeft` | `Spec => []ClosedLeavesNothing` |
| | `LimitsAreKept` | `Spec => []LimitKept` |
| | `LimitsEndInterest` | `Spec => []LimitEndsInterest` |
| | `WritesAreFlushed` | `Spec => []WrittenIsFlushed` |
| `InterestProofs` | `InterestInvariance` | `Spec => []InterestInv` |
| | `InterestTypes` | `Spec => []TypeOK` |
| | `AtMostOnceAlways` | `Spec => []AtMostOnce` |
| | `InterestAgreesAlways` | `Spec => []InterestAgrees` |
| | `EachIsReachedAlways` | `Spec => []EachIsReached` |
| `MessageProcessorProofs` | `MessageInvariance` | `Spec => []MessageInv` |
| | `MessageTypes` | `Spec => []TypeOK` |
| | `SubscribesAsAsked` | `Spec => SubscribesWhatIsAsked` |
| `ParserProofs` | `ParserInvariance` | `Spec => []ParserInv` |
| | `ParserTypes` | `Spec => []TypeOK`: no panic, but for an INFO that is cut |
| | `CallsAlwaysAsSent` | `Spec => []CallsAsSent` |
| | `WholeStreamHeard` | `Spec => []WholeStream` |
| `SublistProofs` | `SetIs` | Set gives the key its data, and no other key another; it counts a new one |
| | `UnsetIs`, `RandomIs` | Remove takes out the key; RemoveRandom takes out one, if there is one |
| | `KeysAre` | AllKeys gives the keys that are there, each once |
| | `MatchLiteralIs` | matchLiteral, byte by byte, decides as the tree does, token by token |
| | `SublistInvariance` | `Spec => []SublistInv` |
| | `SublistTypes` | `Spec => []TypeOK` |
| | `TidyAlways` | `Spec => []TreeTidy` |
| | `CacheAgreesAlways` | `Spec => []CacheAgrees` |
| | `SublistRefinesInterest` | `Spec => InterestSpec`: tree and cache implement SubjectInterest |

**TopicManager.** The assumptions are that None is no object and every name has
a type. TypeOK alone is not inductive: that an invoking thread has a handler
needs to know the handler is alive when a weak reference yields it
(`EntriesAlive`, `HandlersAlive`), which needs the collector to respect locals
(`LocalsAlive`) and subscriptions (`SubscribedWhileSessions`).
`FiledUnderOwnKey` is the clause that makes handlers findable: an entry whose
key is its handler's own Topic object goes only when the handler does.
`NoLostHandler` follows because a handler with sessions is subscribed, hence
reachable; one that a failed subscribe left in the connection's map is reachable
too, so a free handler is neither. `LeavingInv` follows an unsubscribeAll
through its loop: a copy that met no put has the key of every filed handler
(`FiledUnderOwnKey`), so a filed handler that still has the session is among the
keys to come or in hand, and what is filed later has no sessions. Only a message
of the same session could add it again, which is why `ClosedStayForgotten`
supposes that the container closes a session between its messages. For the
refinement, a session is registered for a name when some handler of a topic of
that name has it; `Register` maps to Add, `Disregister` to Remove or a stutter,
the collector to stutters because what it takes has no sessions.

**NatsHandler.** `HandlerInv` adds to the types that one thread at a time is
inside a handler (`Mutex`); what a call has found and not yet changed
(`CallsOK`: who subscribes found no subscription, who unsubscribes has removed
the last session); and what an iterator knows that has met no change
(`RoundsOK`: what it has passed is in the set, and what it has fetched ahead is
the rest, or nothing when nothing is left). `FullRound` and `NextIsRegistered`
read off RoundsOK, the refinement off Mutex and CallsOK: `EnterDisregister` of
the last session is not yet the contract's step, the step that ends the call is,
which is why the mapping counts the leaving session as a member. `ConnInv` is an
invariant of its own, for the manager's lock: one thread at a time connects, and
only where the manager has no connection or one that was lost; so what it builds
stands beside none that was not. `Subscriptions` is a third, for where no call
fails and the connection is not replaced (`NotReplaced`, which once false stays
so): the map of the connection has one subscription for a handler, the one its
subId or the register under way has. A loss and a reconnection leave the map as
it is; where the connection is replaced subId may name an id that the new one
does not know, which is why the statement leaves that case out.

**Routes.** `RouteInv` says of each end what its closing and its read loop have
to do with each other, that an end in s.remotes has its remote ID and has not
been taken out (`Kept`), and, of a server that alone solicits, that every end of
its is a solicited one that is never closed from outside before addRoute
(`Dialled`). So no ghost can be in its s.remotes, and whoever closes either finds
a live solicited connection in there or dials. Where both solicit this fails,
which `routes_given_up` shows. `LinkInv` adds what the two ends of a link know of
each other: both exist or neither, one that is closed breaks the link, and a read
loop that has ended has closed. So at an open end where nothing is left to do
both read on, and addRoute has put both into s.remotes, which holds one link for
a server. The bounds are arbitrary.

**Clients.** `ClientInv` has a part for each thing that can go wrong. `Listed`:
while a connection is open, what the list holds of it is what `c.subs` holds,
which needs that two subscriptions of a client differ in their sid (unless one
was reused); once it is closed, what the list holds is among what
closeConnection took and has yet to remove. So nothing is left at the end.
`Limited`: what is delivered is at most what is counted, and a subscription
whose count has reached its maximum is in some loop's hand or out of the list.
`Loop`: a loop has one subscription in hand, and only where it unsubscribes, so
letting go of one loses no other. `Numbered`: subscriptions are numbered from 1,
so a new one is new, and fits the bound. `Ended`: an open connection has its
ping timer. `Held`, a second invariant, says that whoever has data in its buffer
is in some loop's pcd. All maxima, bounds and numbers of clients are arbitrary;
c.pout has a bound from above only, by the look at MaxPingsOut before each ping.
That SilentIsClosed holds is liveness, and model-checked.

**Interest.** There are two servers; subscriptions, messages and maxima are any,
the subscriptions finitely many. None of the four properties is inductive, for
each speaks of one server and what it says depends on what is on the wire.
`InterestInv` follows a subscription from its server to the other: listed, in
the snapshot, on the wire, an entry there. `Known` says that one that is listed
is somewhere on that way, unless it missed it; `Withdrawn` that one that is
neither raced nor missed is at one place of it only, and once it has gone an
UNSUB follows whatever is left, until the last withdrawal, of a client's UNSUB
or of its close, has been broadcast and read (`Told`); only one that is closed
with a maximum pending may leave an entry then. That the two meet needs the
counts: both servers count the messages of a subscription with a maximum, the
other one ahead by at most what is on the wire back (`Counted`), so an entry
that is full there means that the subscription will be full here when the
messages have come. `Once` says of a message on the wire that nobody it is still
to reach has had it, and that the wire has one for the plain subscriptions and
one for the group at most; `Reached` that whoever is due has it, is gone, or is
at the server to which it is on its way. `Homes` and `Up` say who sends what,
and that nothing is sent before the route is up; `Named` that an rsid names an
entry in the list.

**MessageProcessor.** Pieces, the length of a message and the topic types are any,
as long as ids are not blank and no two types share a prefix. `ParamsRead` is the
invariant of parse's loop: the map has a value for just the keys of the
well-formed pieces before `at`, that of the last of them. At the end of the
message that is what `Gives` says, and splitString loses only blanks.

**HashMap.** Keys are whatever has a hash, which is a natural number; the number
of chains and the length that makes the map grow are any. `IsMap` says that each
key is in the chain its hash names and in that chain once, and that `used` counts
the keys. Each operation keeps it, the resize by what refilling the chains does
(`Entries` lists what was there, and each goes to its chain under the new mask).
Chains are walked by recursive functions; what one does is proved by unfolding it
and by induction over a natural number.

**Sublist.** Subjects are any sequences of bytes, valid ones or not; the literals
that are matched are valid and have a hash, and CMax is positive. `SublistInv` has
three parts. `TreeGood`: a node's parents are there, a subscription is in the node
its tokens name and nowhere else, and what is empty is only what Insert has made
for a subject it then refused. `Counted`: s.count is the number of subscriptions.
`CacheGood`: the map is a map, holds at most CMax literals, and gives each the
subscriptions whose subjects match it in the tree. That Insert and Remove keep the
last is the point, for they repair the cache by matchLiteral on bytes and the tree
answers by tokens: `MatchLiteralIs` follows which bytes of subject and literal
are still in step. That a Match finds what matches is `SearchRight`: the walk
reaches at each level just the nodes whose tokens match what has been read. The
refinement reads the tree as a set of interests, for which a sequence of tokens
must come from one subject (`TokensOnce`). TLC checked SublistInv first.

**Parser.** Streams are any sequences of Sendable operations, with arguments and
payloads of any length; cuts, the scratch buffer's capacity and the maximum
payload (none if it is not positive, as in processPub) are any. Sizes are
unbounded numbers, as a size is the length of a payload that was sent. None of
the three properties is inductive: all say what has come out, and that depends
on what is kept. `ParserInv` says where the parser is. Unless an INFO
was cut, it is at some operation k of the stream (`At`): what the ones before k
ask has been called (`Upto`), and the bytes of k that are consumed decide the
rest. `AtStart`: none, and nothing is kept. `InHead`, `InBare`: within the
keyword or a line end, and the state is the one for that letter (`HeadsAre`).
`InArg`: the argument so far is what argBuf has, or begins at start in this read,
and drop is set behind a CR. `InBody`: pa says what the line said, and the message
begins at start in this read. `InCopy`: the message so far is what msgBuf has,
which has room for the rest of the payload, and pa points to nothing that the
next read spoils. Or the operation was refused for what it is (`Refusal`).
One lemma per action follows it from one of these to the next, and `EndOfRead`
from InArg and InBody to what is kept. That splitArg gives back the words of a
line, and that offsets add up, is proved by unfolding the recursive function and by
induction over the set of its arguments (`Induct`). A stream read to its end leaves
no operation half done (`NotDone`), which makes `WholeStream`. TLC checked
ParserInv on the run's instance first.

**Only model-checked:** liveness (`drains`, `live`, `clients`, `routes`), which is
beyond this prover. Every invariant of the runs, and every action property and
refinement, is a theorem.

## Not modelled

* **ws.js.** The behaviour is that of one page's timers and callbacks. Where it
  is hard: sends before the socket opens may overtake
  each other and are dropped after ten polls, the close handler sends on a closed
  socket, every WSManager is a new instance on one global socket.
* **Health checks.** Their answers are sent without the session's lock; no module
  has both senders. NatsManager.conn is read without lock and is not volatile,
  and the jar numbers subscriptions without a lock: memory is taken to be
  sequentially consistent.
* **gnatsd.** Configuration (conf, opts.go), password checks, monitoring and
  logging decide nothing once the server runs; what they set are constants. TLS,
  and the self-deadlock of a failed TLS handshake of a route; writes that block
  (broadcastToRoutes flushes under locks without a deadline); more than two
  servers; Shutdown of routes; the loss of the link in Interest; Stats.
* Left out for good: the text of log lines and of JSON, `Log4jInit` (reads a
  file), build and Docker scripts, `NatsManager.destroy`, which nothing calls.
