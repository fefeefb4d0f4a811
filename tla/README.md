# TLA+ models of message-relay-services

This directory holds TLA+ specifications of the message relay library of this
repository, the TLC configurations that check them on small instances, and
proofs, checked by TLAPS, of what holds for every instance. Source paths are
relative to the repository's root.

## 1. The system

The library moves JSON messages between processes. A *client* sends a message
and awaits the answer; an *endpoint* serves messages and topics; a *relay* sits
between clients and endpoints and forwards by path. All of it runs on the
event loop of Node.js: a handler runs to its end or to an `await`, and other
events of the same or another socket come in between.

    client (Communicator, ResponseVector, JSONMessageQueue)
       |  socket, UDP, IPC
    relay server (a JsonMessageHandler per socket)
       |  PathHandler of each path, shared by all sockets
       |  one client (Communicator) per path
    endpoint server (a Replier per socket, topics)

| Part | State | Operations | Hard behaviour |
|---|---|---|---|
| ResponseVector (`response-vector/index.js`) | `waiting_for_response` | take, lock, unlock, look up an id | ids used again; a full vector; a scan from a random index |
| Communicator (`lib/common_communicator.js`) | the vector, `messages`, `writer` | `sendMessage`, `publish`, `subscribe`..., data events | answers in any order, lost, or after a disconnection; errors half way through a send |
| CommunicatorWithFiles (same file) | `files_going`, the stream, its counter | shunting, rotation, replay | file opened after an `await`; replay beside new messages |
| TCP, UDP and IPC clients (`lib/message_relay_client.js`, `_udp.js`, `_ipc.js`, `_ipc_source.js`) | socket or process, `reconnect_count` | connect, close, error, reconnect | outages, retries, a child that dies |
| ResponseVectorTimeout (`response-vector/resp_timeout.js`) | `aging_messages` beside the slots | take and unlock with an age, check of ages | a timer against reuse of ids |
| Subscriptions of a client (`lib/common_communicator.js`, `lib/mutli_path_relay_client.js`) | `subcriptions`, handlers, a client per path | publish, subscribe, unsubscribe, send on a path or all; add and remove paths | paths added again, calls on closed connections |
| JSONMessageQueue (`json-message-queue/index.js`) | `last_message`, `message_queue` | `add_data`, `message_complete`, `dequeue` | the transport cuts the stream anywhere |
| Endpoint (`lib/message_endpoint.js`) | `messenger_connections`, `all_topics`, a queue per Replier | connect, close, data, sub/unsub/pub, application messages | several messages per event; closes between events; names that collide |
| IPC endpoint (`lib/message_endpoint_as_child_with_ipc.js`) | the parent's Replier | objects, one per event | - |
| Relay (`lib/message_relay.js`) | per socket: queue, `current_message`, `topic_handlers_by_path` | data, forward, close | two activations of one asynchronous loop; `await` between a change and its completion |
| PathHandler (`path-handler/path-handler.js`) | `topic_listeners` | send, get, del, subscribe, unsubscribe | shared by all sockets; first and last listener talk to the endpoint |
| UDP endpoint (`lib/message_endpoint_udp.js`) | connections by address, `time_out_table`, topics | datagrams, the interval that forgets clients | datagrams out of order, waits against the interval |
| Multicast client and endpoint (`lib/message_relay_multicast.js`, `lib/message_endpoint_multicast.js`) | a socket per subscription, a server per topic | subscribe, unsubscribe, publish | calls that overlap the binding of a port |
| Client-producer (`client-producer/`) | `_waiting_connections` | signals that make connections | repeated signals |
| MultiRelayClient, PeerPublishingHandler, ParentIPCMessenger | - | - | not modelled, see section 6 |

What makes each part correct:

* client: every answer goes to the call that asked, a slot is held exactly as
  long as its call needs it, and no call is refused while a slot is free;
* queue: what is enqueued is what the peer sent, wherever the stream is cut;
* endpoint: the answer goes to the sender, no request is dropped, and the
  topics agree with what clients have been told - for datagrams, for as long
  as a client is remembered;
* subscriptions: handlers, their notes and what the endpoint serves agree, and
  what has been subscribed can be unsubscribed;
* ages: a slot has an age exactly while it is locked;
* files: what was put in a file is neither lost, reordered nor sent twice;
* relay: the tables of sockets, paths and endpoints agree whenever nothing is
  on its way, and every message is answered.

`PROJECT.json` lists the hazards of the code line by line.

## 2. The modules

| Module | Models |
|---|---|
| `RequestReply` | the abstract service of `sendMessage`: refused at once or pending, then resolved once, with its own answer |
| `Communicator` | ResponseVector and the request/response half of Communicator, the link and the peer |
| `JSONMessageQueue` | the framing of a stream of JSON texts |
| `MessageEndpoint` | endpoint server, Replier, topics; the parent process of an IPC child |
| `RelayServer` | JsonMessageHandler of the relay, PathHandler, and the endpoint's answers |
| `RelayClient` | a client's connection over TCP, datagrams, a child or the parent process; its files (CommunicatorWithFiles); the manager's waiting connections |
| `ResponseTimeout` | extends `Communicator`: the datagram client, whose slots have ages and an interval that checks them |
| `UDPEndpoint` | the datagram endpoint: clients remembered and forgotten, topics, publication |
| `PathSubscriptions` | CommunicatorAPI and MultiPathRelayClient: handlers, notes, connections per path |
| `Multicast` | subscriptions as sockets of a multicast group, and the topic servers of the endpoint |
| `*_proofs` | the inductive invariant of the module it is named after, and the theorems that follow (section 4): of `Communicator` (with `ResponseTimeout`), `JSONMessageQueue`, `MessageEndpoint`, `RelayServer`, `RelayClient`, `UDPEndpoint`, `PathSubscriptions`, `Multicast` |
| `MC*` | constants for TLC |

A definition marked as a mutant or a fault is a plausible bug; it is used by no
specification and shows, put in place of the definition it varies, that a
property does depend on it.

### Communicator

`waiting` is `waiting_for_response`, including the entry `-1` that JavaScript
makes without complaint; a resolver is represented by the call that made it.
`_message_and_response` has one action per way through it: `Send` (written),
`SendNowhere` (no writer, or a stream that reports its error only later),
`SendUnencodable` (`JSON.stringify` throws with the slot locked) and
`SendThrows` (a closed datagram socket). All of them start with `Pick`, the
choice of an id by `GetResponseId`, and go on after an overflow as the code
does. `Receive` is one turn of the loops of `client_add_data_and_react` and
`client_add_object_and_react`. `Connect` and `Disconnect` are what the
transport does to `writer`; a disconnection loses what is under way. `Answer`
and `Lose` are the peer and a link that loses datagrams. A peer is assumed to
answer a request once, under the id it came with.

### JSONMessageQueue

Text is a sequence of kinds of characters: `open` and `close` (the braces),
space, the two bytes of a character that is not ASCII, and everything else.
`Data` takes any prefix of what has still to arrive. `MessageComplete` follows
the code: trim, split where only white space stands between a closing and an
opening brace (`Pieces`), decode each piece (`Decoded`), keep the last piece
that does not decode (`Rest`). `Decodes` is `JSON.parse` for texts whose strings
hold no braces. `PlainTexts` says which texts the code frames faithfully: those
of objects, without `}{`, white space or characters that are not ASCII inside.

### MessageEndpoint

`table` is `messenger_connections`, `topics` is `all_topics`; `NameOf` is the
`client_name` that `onClientConnected_func` makes, the peer's address and port.
No two connections have it at a time, which is the guard of `AddConnection`; a
later one may, once the earlier one has closed. The runs give every socket a
name of its own, and the theorems of section 4 cover names that are used again.
(The sockets of a Unix domain server all have its path for a name, which is a
defect of its own, section 3.) `phase` of a socket separates the moment the peer
goes away from the `close` event. `Data` brings any number of whole messages
and dequeues one, as `add_data_and_react` does; `Object` is the same for one
object; `Handle` is the body of `dequeue_messages`; an application's handler
stays in `handling` until `AppDone`. At a `hooked` endpoint
(`app_can_block_and_respond`) a publication waits in `handling` as well, until
`PreFanDone` sends it to those subscribed by then or blocks it. `crashed` is
the exception of a data event that finds no replier.

### RelayServer

`running` is the client whose `dequeue_and_forward` has the thread; while it
has, nothing else happens. `Forward` is one turn of the loop up to its `await`:
`Sub`, `Unsub`, a call (get, del, publication or anything else sent on the
path), a path that is not known (the loop returns) and a message without a
path. Only the first listener of a topic and the last one make the loop wait;
others go on at once. A message in `awaiting` stands for the activation that
waits for it: several of one client may wait at the same time, because a data
event starts the loop again. `UpstreamAnswered` is the endpoint taking the next
subscription or unsubscription of a path in order, `CallAnswered` any call in
any order. `Close` is `cleanup`, which looks only at the path of the last
message dequeued. `Server._create_connection` of the stock relay uses a name
that is not declared there, so a listening socket comes from a descendant; the
model begins at `onClientConnected_func`.

### RelayClient

`conf` is one of the configurations a client may have and stays as it is; its
`transport` says which class the client is of. A child process and the parent
are sockets that are open when `_connect` returns; `GoesSilent` is a parent
that goes, or a datagram socket that is disconnected, of which no handler
hears; `DatagramError` is the `error` of a datagram socket, which closes
nothing. `ErrorStarts` is what the `error` handlers do about files.
`socket` is `this.socket`, `writer` is `this.writer`; each call of `_connect`
takes the next of `sock`. `Announce` is a signal to MessageRelayManager: until
the client is ready each one makes another socket. `Connected` is
`_connection_handler` of whichever socket connects, with `restore_send` up to
its first `await`; `ReadFile` is the end of that `await` and `Replay` the loop
that sends what was read. `CleanClose` and `Fails` run the `close` and `error`
handlers, as often as they have been attached; `ReconnectTimer` attaches them
once more. `StartFile` is the end of the `await` in `_start_file_shunting` and
`_setup_file_output`. A file goes from created to `Opened`, and its text
reaches the disk by `Flush`. `Send` has one disjunct for each way through
`sendMessage`: `PutInFile`, `PutInNextFile` (rotation), `RenameThrows` and
`WriteAfterEnd` (rotation before the file is open), `Write` (to the writer or
nowhere). The thread pool is taken to open files in the order asked for, and a
file to have been flushed before a later one empties it; `file_per_message` and
what the `ascii` encoding does to other characters are left out.

Two readers of one path may both find what a file holds that was started while
the first of them was still reading; `overlaps` marks such files, `Doubled` the
messages in them, and the properties about sending once and in order except
those. `FiledTwice` is a message that a restoration has put in a file again.
A configuration with `files_only` has `file_shunting`, as the constructor of
CommunicatorWithFiles sees to.

### ResponseTimeout

Every action is one of `Communicator` with the age it notes (`NoteAge`) or
forgets (`ForgetAge`), or leaves alone. `Expiries` has the two loops of
`get_response_id`, which note different times. `CheckAges` is the callback of
the interval: it picks the ids whose time has not come, calls a number, and the
process ends (`crashed`); if there are none it changes nothing. Handlers take
no time, so the clock waits for a check that is due.

### UDPEndpoint

`Receive` is the `message` handler up to the first wait, `AppDone` and
`AppFails` the rest of it after `app_message_handler`; `Remember` is the choice
at its end between noting the time and removing the connection. `Purge` is the
interval, which fires all the time because its period is not set when it is
started; it leaves `time_out_table` as it is. Datagrams arrive in any order or
never.

### PathSubscriptions

`kind` is the client: `single` is a client of one connection, `multi` a
MultiPathRelayClient, where `connections` holds the client of each path and a
replaced client goes on without one. `Here` and `Everywhere` are the clients a
call goes to. A call while the connection is not open is written nowhere. The
endpoint at the other end (`Serve`) is the part of `MessageEndpoint` that
matters here: topics without paths. `again` and `lost` are history for the
properties.

### Multicast

An attempt is a call of `subscribe` and the socket it makes, from `binding` to
`member` or `failed` to `closed`. The table `subcriptions` (`entry`) is written
at `listening`, so calls may overlap. Requests are a set that only grows: a
datagram may arrive late, again or never. `host` says where each client runs,
since ports are bound per host; each topic is assumed to have a port of its own.

## 3. What the runs check

| Run | Result | Shows |
|---|---|---|
| `communicator` | pass | answers match calls; slots follow calls; rejection only when full; a request under way is settled unless its connection goes down; refinement of `RequestReply` |
| `timeouts` | pass | ages follow slots through reuse, loss and failed sends; the check cannot end a process that has made one call; it costs no answer |
| `queue` | pass | exactly the messages sent, each with its last character, for every cut of the stream |
| `endpoint` | pass | replies go to senders, nothing dropped, topics and publications follow what clients were told (also when the application delays or blocks publications), objects are answered |
| `endpoint_burst` | violation | the second of two messages in one data event is not answered |
| `udp` | pass | only remembered clients are in the topics; an endpoint that keeps no clients forgets them unless a handler failed; a subscriber is written every publication for three periods |
| `relay` | pass | listeners, sockets' notes and the endpoint's subscription agree; every message is answered |
| `relay_unsub` | violation | a close during an awaited unsubscribe removes another client's listener |
| `client` | pass | filed messages reach the disk, within the limit of a file; what is read back is sent once, in order, or filed again; over datagrams and processes, messages are lost only until the first file is started |
| `client_reconnect` | violation | a client configured to reconnect never does |
| `paths` | pass | handlers, notes and what the endpoint serves agree, through paths closed, failed and added again |
| `multicast` | pass | a socket in the group can be found and closed; after unsubscribe none is left unless one was still binding; only a client on the endpoint's host can bring it down |

Each violation disagrees with a line of the README or a comment of the code,
quoted under `findings` in `PROJECT.json`.

Disagreements between the code and its documents that no run is kept for:

* a call rejected because the vector is full is written all the same
  (`common_communicator.js:435`; README line 475 limits the messages that wait);
* a publisher that is subscribed receives its own publication, and everybody
  else receives two copies (`message_endpoint.js:286`; the comment at line 270
  excepts the publisher);
* a chunk is decoded and trimmed by itself, so a string with a space or a
  character of several bytes is changed when the stream is cut there
  (`json-message-queue/index.js:54`; README line 1043). `JSONMessageQueue` has
  the characters (`lead`, `tail`, `junk`), the texts of the run do not, and
  `PlainTexts` excludes them;
* all clients of one Unix domain path have one name, and answers go to the
  latest (`message_endpoint.js:612`; README line 695);
* the check of ages releases nothing (`resp_timeout.js:57`; README line 1109);
* a path that has a connection gets another (`mutli_path_relay_client.js:46`,
  against its own comment "one connection per path").

Bounds. `communicator`: four calls for two slots, so the vector fills, a slot
leaks (one call cannot be encoded), an answer is lost (another call's link) and
slots are used again; connections come and go without bound. `timeouts`: two
slots and three calls over five ticks, so that a slot is found before and after
the scan wraps and a request outlives `max_age` and two checks. `queue`: three
messages, so a cut can fall before, inside and after a message that has a
neighbour on either side. `endpoint`: two messages of each of two sockets and
one of the parent: a subscription can be withdrawn or published to, with closes
at any time. `udp`: four ticks of one period each, so a client can be late
(after three) and come back. `relay`: three messages of one client (subscribe,
unsubscribe and once more, or calls that overlap), two of one that leaves, one
of a client that uses unknown paths. One topic is enough where tables of
different topics are never read together. `client`: three connections, so that
two restorations can overlap and a connection can be made while another is;
three messages, so that a file of two is full and the next begun; three files.
`paths`: three connections and five calls: a path subscribed, lost, added again
and unsubscribed, beside another. `multicast`: three sockets of two clients on
two paths of a topic, so that an attempt can overlap two others. `SendsOf`,
`SendBound`, `MaxMessages`, `MaxSockets`, `MaxFiles`, `MaxConns`, `MaxCalls`,
`MaxAttempts` and `MaxTime` are the only bounds on counters. Deadlock is not
checked: the clients may stop sending.

Assumptions on the environment. In `RelayServer` a client subscribes only when
it is not subscribed, unsubscribes only when it is, and sends either only when
its earlier messages have been answered (`Orderly`), as a program that awaits
these operations does; in `relay` a client that unsubscribes does not leave.
`relay_unsub` and the hazards of `PROJECT.json` say what happens otherwise.
In `relay` each client uses one path. The publications of `UDPEndpoint` are
written only by an endpoint that is a child process, because a `UDPWriter` has
no other `readyState`; `SubscriberIsServed` says so.

Fairness. Only what the event loop and a working peer guarantee: data that has
arrived is delivered, a loop that has the thread goes on, the application's
handlers return, and a peer answers; in `RelayClient`, that timeouts fire and
file operations complete. Nobody has to connect, send, leave or stay connected;
liveness is stated up to a disconnection. In `Communicator` the calls whose
datagrams may be lost are exempt from the liveness property, not from the
others.

## 4. What is proved

Every safety invariant and action property of the passing runs is a theorem,
for every value of the constants the table allows; so are the two refinements. The leading theorems are listed in `PROJECT.json`. Each
`*_proofs` module has the strengthened invariant (`IInv`), a lemma for each
action, and then the theorems. What each rests on:

| Module | Assumed of the constants | Theorems |
|---|---|---|
| `Communicator_proofs` | `NoCall` is no call, at least one slot | `TypeCorrect`, `AnswersMatch`, `SlotsHeldByTheirCalls`, `SlotsAreReturned`, `RejectionMeansFull`, `Refinement` |
| the same, of `ResponseTimeout` | a period of at least one tick, `NoTime` is no time | `TimedTypeCorrect`, `AgesFollowLocks`, `CrashesNeedTwoCalls`, `TimedAnswersMatch`, `TimedRefinement` |
| `JSONMessageQueue_proofs` | `PlainTexts`, but not for `TypeCorrect` | `FramesAlwaysMessages`, `NothingIsHeldBack` |
| `MessageEndpoint_proofs` | connections that are not of a stream (the parent process) have different names; of others, one at a time | `LookUpNeverThrows`, `RepliesReachSender`, `NoRequestIsLost`, `TopicsAlwaysFollow`, `PublicationsReachSubscribers` |
| `RelayServer_proofs` | finitely many topics (a close lists those it empties); for `ListenersAlwaysMatch`, `LeaversKeepOnePath` | `EndpointAlwaysAgrees`, `ListenersAlwaysMatch`, `NoRequestIsStuck` |
| `RelayClient_proofs` | `files_only` goes with `file_shunting` | `SentOnce`, `SentInFileOrder`, `NothingReadIsDropped`, `LostOnlyUntilFiles`, `FilesWithinLimit` |
| `UDPEndpoint_proofs` | a period of at least one tick, `Never` is no time | `TopicsAlwaysWithinTable`, `ClientsAreForgotten`, `SubscribersAreServed` |
| `PathSubscriptions_proofs` | there is a path | `HandlersAlwaysFollowNotes`, `EndpointServesAsNoted` |
| `Multicast_proofs` | there is a client and a key | `MembersAlwaysNoted`, `LeavingWorksUnlessHasty`, `CrashOnSharedHost` |

Each has its type invariant (`TypeCorrect`) too.

The invariants, and why the properties alone are not inductive:

* `Communicator`. That an answer finds its own call needs that the slot of a
  message under way has not been given away, and that a call is never under way
  twice. `IInv` adds `IdleIsFresh` (a call not made yet holds nothing),
  `OneSlotEach`, `OverflowIsRejected` (what goes by id -1 belongs to a rejected
  call) and `OneDirection` (a message is not on its way out and back at once).
  The lemmas `ResponseIdIsFree` and
  `ReceiveResolvesItsOwn` are what the steps rest on.
* `ResponseTimeout`. Its actions are `Communicator`'s, so `IInv` is kept by
  the lemmas above, except that a datagram socket that is disconnected still
  receives: its step only closes the writer (`HandlersStep`), and so the
  invariant and the refinement of `RequestReply` carry over. `TimedInv` adds
  that an age exists exactly where a slot is locked, and that an age from the
  future, which is what ends the process, takes two calls: the scan wraps only
  past a slot that another one holds.
* `JSONMessageQueue`. That the frames are the first messages does not say where
  the stream has been cut. `IInv` lays out all that was written, with the place
  of every text in it (`Laid`), and says of the position the arrived part ends
  at that the frames are the texts that are whole before it, and `last_message`
  what there is of the next (`Reached`). A data event moves the position on
  over any number of texts (`Row`); the lemmas say that in a row of whole texts,
  with or without the beginning of another, the boundaries `Pieces` finds are
  those between two texts, that `Decoded` are the whole ones, and that `Rest` is
  the beginning. A proper beginning of a text never decodes, because the braces
  of a text close only at its end. There is no induction over the text: a set of
  positions has a least and a greatest element, and an ascending list of a set
  of numbers is the only one. `TypeCorrect` needs none of this, and no
  hypothesis about the texts.
* `MessageEndpoint`. The tables are keyed by name, so what comes first is
  `NamesApart`: a name stands for one live connection. `TableHoldsLive` and
  `TopicsHoldLive` say that the tables follow; so the unchecked look-up in
  `add_data_and_react` cannot throw. `PendingInOrder` and `TakenAreKept` count
  a client's requests: those with a number up to `Taken` are handled or
  answered, those above wait in order in the queue or behind it. From them
  follow that none is lost, and that the last answered sub or unsub is the one
  the topics show (`OpenFollowRequests`).
* `RelayServer`, in three parts. `BaseInv` holds whatever the clients do: whose
  every message, note and listener is (`Origins`), and that the last message
  about a topic on its way to the endpoint, or the endpoint itself when there
  is none, agrees with whether the topic has listeners (`UpstreamAgrees`);
  `EndpointAlwaysAgrees` follows. `ClientInv` is about one client: its note and
  its only listener go together, and follow what it has been told, at every
  await of the loop. It needs `LeaversKeepOnePath`: a client that leaves only
  subscribes and calls, on one path. The code needs it as well. `cleanup`
  looks at the path of the last message dequeued and no other
  (`message_relay.js:170`), so listeners on a second path stay; and a client
  that leaves during an awaited unsubscribe takes another's listener away
  (`relay_unsub`). Clients that stay may use any paths and operations; the
  `relay` run has clients of both kinds. `FlowInv` holds whatever the clients
  do: an activation that awaits a sub or unsub has it on its way to an endpoint
  (`WaitersAreServed`), a queue that is not empty has a loop that runs or an
  activation that will resume it (`LoopsGoOn`), and what was sent is in one of
  the places a message can be (`NothingDropped`). So a message is answered or is
  where something will carry it on, the safety half of `EveryRequestAnswered`
  (`NoRequestIsStuck`; TLC agrees on the `relay` constants, and
  refutes it for clients that name unknown paths, after whose messages the loop
  returns with the queue as it is).
* `RelayClient`, in two layers. `BaseInv` has the connection and the files: a
  client that writes only files has no socket, the writer is the last socket
  made (`OneConnection`), only the last file can be written or read
  (`FilesInTurn`),
  each connection reads once and alone unless the file overlaps
  (`ReadersApart`), the room left under `wrap_limit` (`RoomLeft`), and that a
  client that went over to files stays with them (`StaysWithFiles`). The second
  layer puts messages in *boxes*: the wire, what each reader has decoded and
  not sent, and the file in use. A message that is not doubled is in one place
  of one box (`HeldOnce`), and wherever it is, those filed before it come
  before it (`HeldInOrder`). Every action either adds a message that was
  nowhere (`MessageAdded`), moves a box behind another (`BoxMoved`), fills a
  reader from the file (`BoxRead`) or empties boxes (`BoxesEmptied`); the four
  lemmas are about any sequences, and the actions are instances of them.
* `UDPEndpoint`. The table of a topic and the time noted for a client are kept
  apart by the code; `NotedInTime` says that the time noted is at least that of
  the last answered sub and never in the future, `SubscribersAreIn` that who
  should be served is in the table of the topic, `QuietUnnamed` and
  `OnlyRequestsWait` what may be remembered or waiting at all.
* `PathSubscriptions`. What endpoint and client agree on when nothing is under
  way is, before that, what the requests still on the wire will have made of
  the endpoint's table: `EndsServed`, with a lemma for a request written and
  one for a request served. `SecondOnlyAgain` and `OnlyOpenOnesServed` say
  which connection of a path a note can be about.
* `Multicast`. A member is noted because its port is its own on its host;
  leaving works because members are noted; `JoinsUnlessHasty` carries both
  along for sockets that are still binding.

What the proofs changed. An earlier form of `ReplayInOrder` spoke of files that
do not overlap: with four sockets (one more than the run has) TLC found a
message that two readers found first and then put in a later file twice, out of
order there. It now excepts the messages that were doubled, wherever they are.
`LostOnlyUntilShunted` did not hold of a datagram client with `files_only`
whose rotation throws because the file is not there yet, of which no run had a
configuration; one has now, and the property says so. `Pieces` and `Decoded`
were written with `SetToSortSeq` and `SelectSeq`, which the provers cannot
open; they now list positions in ascending order (`Ascending`), which can be
reasoned about. What the texts of `queue` have in common, and the README of the
repository does not ask for, became explicit as `PlainTexts`, which the run
evaluates.

Only model-checked:

* liveness (`SettledWhileConnected`, `SettledUnlessCrashed`,
  `ObjectsAreAnswered`, `EveryRequestAnswered`, `FiledReachesDisk`): fairness
  and ENABLED are beyond the prover;
* the three violations, which are counterexamples.

## 5. Plan

Written, in this order, the most used path first: `Communicator` with its
abstract service and proofs, `MessageEndpoint`, `RelayServer`,
`JSONMessageQueue`, `RelayClient` (all transports), `ResponseTimeout`,
`UDPEndpoint`, `PathSubscriptions`, `Multicast`; then the proofs of all of
them. Next: `RelayChain`, client, relay and endpoint composed, with the two
response vectors on the way, both as `RequestReply`: an answer crosses the relay
to the request it belongs to; a full vector upstream.

## 6. What is not modelled

* TLS and key files, configuration and class selection, logging, and the
  listening sockets themselves have no behaviour over time.
* MultiRelayClient: `update_index` reads a variable before its declaration and
  throws on every use, so no operation gets past it.
* `subscribe_all` of MultiPathRelayClient, `send_to_subset` and `app_publish`
  of the endpoint use names that do not exist and throw at once.
* PeerPublishingHandler: a publication on a topic without subscribers, and the
  first update from upstream, throw out of the loop of the relay
  (`path-handler.js:148`; the group action is never passed in,
  `message_relay.js:131`); the stock ApplicationEndpointHandler calls
  `id_augmentation`, which is undefined.
* ParentIPCMessenger: its operations are the application's.
* `app_handles_subscriptions` and replaced encoders are the application's.
* Of files: `file_per_message`, and what the `ascii` encoding does to other
  characters.
