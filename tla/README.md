# Onigi: a verification project in TLA+

Onigi (`package.json`, `lib/`) is a client library for the WhatsApp Web protocol: it keeps one
WebSocket to the server, encrypts it with Noise, exchanges binary stanzas over it, keeps the Signal
keys and sessions of the account in a key store, and turns what arrives into events for the
application. All of it runs on one JavaScript event loop. What makes it hard is that nearly every
handler awaits several times, so handlers, timers, answers of the server, `end()` and the
application interleave at every `await`, and that the key store, the counters in the credentials
and the event buffer are shared by all of them.

The modules here model those interleavings: a step of a module is a run of the event loop between
two awaits (or a whole handler where it has none), TLC explores small instances, and TLAPS proves
what matters most for every value of the constants. Paths below are relative to `src/`.

## 1. Inventory

### Components modelled so far

| Component | Where | State | Operations |
| --- | --- | --- | --- |
| Pre-keys | `lib/Utils/signal.js`, `lib/Socket/socket.js` 340-480 and 980-1010, `lib/Socket/messages-recv.js` 443-620, `lib/Signal/libsignal.js` | the counters `nextPreKeyId` and `firstUnuploadedPreKeyId` (in memory and saved), the key pairs in the store, the upload's dedupe promise | upload after login, on `pre-key-low` and on a digest mismatch; a key for a retry receipt; consumption by a decrypt; restart |
| Event buffer | `lib/Utils/event-buffer.js` | on/off flag with a count, two timers, the coalesced events, a scalar mirror of the buffered upserts | `buffer`, `flush`, `emit`, `createBufferedFunction`, `destroy` |
| Transactional key store | `lib/Utils/auth-utils.js`, `lib/Utils/pre-key-manager.js` | the store, a cache before it, one mutex, the staged mutations of a transaction, the async context | `get`, `set`, `transaction` (nested or not), commit with retries, `disposeTransactionStorage` |
| Connection | `lib/Socket/socket.js`, `lib/Socket/Client/websocket.js` | the WebSocket, the handshake, waiters of queries, keep-alive interval, QR timer, login sequence, `closed` | `query`, `sendNode`, `validateConnection`, pairing, login, `logout`, `end` and its handlers |
| Inbound messages | `lib/Socket/messages-recv.js` 60-140, 408-620, 1422-1617, 1745-1830, `lib/Utils/offline-node-processor.js`, `lib/Utils/message-retry-manager.js`, `lib/Socket/chats.js` 957-990 | the offline backlog, the lock of an alternative address, the lock of a chat, the retry queue, retry counters, caches of processed and of requested messages, timers | `processNode`, `handleMessage`, `upsertMessage`, `sendRetryRequest`, `requestPlaceholderResend` |
| Message sending | `lib/Socket/messages-send.js` 33-60, 184-330, 369-513, 560-1069 | the device lists cached for sends, the memory of who has the group's sender key, sessions, the transaction of a relay | `relayMessage` to a group and to a peer, `getUSyncDevices`, `assertSessions`, `createParticipantNodes` |
| Receipts and resending | `lib/Socket/messages-recv.js` 815-897, 1139-1421, `lib/Utils/identity-change-handler.js` | the resends charged to a message and a device, the receipt being served per chat | `handleReceipt`, `sendMessagesAgain`, `handleDevicesNotification`, the refresh after an identity change |
| LID mapping and sessions | `lib/Signal/lid-mapping.js`, `lib/Signal/libsignal.js`, `lib/Socket/messages-recv.js` 1434-1461, `lib/Socket/socket.js` 888-909 | the mapping in the store and in a cache (both directions), device lists, sessions by address, which were migrated, the lock of an alternative address | `storeLIDPNMappings`, `getPNForLID`, `getLIDForPN`, `migrateSession`, `loadSession`, `storeSession` |
| Sender keys | `lib/Signal/Group/`, `lib/Signal/libsignal.js` | the chain of the sender; at a receiver a record of states, each with a chain and skipped message keys | encrypt, distribute, process a distribution message, decrypt |
| Noise transport | `lib/Utils/noise-handler.js`, `lib/Socket/socket.js` 340-365 | bytes at hand, the chain of loops over them, transport keys and the read counter | `decodeFrame`, `processData`, `finishInit` |
| App state sync | `lib/Socket/chats.js` 436-582, 736-822, 994-1210, `lib/Utils/chat-utils.js`, `lib/Utils/process-message.js` 337-353 | the phase of the session and its timer, parked collections, the versions in the store, the locals of a resync, keys of app state | history messages, `doAppStateSync`, `resyncAppState`, `appPatch`, the key share, the `creds.update` listener, the end handler |

What makes each correct:

* **Pre-keys.** The range between the counters has a non-negative length; the upload counter never
  skips a key that nobody received; a key handed out can still decrypt until it is used; two retry
  receipts never share a key; an upload always settles, whatever the server does.
* **Event buffer.** Every message is delivered once, with the type it was emitted with, or
  withdrawn by a delete; nothing stays in the buffer when it is off; nobody who holds the buffer can
  keep an event back for ever.
* **Key store.** Transactions behave as if run one after the other: none commits over an update it
  has not seen. The mutex is always released; nested calls and disposal never wait for themselves.
* **Connection.** `end()` settles every query in flight and leaves no timer; `close` is announced
  last, and is reached also when the network goes silent without closing. It is not always reached:
  a relay and a devices notification can wait for each other's lock, and `end()` with them (section 6).
* **Inbound messages.** A stanza is answered once at most, and at last if it was neither dropped nor
  turned away nor cut off by a lost connection; a history message gets a second receipt (`hist_sync`)
  behind its first. Stanzas of a chat that come the same way keep their order. A redelivered message is
  shown again only if it was left unmarked or its mark has expired. Retries and requests to the phone
  stay within their budgets.
* **App state sync.** A stored version stands for mutations that were all emitted, but where a commit
  was given up or a patch of our own refused (section 6); a collection that lacks a key is fetched again
  once the key is there; the phases that hold the event buffer are left.
* **Message sending.** A stanza for everybody can be read by every device on its list, also after
  relays that failed in the middle; the list has the devices there are.
* **Receipts and resending.** A device is resent a message at most as often as the budget says, and
  with a session made after it complained.
* **LID mapping and sessions.** A session is at one address and never goes back a ratchet step while
  it is loaded, stored and moved; no way out of an announcement leaves its address locked.
* **Sender keys.** Each message decrypts once, and late ones decrypt within the limits.
* **Noise transport.** Frames are opened with the counter they were sealed with and delivered once, in
  wire order, however the stream is cut.

### Components not modelled yet, and how they touch the others

| Component | Where | Hard part | Correct when |
| --- | --- | --- | --- |
| Trusted-contact tokens | `lib/Socket/messages-recv.js` 1058-1097, 1845-1945, `lib/Utils/tc-token-utils.js` | a delayed index save, a prune with awaits, the end handler | no stored token leaves the index |
| Processing of messages and history | `lib/Utils/process-message.js`, `lib/Utils/history.js` | a wide translation of formats; its marks are in `InboundMessages`, its key share and history notification in `AppStateSync` | each content gives its events |
| Credential files | `lib/Utils/use-multi-file-auth-state.js` | a lock per file; a write of several may stop half way, which `TransactionStore` assumes of any store | each file is whole |

Without state or protocol of their own, and left out: groups, communities, newsletters, business
and mex (one request, one response each), USync (queries), the binary stanza codec and WAM (pure
formats), WAProto (generated), media (HTTP and streams), the Curve25519 loader, rich messages,
examples, tests and docs. `PROJECT.json` names each with its reason.

### Interactions

`makeSocket` owns the connection and hands `query`, `sendNode`, `ev`, `authState.keys` and
`registerSocketEndHandler` to the layers above (`chats`, `groups`, `messages-send`,
`messages-recv`, ...). Stanzas reach the handlers as events of the WebSocket client. All layers
read and write keys through one transactional store, announce changes of the counters as
`creds.update` events, and emit to the application through one event buffer. In the models:

* `PreKeys` uses the mutex of the store as `TransactionStore` establishes it (transactions of one
  store run one at a time, a commit may fail after writing part of its keys).
* `LidMapping` and `OutboundMessages` use the mutex of the store the same way: a transaction that
  ratchets a session or relays a message is alone with others of its kind, and meets the writes and
  deletions made outside of any transaction. `SenderKeys` has one transaction per operation, so one
  step. The lock of an alternative address is in `InboundMessages` a queue of stanzas and in
  `LidMapping` what is done under it. A relay of `OutboundMessages` knows the sender key as there or
  not; what its messages do at the other side is `SenderKeys`.
* `NoiseTransport` is where the frames of `Connection` come from. Its assumption about the server is
  that frames are sealed with the transport keys only after the client's last handshake message, whose
  send calls back before `finishInit()`.
* `Connection` replaces the pre-key upload of the login by one query, which `PreKeys` details. The
  disposal of the key store in `end()` (`TransactionStore`) waits there for the owner of the mutex, of
  which two are modelled: a relay and a devices notification, whose work over the lists and sessions is
  in `OutboundMessages`. The flush of `end()` is in `EventBuffer`.
* `InboundMessages` takes the connection as a flag that falls once, and the transaction around a
  retry receipt as a step that may fail; the key in the receipt is in `PreKeys`.
* `AppStateSync` uses the mutex of the store the same way: one resync, patch or key share at a time,
  so no key arrives during a resync. Its flag `held` is one holder of the buffer of `EventBuffer`; a
  message that carries history or keys is handled by the machine of `InboundMessages`.

## 2. The modules

### `PreKeys.tla`

A *job* is a call that takes keys: the one upload the dedupe promise lets run, or a retry receipt.
Its allocation is a transaction, so under the mutex (`txHolder`): `BeginTx` reads the counters
(`generateOrGetPreKeys`), `Stage` mints what is missing, `EmitAlloc` announces the counters, then
`CommitTx` or `CommitTxFails` with any part of the keys written. `CommitReceipt` is the commit that
follows a sent receipt. The upload goes on outside the mutex: `SendQuery`, `ServerAccepts`,
`ServerRejects`, `QueryTimeout`, `CommitUpload`, `RetryUpload`, and `UndoAlloc` after a failed
commit. The clamp of the `creds.update` listener is in the actions that emit. `UseKey` is a
decrypt that consumes a key, `SaveCreds` and `Crash` the application's save and a restart from what
was saved. A key is a pair number per id, so that an id minted again is told apart from its first
pair.

### `EventStream.tla`, `EventBuffer.tla`

`EventStream` is the promise: a message is pending with its type, and goes out with all others of
its type, or alone, or is withdrawn. `EventBuffer` has the code's flag, count, both timers, the
order of the buffered upserts and the scalar mirror, and the holders of the buffer: buffered
functions, stanzas in process, the login sequence. Listeners run inside `emit`, so an emission from
within a listener is on a stack (`reentered`) that must empty before anything else happens. Chats
are modelled with plain and conditional updates, upserts and deletes, a conditional update waiting
for the upsert of its chat. `KeepsPromise` is the
refinement of `EventStream` until `destroy()`, but for the steps from a state with `MirrorStale`: the delete
of the last buffered message leaves its type in the scalar mirror (`EmitDelete`, section 6), and what is
handed out next may have the wrong label.

### `TransactionStore.tla` (`MCTransactionStore.tla`)

`Call` is a call of `transaction()`; a nested one runs in its parent's context. A context has `view`
(`ctx.cache`) and `staged` (`ctx.mutations`); `seen` records what its reads have found. `Read` looks in
the view, then asks the cache or the store; `Fetched` puts the answer into the view, also over what a
nested call has staged there meanwhile (as `Object.assign` does; the mutations keep it). `Write` and
`Delete` stage, `CommitCache` writes the cache, `CommitStore`
and `StoreFails` the store, with retries. Reads outside transactions are two steps
(`OutsideRead`, `OutsideFill`), writes outside too. `Expire` is the cache's TTL or limit.
`DisposeInside`, `DisposeOutside` and `DisposeQuiet` are `disposeTransactionStorage()` from inside
and from outside a transaction, after which contexts are gone (`AsyncLocalStorage.disable()` is
instance-wide). `end()` asks for it once.

### `Connection.tla`

The variables are the socket's own: `ws`, the handshake `hand`, `keepAlive`, each query's promise,
the set `waiters`, `login`, the QR refs and timer, what was last announced (`conn`), `logoutPc` and
`endPc`. A stanza is what the socket does with it (`FatalStanza`, `OtherStanza`, `Success`,
`PairDevice`, `PairSuccess`). `dead` is a network that carries nothing more in either direction and
no close frame; the keep-alive ticks notice it. `End` is one operator used by every way to end
(user, fatal stanza, failed handshake, lost keep-alive, close event, logout), followed by `Closed`
and `Handlers`, the two awaits of `end()`. `Handlers` waits for the mutex of the store. `relay` is a
relay inside its transaction: `BeginRelay` asks for devices, `RelayAnswered` goes on to cache them,
`RelayCaches` needs devicesMutex. `notice` is a devices notification with a remove: `NoticeLocks` takes
devicesMutex, `NoticeDeletes` needs the mutex of the store. `Crossed` is the state in which each waits for
the other.

### `InboundMessages.tla` (`MCInboundMessages.tla`)

Delivery `d` is the `d`-th stanza of the connection; several may carry one message. `pc[d]` is the
place of its handler. The locks are queues whose head holds them, as `async-mutex` is first come,
first served: one per alternative address, one per chat, and the global retry queue. The offline
backlog handles one node at a time, drops what it has no room for, and drops what is left when the
connection is gone. `Decrypt` chooses what decryption finds, within what the stanza allows, and the
branch of `handleMessage` that follows; `Answer` sends the ack, nack or receipt, and `HistReceipt` the
second receipt of a history message, without which the message is not shown; `SkipUpsert`,
`Upsert` and `Process` are `upsertMessage` around the cache of processed messages, which knows a message
by its chat, id and body (`Identities`). `Process` marks a message, or leaves a content unmarked that was
deferred or refused for its author (which of them is left open); `MarkExpires` is the ten minutes of a
mark; `Throws` is a failure in one of the awaits, with the catch block, before or after the mark.
`excused` counts, per message, the times it was left without a mark. The retry is `Charge` or `BudgetSpent`,
`AskPhone`, `PhoneAsked`, `SendRetry`, `Nack`, for each of the three ways a socket counts retries
(`keeper`). `Resend...` are the steps of `requestPlaceholderResend` with its two looks at the cache,
the two seconds between, and the 8 second timer that deletes the entry.

### `AppStateSync.tla`

A collection is a log of patches at the server, each with the key it was encoded with. Calls queue for
the store as *jobs* (`full`, `resync`, `patch`, `keys`), and the head of `queue` has the mutex and the
locals of `resyncAppState()`. `Ask` is the top of the loop, up to the query; `Decode(c)` the treatment
of one collection of the answer, with or without a snapshot: `Applied`, `PatchesFail` or
`SnapshotFails`, and for a missing key `KeyMissing` (a snapshot is forced, then the collection is
parked). A patch that decoding skips counts as handled, since the code reports it and goes on. `Finish`
is the commit, the emissions and, for a full sync, the step to `Online`: these run in microtasks of the
turn in which the store mutex is released, before another transaction can commit. `Nested` and
`PatchAccepted` are `appPatch()`, whose inner resync emits before the outer transaction commits.
`PatchRefused` is a patch that the server has left, in an answer whose content `appPatch()` does not
look at: the next version is stored all the same. `Rejected` is a query that fails and undoes the head;
`CommitFails` a commit that gives up after any part of the versions was kept in cache or store. The
phases are `Pending`, `HistoryMessage`, `SyncTimeout`, `DeferredFlush`, `StartFull`, `End`, `Close`; a
key share is `ShareArrives`, `StoreKeys` with the listener (`Retry`), and `LookAtPhase` at the end of
its handler. History messages and key shares are concurrent, as they may come under the number or the
LID of the account, which have a lock each. The server answers every collection it is asked for, and
takes a patch if and only if it continues its log. `shown`, `torn` (the collections a given-up commit or
a refused patch has left with a version), `stuck`, `forgotten` and `fullFailed` record the past for the
properties. A kept version may expire from the cache later, which is left out: it only takes a version
back.

### `LidMapping.tla` (`MCLidMapping.tla`)

A *job* is an announcement of a pair; its `kind` says who announces and so what follows: the two
branches of `handleMessage` lock the alternative address (`Lock`) and one of them looks the LID up
first (`Look`, `Looked`), a mapping sync and the login migrate afterwards, the others only store.
`Check`, `Checked`, `Write` or `WriteFails`, `UpdateCache` are `storeLIDPNMappings`: the comparison with
the cache or the store, one transaction for both directions, then the cache. `MigrateDevices`,
`Discover`, `BeginMove`, `CommitMove` or `CommitMoveFails` are `migrateSession` with its two looks at the
sessions and the marks it sets before its commit. *Traffic* is whoever holds the mutex to ratchet a
session: `Load` resolves the address (asking the server if nobody knows it), `Ratchet`, `Establish`
store under the address as it resolves then, `Throw` drops what was staged. `DeleteSession`,
`FlushDevices` and `Restart` come at any moment. A session is an identity and the steps of its ratchet.

### `OutboundMessages.tla` (`MCOutboundMessages.tla`)

`tx` is the relay that runs. `Send` and `Resend` begin one (`Begin`, `BeginOne`), with the cached device
list or the server's. `RenewLids` is the forced fetch of sessions for LIDs the answer has mapped, which
may fail and be logged, and `StoreList` caches the list under devicesMutex; `Encrypt` chooses who needs
the sender key or a ciphertext and which sessions are missing; `SendNode` puts the stanza on the wire
and stages the memory; `Commit` or `CommitFails` end it, `Fail` is any error before. A retry receipt
goes through `Charge` under `receiptMutex`, then `Inject` (its own bundle), or `Drop` and `Fetch`, then
`Forget` (the group's memory) and `Resend` for each message, and `Ack`. The rules that decide whether a
session is deleted (registration id, base key, recreation) are one choice in `Drop`. `DeviceAdded`,
`DeviceRemoved` with `Removed` (devicesMutex is held from the first, while the deletion of the session
waits for the store; that transaction is assumed to commit), `DevicesUpdated` and `IdentityChanged` are
the notifications; `Crash` is a restart. Of a session the model keeps which receipts were being served
when it was made, which is what `FreshSession` needs to tell a new one from an old one.

### `SenderKeys.tla`

The sender's chain and one receiver's record. `Encrypt` and `EncryptFails` are a group message whose
transaction commits or gives up after the send, `Distribute` a resend with the key as it is then. At the
receiver `Process(d)` appends a state for each distribution message and pushes the oldest out, `Decrypt`
takes a message key from the first state of its key id, stepping the chain and keeping what it skips
(`Taken`, `Newest`); `DecryptFails` is the commit that gives up. What is on the wire may be delivered in
any order, repeatedly or never. `base` and `gave` in a state, `read`, `again` and `evicted` are history.
Records start empty: the slot of the legacy name, which is looked up once on a miss, is left out.
`Rotate` is external: nothing under `lib/` makes a new key when somebody leaves, peers do.

### `FrameStream.tla`, `NoiseTransport.tla`

`FrameStream` is the promise: frames in wire order, once each, none left behind while none is bad.
`NoiseTransport` cuts the stream into WebSocket messages anywhere (a frame is two units, its length and
its body). `Receive` is `decodeFrame` up to its first await; `Start` a loop of `processData` when the
one before has settled, `Decoded` the loop after an await, `DecodeFails` its rejection, `ListenerThrows`
its rejection by a listener of a frame that was given out; all loops share `inBytes`. A frame that is
decoded out of its turn does not open (`Opened` gives 0), so the counter is part of the property.
`WireOrder` is the refinement, with its liveness, which holds while no frame fails and no listener
throws (`FrameStream` has both as history).

## 3. The runs

In the run marked *violation* TLC refutes a statement that the repository makes and the code does not
keep; the others hold.

| Run | Shows | Bounds |
| --- | --- | --- |
| `prekeys_interleave` | counters that only an undo moves back, and possession: a key handed out is held until it is used, and no two receipts share one | an upload with a retry, two receipts, five ids, two calls of the upload, no local failure |
| `prekeys_failures` | no key is skipped and every upload settles | failing commits with partial writes, failing sends, lost answers, one crash, ids minted up to three times |
| `eb` | the messages implement `EventStream` while the mirror of their type is true; chats and deletes leave the buffer only by delivery or by an event that supersedes them; what is buffered is always released | a function, a stanza, the login; two messages that arrive, one of which may be deleted, three types, three emissions; one chat; a flush that throws |
| `ts_serial` | no commit over an unseen update; the cache agrees with the store; every call and every disposal settles | two transactions and a nested one, one key of transactions and one stored before and written outside, one value written beside the first (deletes are not counted), one failing commit, disposal at every moment |
| `connection_end` | `end()` owns the waiters and the QR timer, `close` is last, and is reached unless a relay and a notification have crossed | one query, of the user or of a relay in its transaction, any number of devices notifications, one at a time, the three login queries, the ping, one QR ref |
| `inbound` | one answer per stanza and one second receipt per history stanza, order in a lane, one upsert per message and time it was left unmarked, rising retry counts and one request to the phone, and everything that arrived gets answered | five traffics of three or four stanzas, one of them a history message three times, all three keepers, a budget of two and of none, a backlog of one, one throw or expired mark (`MaxFailures` bounds both), messages left unmarked at will |
| `appstate_parking` | no version without its mutations, but in a torn collection; parked collections are retried, phases are left | two collections of which one is busy, two keys of which one is stored, two incoming calls, one failed query, answer or commit, patches refused whenever the server is ahead, logs of two patches |
| `lid` | no session at two addresses, no ratchet step lost, no address left locked | two numbers announced with one LID, one device, two announcements of any kind, two sessions of two steps, one failing commit, one restart |
| `outbound` | the resend budget, stanzas that everybody can read, new sessions for resends | a primary device and a companion, two group messages and a direct one of which two are sent, two receipts, a budget of one, one change, one fault; a removal holds devicesMutex as long as a relay runs |
| `outbound_stale` *violation* | `CachedListFull`: a notification that comes while an older list is on its way into the cache is dropped, and the older list stays | one receipt, one send, one change |
| `noise` | the implementation of `FrameStream` | six frames, messages of up to five units, one frame that fails, listeners that throw at will |
| `sender_keys` | a message is read once, late ones stay readable | two keys, records of two states, two skipped keys kept, three steps ahead, three messages, one failing commit |

Why the bounds are enough. A lost update, an overtaking or a double answer takes two actors, so two
transactions, two receipts, two deliveries of a message; a third is there where a queue of two could
behave differently from a lock (two receipts behind an upload; a third copy of a message after the
budget was spent). Two upload calls let the second one meet what the first left. Five ids hold two
batches and a receipt's key. A failure is allowed once, because the second would find the state the
first one left by. A backlog of one is full when the second offline stanza waits. In
`appstate_parking` two calls let a notification or a patch of our own wait behind the full sync of a
history message, a log of two patches lets an answer stop between them or a snapshot stand below the
last one, and the second collection (not busy) lets one be parked while the other is done. Key
shares are not counted: each key comes once. Every bound is a constant of the module; the ones that
are not in the code (`MaxMint`, `MaxCalls`, `MaxCrashes`, `MaxEmits`, `MaxWrites`, `MaxFailures`,
...) say so where they are declared.

In `lid` a LID changes hands: that is the case in which mappings go back and forth and the cache and the
store disagree. In `outbound` the budget of one is spent by the first receipt, and the second finds it
spent, waits for its turn, or asks for the other message. Six frames with messages of five units put
two loops behind a third and cut frames at every place. In `sender_keys` three messages stand at
iterations 0, 2 and 4, so a receiver skips keys that belong to nobody too, and two states are evicted by
a third distribution message.

`NoTwins`, `RatchetKept` and `FanOutReaches` are about runs of the code in which every commit is whole
(`failures = 0`): a commit that gives up half way may leave a session at both addresses or a memory
without its key, and the code has no answer to it. The runs include such commits, and the other
properties hold through them. `KeysOutAreHeld` is about runs without lost commits and without restarts
(`prekeys_interleave` has no local failure, and the theorem says which ones it excludes), see the undo
in section 6. `OthersDelivered` lets a plain chat update be replaced by a conditional one, which
`event-buffer.js:446` does, see section 6. `ReadsStayTrue` and `CacheAgrees` speak of keys that are only
read and written in transactions; section 6 says what a read outside does. `LeadsToClose` exempts the
state `Crossed`: without the exemption TLC finds the deadlock of section 6, with it every other way to
wait for ever is still a violation. `UpsertOnce` allows one showing more for every time a message was
left without a mark; it is violated when a marked message is shown again, or when a second delivery
shows it before the first has come to its mark. `NoMutationLost` exempts the collections in `torn`; a
query that fails, an answer in part, a forced snapshot or an attempt too many tears none.

The ten minutes of a mark are modelled. The expiry of the other caches is not: of the retry counters
(`Budgets`), of the resends charged (`ResendBudget`) and of the parked requests. There the properties
are about a stretch of time shorter than the expiry, which starts a budget anew. A mark that is set when
the dispatch has already thrown (the app state sync beside it) is taken at the throw.

Deadlock is not an error in any run: a socket that has ended stops, and the bounded traffic ends.

### Fairness

* `PreKeys`: steps of a job that are due are taken, and a queued job gets the mutex. Promises and
  timers of the process settle, and `async-mutex` is first come, first served. Nothing is assumed
  of the server (`UploadSettles` rests on the timeout of the query), the application or a crash.
* `EventBuffer`: the two timers fire and listeners return. No function, stanza or login that holds
  the buffer is assumed to finish.
* `TransactionStore`: reads and writes of the store come back, and a waiter on the mutex gets it if it is
  released again and again. That work returns or throws is assumed of the caller: the work of a relay
  may not, since it can wait for devicesMutex for ever. `Connection` has that case, without the
  assumption.
* `Connection`: timers of the socket fire, a send calls back, the close of the socket comes back, and the
  relay and the notification go on when the lock they wait for is free. The disposal is awaited as
  long as the mutex is not. No query times out, no server answers and the network never has to report
  anything.
* `InboundMessages`: the loop of the backlog and the steps of handlers and timers are taken. No
  stanza has to arrive, the phone never has to answer and the connection never has to close.
* `NoiseTransport`: promises settle and the thread pool comes back.
* `FrameStream`: a frame is given out at last while none was bad and no listener has thrown.
* `LidMapping`, `OutboundMessages`, `SenderKeys`: none; only safety is stated of them.
* `AppStateSync`: timers fire, handlers go on, a query is answered or rejected (`query` has a timeout),
  and a commit ends one way or the other. No history message, key or notification has to arrive and the
  socket need not end.

## 4. The proofs

All proofs are for every value of the constants that meet the module's `ASSUME`.

* `PreKeysProofs`: `PreKeysTypeOK` (type correctness, in the three parts of `TypeOK`, one lemma per
  group of actions) and `PreKeysMonotone` (`CountersMonotone`: only the undo of a failed commit and
  a restart move a counter backwards; it needs the types alone, because the clamp is in each
  emission). `PreKeysNoKeySkipped` holds through all failures, time-outs and restarts. Its invariant
  `Skips` says that ids between the counter of minted keys and the upload counter have been given to
  somebody (`Gap`, of the counters in memory and of the saved ones), what range each job has taken
  (`Ranges`, `Takes`), and that the keys an upload is about to count are with the server (`Carried`).
  `PreKeysOutAreHeld` (`KeysOutAreHeld`) assumes that no process dies and no commit of its
  transactions gives up, `[][~Loses]_vars`: the code undoes the counter and not the keys it has handed out
  (section 6). Its invariant `KeptOut` adds that a transaction mints above every id in the store
  (`Minting`), and that what leaves the client was committed or is staged by the transaction it left in.
* `TransactionStoreProofs`: `TransactionStoreTypeOK`, where `TypeFetches` is the strengthening (a
  frame that fetches knows its key and its context), and `TransactionStoreOwnerRuns`,
  which is inductive with the types: only the owner of the mutex settles while it owns it, and
  every way to settle releases it. `TransactionStoreReadsStayTrue` and `TransactionStoreCacheAgrees`
  assume that no commit exhausts its attempts, `[][~GivesUp]_vars`: one that does leaves the cache
  with values the store has not got. The invariant `Serial` says that until disposal everything that
  runs does so in the context of the owner of the mutex, and nothing beside a commit (`OneRuns`), and
  that what is cached, fetched or read of a key that is only touched in transactions is what the store
  has, or what the commit under way writes (`Agreed`). The run has fewer failures than attempts, so it
  needs no such hypothesis.
* `SocketProofs`, about the connection and the two instances beside it: `Noise` is the transport under
  it and `Events` the buffer over it (`login` of the buffer is called `holding` there). Theorems about
  an instance take its `ASSUME` as their hypothesis. For the connection, `ConnectionTypeOK` and
  `ConnectionEndOwnsWaiters`. The property is not inductive alone: a query could start or be sent after
  `end()`. The invariant `Owned` adds that a waiting query is parked with `end()`, that the socket is not
  open after `end()`, and that no parked query is still pending then. `ConnectionClosedForGood` rests on
  `Announced`: `close` goes out only with the last step of `end()`, after which nothing that announces is
  enabled. `ConnectionCrossedNeverCloses` says that nothing leaves `Crossed` and that `close` is not
  announced in it, so what `LeadsToClose` exempts is a hang and not a delay; its invariant is that the
  last step of `end()` finds neither a relay nor a notification under way.
  - `NoiseTransportTypeOK` and `NoiseTransportInOrder`, the safety part of `WireOrder`: every step is one of
    `FrameStream` or a stutter. The invariant `Transport` states the bytes at hand, those still in chunks
    included, as the stream from the first frame that nobody has taken (`AtHand`), says that only the
    first loop decodes and that it has the frame that is due (`InLine`), and that the counter has been
    raised once for every frame behind the hello (`Counted`). A run that rejects, for its frame or for a
    listener of it, keeps all three (`TransportRejects`). `FlattenSeq` of the library is a recursive
    function; what is used of it (no chunk gives nothing, one chunk more adds its bytes at the end) is proved
    by the least counterexample instead of the induction theorems.
  - `EventBufferTypeOK` and `EventBufferOthersDelivered` rest on `Buffered`: the keys of the order are
    distinct, are those with a type, and are as many as the count says (`Books`), and a buffer that is off
    holds only waiting conditional updates (`Empty`).
  - `EventBufferKeepsPromise` proves the refinement of `EventStream` step by step. The buffer hands out
    one batch under one label, and `EventStream` all messages of a type: `Uniform` says that only the first
    entry may have another type than the scalar mirror, so that without `MirrorStale` they all have one.
    `Nested` says that an emit suspended in the type gate is alone and that what its listeners have
    buffered is of its type, which is where the proof needs `~ListenerAnyType`: listeners that answer a
    batch of one type with another break the promise (section 6), and the run has none either.
  - `EventBufferMirrorTrue`: as long as no delete takes the last buffered message
    (`[][~TakesLast]_(Events!vars)`), the mirror is never stale and the promise holds without the exemption.
    That delete is so the only way to the mislabelled batch of section 6.
* `InboundMessagesProofs`: all safety properties of the module, by one invariant with a part for each
  (`Whole`).
  - `InboundMessagesOneAnswer`. `Once` says, at every place of a handler, whether it has answered and
    what `acked` says: at `upsert` and `process` a delivery is either answered and acked, or neither and
    headed for the retry, so that the catch block is right in both cases. `Hist` adds that the second
    receipt of a history message is not out before `histSync` is passed, where the first one is. That a
    stanza is begun once needs the backlog: a node waits there once and has not been handled
    (`Backlogged`), and nothing is handled before it arrives (`InTurn`).
  - `InboundMessagesLaneOrder`. The locks are queues: whoever waits stands in one of them, once
    (`Waiting`); only the head is past its lock (`Lines`); and a stanza is never ahead of one of its lane
    that came before it, at whatever place each of them is (`Lanes`).
  - `InboundMessagesUpsertOnce`. `Shown` is an account: the upserts of a message are at most the times
    it was left without a mark, plus one if it is marked or being processed, and nobody processes what is
    marked. It needs that one delivery of a chat is inside its lock.
  - `InboundMessagesBudgets`. `Charges`: the retry receipts sent are below the count charged and rise,
    and one delivery is past the retry lock. `Asks`: the requests sent to the phone plus those about to be
    sent are at most the entries deleted plus one, the entry there is.
  - `InboundMessagesTypeOK` follows from all of them: that a counter keeps its bound is no shallower.
* `AppStateSyncProofs`: `AppStateSyncTypeOK`, whose types of the round (`TypeRound`) say that answers
  are due for collections to do and that those have an attempt left, and `AppStateSyncNoMutationLost`.
  The property speaks of committed versions; the invariant `NoLoss` adds what a resync holds: every
  version up to the staged one (`KeptStaged`), and up to the first one it saw (`KeptLow`), is shown or
  in hand, so that a commit keeps it and an undo loses nothing, unless the collection is torn, which
  only `CommitFails` and `PatchRefused` make it. `Sent` adds that nothing is in hand while a patch of
  our own is out. `AppStateSyncWakes`: `Watch` names, for each parked collection, whoever is going to
  fetch it (`Due`): a job behind the head (`Behind`), the round of the head itself, or the end of a key
  share's handler, which looks at the phase (`Told`); a collection with none of these still waits for a
  key that is not there, or is one that a failed query or commit has stranded (`forgotten`). That a key
  which comes empties the set of the others (`Locked`), and that a full sync has all collections
  (`HeadJob`), carry it through the queue.
* `OutboundMessagesProofs`: `OutboundMessagesTypeOK`, with `Shape`, which ties a relay to the receipt that
  waits for it and a receipt to messages of one chat. `OutboundMessagesResendBudget`: the invariant
  `Account` adds that one receipt of a chat is served at a time (`Turn`) and that resends done plus
  resends owed are covered by what was charged (`Budget`). `OutboundMessagesFreshSession`: `Fresh` says that
  once a receipt has renewed the session, neither the store nor a relay that has loaded has an older
  one. `OutboundMessagesFanOutReaches`: `Fan` says that the stored memory and the relay's copy only name
  devices that were told the key there is.
* `LidMappingProofs`: `LidMappingTypeOK`, with `Shape` (only announced pairs are mapped), and
  `LidMappingLockOwned`, by `Turns`: locks and announcements inside them match. `LidMappingNoTwins` and
  `LidMappingRatchetKept` assume `OneLid` (no number is announced with two LIDs; a LID may have several
  numbers). Their invariant is `Sound`: while no commit gave up, the number of any pair that somebody goes
  by is mapped in the store (`Mapped`), traffic stores where it loaded (`Steady`), and a session that is
  stored, loaded or copied for a move has no twin (`Once`). Without `OneLid` the address may resolve
  differently between the load and the store. The run does not need the assumption: its pairs meet it.
* `SenderKeysProofs`: `SenderKeysTypeOK`; `SenderKeysLateReadable`, by `Good` (each key a chain has passed
  is kept, given or pushed out by newer ones), which rests on a lemma about the cardinality of an interval;
  `SenderKeysReadOnce`, by `Spent`: the first state of a key, which is the one that decrypts, has given
  every message of the key that was read.

Only model-checked: everything with fairness (`UploadSettles`, `Released`, `Settles`, `LeadsToClose`,
`Answered`, `LeavesPhases`, and the liveness of `FrameStream` in `WireOrder`), which TLAPS does not reach. Every
safety property that a run checks is a theorem, under the hypotheses named above.

## 5. Plan

What is left to model, in order of importance:

1. **`TcTokens`**: the index of known tokens, its delayed save, the prune and the end of the socket.
   Abstract: no stored token is missing from the saved index. Section 6 lists what it will run into.
2. **Device lists**: the delayed flush of `messages-send.js` and the end of the socket, on top of
   `OutboundMessages`; the debounce of identity changes; bad acks; calls.
3. Contacts, groups, receipts, reactions and history sets in `EventBuffer`; the reconnection of a
   `WebSocketClient` in `Connection`; the history status timer in `AppStateSync`; batches and coalesced
   lookups in `LidMapping`; the per-file locks of the credential files as a refinement of the store; the
   binary codec last.

What is left to prove: nothing that the provers reach of the modules above. What comes next is to be proved
with the modules that are still to be written, and the hypotheses above to be dropped where the code is
repaired: `~GivesUp`, `~Loses`, `OneLid`, `~ListenerAnyType`, `~TakesLast`.

The models stand for a small part of the lines under `lib/`: of about 144 000, some 120 000 are generated
tables (`WAProto/index.js`, `lib/WAM/constants.js`, `lib/WABinary/constants.js`), and much of the rest builds
one request and parses one response. The parts with state of their own and concurrency are the ones above.

## 6. What was seen and is not a run

Places where the code, its comments or its tests disagree, or that are worth a reader's attention,
met while modelling:

* `lib/Socket/messages-recv.js:604` leaves `nextPreKeyId` advanced when the send of a retry receipt
  fails (`CHANGELOG.md:392` describes an undo).
* `lib/Socket/messages-recv.js:1753`: the end of one stanza flushes what other holders of the event
  buffer still collect; the comment at 1745-1746 says otherwise. Delivery is only earlier.
* `lib/Utils/event-buffer.js:440`: a plain chat update merged into a waiting conditional one is held
  back with it; `446`: a conditional update replaces a plain one (`lib/Types/Chat.d.ts:45-46`).
* `lib/Utils/event-buffer.js:580`: a buffered delete of the last upsert leaves its type in the scalar
  mirror, which is then not the first entry's type (the comment at 322-323). Buffering, emit k2 as "append",
  delete k2, emit k1 as "notify", emit a message of a third type: the gate hands out k1 labelled "append",
  where the comment at 225 says "Emit the buffered messages with their correct type". A flush in
  between heals it, since consolidation looks at the first entry. `KeepsPromise` leaves these steps out.
* `lib/Utils/event-buffer.js:487`: `contacts.upsert` merges a buffered update into an object that it then
  deletes, so the update is lost; `623`: a second `groups.update` of a group is dropped while buffering.
* `lib/Socket/socket.js:413-417`: the undo of a failed upload commit can be overtaken by a retry receipt
  that was queued on the mutex (`lib/Utils/signal.js:182`): its ids count from the inflated counter, and
  the undo then leaves the ids without keys counted. Two retry receipts can also send one key, if the
  process dies between them with its credentials unsaved.
* `lib/Socket/socket.js:364`: a handshake that finishes during `end()` starts the keep-alive again
  (`CHANGELOG.md:212-213`: every timer is cleaned up).
* `lib/Utils/auth-utils.js:52`: a read outside of any transaction fills the cache with a value from before
  a commit, if the commit wrote it meanwhile (comment at 26).
* `lib/Utils/event-buffer.js:234`: a listener that answers a retired batch with a message of another
  type can have it labelled with the wrong one (208-209 say when the types are split).
* `lib/Socket/socket.js:538`: `logout()` resolves before the teardown if another `end()` is under
  way (`tests/lifecycle-logout-teardown.test.mjs:17`), and rejects without `end()` when the socket
  is not open.
* `lib/Socket/socket.js:867-889`: `open` may be announced after `end()` began, when `end()` rejected
  the login's queries; the passive query started after `end()` waits for its own timer.
* `lib/Socket/socket.js:570`, the deadlock that `LeadsToClose` exempts: a relay owns the transaction
  mutex (`lib/Socket/messages-send.js:615`) and, when the answer to its device query is there, waits for
  devicesMutex (292). A devices notification with a remove owns devicesMutex
  (`lib/Socket/messages-recv.js:847`) and deletes sessions in a transaction (861,
  `lib/Signal/libsignal.js:259`). When the notification comes between the query and its answer each
  waits for the other. No timer is involved: every later send, retry receipt and decrypt of the socket
  waits too. `end()` rejects the queries, none of which the two are waiting for any more, and awaits the
  disposal of the store, which queues on the mutex: `close` is never announced, so nobody reconnects.
  The comment at `socket.js:1048-1050` says that "a transaction already running when end() is called
  settles first", and the one in `lib/Utils/auth-utils.js:219-220` that the disposal will "resolve once
  the store is quiet"; this transaction does not settle. A notification that takes devicesMutex behind
  the disposal is safe, since its transaction runs inline. `OutboundMessages` has the same two locks;
  what it states is safety and holds.
* `lib/Socket/Client/websocket.js:40`: the close listener of an old socket also drops a newer one
  (comment at 77).
* `lib/Utils/noise-handler.js:100-112`: the flag for frames that arrive during `finishInit` is set
  and cleared with no await between. A frame that does not decode, or whose listener throws, ends the
  socket (`lib/Socket/socket.js:790-793`). Frames behind it in the same WebSocket message are only looked
  at if the loop of another message was already queued, and then go to a socket that has ended.
* Trusted-contact tokens: `lib/Socket/messages-recv.js:1882` empties the set of known tokens before the
  close event flushes it (1850); the prune (1885-1945) writes an index without the tokens tracked
  during its awaits. Without a usable index `readTcTokenIndex` gives `undefined`, over which 1061 and 1893
  iterate: the load and the prune throw (and log), though the comment in
  `lib/Utils/tc-token-utils.js:30-31` wants the index rebuilt.
* `lib/Socket/messages-send.js:1202`: the last flush of device lists is not awaited by `end()`
  (comment at 39). The flush timer is armed inside a relay's transaction and keeps its async context, so
  its write may be staged into a transaction that is over, contrary to 36-41.
* Sending: a retry deletes the memory of a group outside of any transaction
  (`lib/Socket/messages-recv.js:1250-1252`); a relay in flight then stores its older copy again
  (`lib/Socket/messages-send.js:1010`). When the commit of a relay gives up, or the process dies, after
  the send, the next message uses message keys again that are on the wire.
* Sessions: a message whose mapping was stored and whose migration failed finds the mapping the next time
  and leaves the session at the number (`lib/Socket/messages-recv.js:1449`); sessions are deleted at an
  address that is not resolved (524), so one that moved to the LID stays; `migratedSessionCache` is set
  before the commit (`lib/Signal/libsignal.js:363-370`); a migration overwrites a newer session of the LID;
  the account's own device list is replaced by the one device after login
  (`lib/Socket/socket.js:896-901`); a number keeps its mapping to a LID that has changed hands; a pair
  staged by a transaction that throws stays in the cache (`lib/Signal/lid-mapping.js:75`).
* Sender keys: each distribution message of one key adds a state (`lib/Signal/Group/sender-key-record.js:23`)
  and after five of them the advanced state is gone: what was read is readable again, and the next
  state may be further behind than a chain is stepped. A sender leaves out every second iteration after
  the first (`lib/Signal/Group/group_cipher.js:21`), so half of the kept keys belong to nobody.
* Inbound messages: a history message whose second receipt (`lib/Socket/messages-recv.js:1577`) cannot be
  sent has been answered and is not shown, so nothing makes the server send it again. A history
  notification before the initial sync is done, and a self-only message from somebody else, are left
  unmarked (`lib/Utils/process-message.js:287-293`, 334, 702; the comment at 236-238 and
  `tests/process-message-idempotency.test.mjs` want the first): their upsert is emitted again by every
  copy. Furthermore, the request to the phone and the retry receipt go out for a message that another
  copy decrypted meanwhile (the log line at 115 says resolved); a late 8 second timer deletes the
  entry of a later request (`CHANGELOG.md:171-177`); a message that was decrypted but whose receipt
  could not be sent is not shown, and its redelivery can no longer be decrypted; a redelivery that
  fails after a success shows a stub over the message; every redelivery is answered again (known:
  `CHANGELOG.md:449-452`); a spent budget starts anew; the phone timer can be scheduled after
  `messageRetryManager.clear()`.
* App state: `fetchProps` (`lib/Socket/chats.js:820`, and others that emit the whole credentials) looks
  like a key arrival to the listener at 1175, which while `Syncing` forgets what the running sync has
  parked (1181; the comment at 1179 says that sync handles all). A full sync whose query is rejected
  leaves the phase `Syncing` until the next key share or history message, and a retry of parked
  collections that is rejected (1185-1187) is not parked again. A collection the answer omits is asked
  for again without end (467). `appPatch` does not look at errors inside an answer (783-784): a patch
  that the server has refused is stored as the next version, so the patch another device has put there
  is never fetched, and with `emitOwnEvents` the refused one is announced as done. When the commit of a
  resync gives up, the cache has the new versions, since it is written before the store
  (`lib/Utils/auth-utils.js:58-70`, 140), and the store may have some of them, but 577-581 emit nothing:
  until the cached entry expires, or for good, later resyncs start behind mutations nobody was told of.
  A full sync that finishes after the end handler sets `Online` again (1059, 1208).
* `@cacheable/node-cache` does not store once `maxKeys` is reached, so deduplication and budgets that
  rest on it stop working at that size.

## 7. Running

    tlc -config InboundMessages_redelivery.cfg MCInboundMessages
    tlc -config SenderKeys_disorder.cfg SenderKeys
    tlapm SenderKeysProofs.tla

`PROJECT.json` lists every run with its module, configuration and properties, the mutated definition
each property is known to catch, the source lines behind each definition, the hazards of the code
with the properties that watch them, and the theorems.
