----------------------------- MODULE AppStateSync -----------------------------
(***************************************************************************)
(* The start of a session and the app state collections of                  *)
(* lib/Socket/chats.js, with the decoding of lib/Utils/chat-utils.js and    *)
(* the key share of lib/Utils/process-message.js.                           *)
(*                                                                         *)
(* syncState goes from Connecting to Online, by way of a history message,   *)
(* a key share, a timer or the configuration, while the event buffer is     *)
(* held.  A collection is a log of patches at the server, each encoded with *)
(* a key of the phone.  resyncAppState() fetches what the store lacks; one  *)
(* that lacks a key is parked in blockedCollections until a key arrives.    *)
(* A resync, a patch of our own and the storing of shared keys are          *)
(* transactions of one store, so one job at a time has its mutex: the head  *)
(* of the queue.                                                            *)
(***************************************************************************)
EXTENDS Integers, Sequences

CONSTANTS
  Cols,             \* ALL_WA_PATCH_NAMES
  Keys, None,       \* keys of app state
  OldKeys,          \* the ones an earlier process has stored
  WillSync,         \* shouldSyncHistoryMessage() takes recent history
  MaxAttempts,      \* MAX_SYNC_ATTEMPTS
  Busy,             \* the collections that notifications, patches and other devices name
  MaxLog,           \* bound on the patches of a collection
  MaxCalls,         \* bound on messages, notifications and calls that come in
  MaxFailures       \* bound on queries and commits that fail, and on answers that cannot be used
                    \* for another reason than a key

ASSUME AppStateSyncAssumption ==
  /\ None \notin Keys /\ OldKeys \subseteq Keys /\ Busy \subseteq Cols /\ MaxAttempts \in Nat \ {0}
  /\ WillSync \in BOOLEAN
  /\ MaxLog \in Nat \ {0} /\ MaxCalls \in Nat /\ MaxFailures \in Nat

VARIABLES
  log,                            \* at the server: per collection, the key of each patch
  version, keys, myKey,           \* the store, and creds.myAppStateKeyId
  synced,                         \* creds.accountSyncCounter > 0
  conn,                           \* the socket
  syncState, timer, held,         \* awaitingSyncTimeout; the ev.buffer() of the first phase
  deferred,                       \* a flush waits in setTimeout(.., 0)
  blocked,                        \* blockedCollections
  queue, patching,                \* jobs; the head sends a patch of our own
  todo, asked, snapAsked,         \* of the head: collectionsToHandle, what an answer is due for
  forced, attempts, low,          \* forceSnapshotCollections, attemptsMap, initialVersionMap
  staged, got,                    \* versions in the transaction; globalMutationMap, by version
  tails,                          \* key shares whose handler has yet to look at syncState
  shown,                          \* history: the versions whose mutations were emitted
  torn,                           \* history: see NoMutationLost
  stuck, forgotten, fullFailed,   \* history: see Wakes and LeavesPhases
  calls, failures

store  == <<version, keys, myKey, synced>>
phase  == <<conn, syncState, timer, held, deferred>>
local  == <<patching, todo, asked, snapAsked, forced, attempts, low, staged, got>>
past   == <<shown, torn, stuck, forgotten, fullFailed>>
bounds == <<calls, failures>>
vars == <<log, store, phase, blocked, queue, local, tails, past, bounds>>

Versions == 0..MaxLog
Kinds == {"full", "resync", "patch", "keys"}
Jobs == {j \in [kind : Kinds, cols : SUBSET Cols, key : Keys \cup {None}] :
           j.kind \in {"patch", "keys"} => j.key \in Keys}
Job(kind, cols, key) == [kind |-> kind, cols |-> cols, key |-> key]
Per(x) == [c \in Cols |-> x]

Init ==
  /\ log \in [Cols -> {<<k>> : k \in Keys}] /\ version = Per(0)
  /\ keys = OldKeys /\ myKey \in IF OldKeys = {} THEN {None} ELSE OldKeys
  /\ synced \in BOOLEAN
  /\ conn = "open" /\ syncState = "Connecting"
  /\ timer = FALSE /\ held = FALSE /\ deferred = FALSE
  /\ blocked = {} /\ queue = <<>> /\ patching = FALSE
  /\ todo = {} /\ asked = {} /\ snapAsked = {} /\ forced = {}
  /\ attempts = Per(0) /\ low = Per(0) /\ staged = Per(0) /\ got = Per({})
  /\ tails = 0
  /\ shown = Per({}) /\ torn = {} /\ stuck = Per(None) /\ forgotten = {} /\ fullFailed = FALSE
  /\ calls = 0 /\ failures = 0

\* Something comes in from the server, the phone or the application.
Arrives == conn = "open" /\ calls < MaxCalls /\ calls' = calls + 1 /\ UNCHANGED failures

Stuck(cols) == {c \in cols : stuck[c] # None}

\* The locals of a resync begin with its job.
Enqueue(jobs) ==
  /\ queue' = queue \o jobs
  /\ IF queue = <<>> /\ jobs # <<>> THEN todo' = jobs[1].cols ELSE UNCHANGED todo
  /\ UNCHANGED <<patching, asked, snapAsked, forced, attempts, low, staged, got>>

\* The head is over; more jobs come in the same turn of the event loop.
Dequeue(jobs) ==
  LET rest == Tail(queue) \o jobs
  IN /\ queue' = rest
     /\ todo' = IF rest = <<>> THEN {} ELSE rest[1].cols
     /\ patching' = FALSE /\ asked' = {} /\ snapAsked' = {} /\ forced' = {}
     /\ attempts' = Per(0) /\ low' = Per(0) /\ staged' = version' /\ got' = Per({})

Go(state) == syncState' = state
Flush == held' = FALSE
Online == Go("Online") /\ Flush /\ synced' = TRUE

-----------------------------------------------------------------------------
(* The phases                                                              *)

\* receivedPendingNotifications: hold the buffer, and decide what to wait for.
Pending ==
  /\ conn = "open" /\ syncState = "Connecting"
  /\ held' = TRUE
  /\ \/ WillSync /\ ~synced /\ Go("Awaiting") /\ timer' = TRUE /\ UNCHANGED deferred
     \/ ~(WillSync /\ ~synced) /\ Go("Online") /\ deferred' = TRUE /\ UNCHANGED timer
  /\ UNCHANGED <<log, store, conn, blocked, queue, local, tails, past, bounds>>

DeferredFlush ==
  /\ deferred /\ deferred' = FALSE
  /\ Flush
  /\ UNCHANGED <<log, store, conn, syncState, timer, blocked, queue, local, tails, past, bounds>>

\* After 20 seconds without a history message.
SyncTimeout ==
  /\ timer /\ timer' = FALSE
  /\ IF syncState = "Awaiting" THEN Online ELSE UNCHANGED <<syncState, held, synced>>
  /\ UNCHANGED <<log, version, keys, myKey, conn, deferred, blocked, queue, local, tails, past,
                 bounds>>

\* doAppStateSync() in the phase Syncing, up to the mutex.
StartFull ==
  /\ blocked' = {}
  /\ fullFailed' = FALSE
  /\ Enqueue(<<Job("full", Cols, None)>>)

\* Mutant: a message that is not processed leaves the phase alone.
AfterUsedHistory(processable) ==
  IF syncState = "Awaiting" /\ processable THEN "Syncing" ELSE syncState

AfterHistory(processable) ==
  IF syncState # "Awaiting" THEN syncState ELSE IF processable THEN "Syncing" ELSE "Online"

\* A history message, processable or not: it ends the wait, or finds a sync to repeat.
HistoryMessage(processable) ==
  LET next == AfterHistory(processable)
      waited == syncState = "Awaiting"
  IN /\ conn = "open"
     /\ Go(next)
     /\ timer' = (timer /\ ~waited)
     /\ held' = (held /\ ~(waited /\ next = "Online"))
     /\ IF processable /\ next = "Syncing"
        THEN Arrives /\ StartFull
        ELSE UNCHANGED <<blocked, fullFailed, queue, local, bounds>>
     /\ UNCHANGED <<log, store, conn, deferred, tails, shown, torn, stuck, forgotten>>

\* The end handler; `close` is announced after it.
End ==
  /\ conn = "open" /\ conn' = "ended"
  /\ timer' = FALSE
  /\ Go("Connecting")
  /\ UNCHANGED <<log, store, held, deferred, blocked, queue, local, tails, past, bounds>>

Close ==
  /\ conn = "ended" /\ conn' = "closed"
  /\ blocked' = {}
  /\ UNCHANGED <<log, store, syncState, timer, held, deferred, queue, local, tails, past, bounds>>

-----------------------------------------------------------------------------
(* Calls that queue for the store                                          *)

Call(job) ==
  /\ Arrives
  /\ Enqueue(<<job>>)
  /\ UNCHANGED <<log, store, phase, blocked, tails, past>>

\* A server_sync notification.
ServerSync(c) == Call(Job("resync", {c}, None))

\* appPatch(), which its own mutex lets in one at a time.
AppPatch(c) ==
  /\ myKey # None /\ \A i \in DOMAIN queue : queue[i].kind # "patch"
  /\ Call(Job("patch", {c}, myKey))

\* A message with a key of the phone, which shares each once.
ShareArrives(k) ==
  /\ conn = "open" /\ k \notin keys
  /\ \A i \in DOMAIN queue : queue[i] # Job("keys", {}, k)
  /\ Enqueue(<<Job("keys", {}, k)>>)
  /\ UNCHANGED <<log, store, phase, blocked, tails, past, bounds>>

\* Another device appends to a collection.
Publish(c, k) ==
  /\ Arrives
  /\ Len(log[c]) < MaxLog
  /\ log' = [log EXCEPT ![c] = Append(@, k)]
  /\ UNCHANGED <<store, phase, blocked, queue, local, tails, past>>

-----------------------------------------------------------------------------
(* The arrival of keys                                                     *)

\* Mutant: the set is emptied before it is copied.
RetryNothing == IF blocked = {} \/ syncState = "Syncing" THEN <<>> ELSE <<Job("resync", {}, None)>>

\* The creds.update listener, told a myAppStateKeyId: the resync it starts.
Retry == IF blocked = {} \/ syncState = "Syncing" THEN <<>> ELSE <<Job("resync", blocked, None)>>

\* The transaction of the key share, and what it announces.
StoreKeys ==
  /\ queue # <<>> /\ Head(queue).kind = "keys"
  /\ keys' = keys \cup {Head(queue).key} /\ myKey' = Head(queue).key
  /\ UNCHANGED <<version, synced>>
  /\ Dequeue(Retry) /\ blocked' = {}
  /\ tails' = tails + 1
  /\ UNCHANGED <<log, phase, past, bounds>>

\* The end of its handler: a sync that waits for keys starts.
LookAtPhase ==
  /\ tails > 0 /\ tails' = tails - 1
  /\ IF syncState = "Syncing"
     THEN StartFull
     ELSE UNCHANGED <<blocked, fullFailed, queue, local>>
  /\ UNCHANGED <<log, store, phase, shown, torn, stuck, forgotten, bounds>>

\* Others announce the whole credentials (fetchProps and more), which the
\* listener takes for a key: while Syncing it forgets what the sync has parked.
WholeCreds ==
  /\ Arrives
  /\ myKey # None /\ blocked # {}
  /\ Enqueue(Retry) /\ blocked' = {}
  /\ forgotten' = IF syncState = "Syncing" THEN forgotten \cup blocked ELSE forgotten
  /\ UNCHANGED <<log, store, phase, tails, shown, torn, stuck, fullFailed>>

-----------------------------------------------------------------------------
(* resyncAppState()                                                        *)

Running == queue # <<>> /\ Head(queue).kind # "keys" /\ asked = {}

\* A round: read the versions, send one query for all that is to do.
Ask ==
  /\ Running /\ conn = "open"
  /\ todo # {}
  /\ asked' = todo
  /\ snapAsked' = {c \in todo : c \in forced \/ staged[c] = 0}
  /\ forced' = forced \ todo
  /\ low' = [c \in Cols |-> IF c \in todo /\ low[c] = 0 THEN staged[c] ELSE low[c]]
  /\ UNCHANGED <<log, store, phase, blocked, queue, patching, todo, attempts, staged, got, tails,
                 past, bounds>>

\* Mutant: >, one attempt more, with nothing left to force.
ParkLate(c, key) ==
  IF attempts[c] + 1 > MaxAttempts
  THEN /\ blocked' = blocked \cup {c} /\ todo' = todo \ {c}
       /\ stuck' = [stuck EXCEPT ![c] = key] /\ forgotten' = forgotten \ {c}
       /\ UNCHANGED forced
  ELSE forced' = forced \cup {c} /\ UNCHANGED <<blocked, todo, stuck, forgotten>>

\* A key is missing: once, a snapshot may do with another; twice, the collection is parked.
KeyMissing(c, key) ==
  IF attempts[c] + 1 >= MaxAttempts
  THEN /\ blocked' = blocked \cup {c} /\ todo' = todo \ {c}
       /\ stuck' = [stuck EXCEPT ![c] = key] /\ forgotten' = forgotten \ {c}
       /\ UNCHANGED forced
  ELSE forced' = forced \cup {c} /\ UNCHANGED <<blocked, todo, stuck, forgotten>>

\* Anything else: a snapshot once, then the collection is given up.
Unusable(c, fatal) ==
  /\ failures < MaxFailures /\ failures' = failures + 1
  /\ IF fatal \/ attempts[c] + 1 >= MaxAttempts
     THEN todo' = todo \ {c} /\ stuck' = [stuck EXCEPT ![c] = None] /\ UNCHANGED forced
     ELSE forced' = forced \cup {c} /\ UNCHANGED <<todo, stuck>>
  /\ UNCHANGED <<blocked, forgotten>>

\* What counts as new: decodeSyncdSnapshot with every record of a snapshot that is newer than the
\* first version seen, decodePatches with the patches that are.
FromSnapshot(c, snap) == IF snap > low[c] THEN 1..snap ELSE {}
FromPatches(c, base, last) == {v \in base + 1..last : v > low[c]}
Base(c, snap) == IF snap > 0 THEN snap ELSE staged[c]

\* Mutant: no transaction around the resync, each version is stored at once.
StageAtOnce(c, v, news) ==
  /\ staged' = [staged EXCEPT ![c] = v] /\ version' = [version EXCEPT ![c] = v]
  /\ got' = [got EXCEPT ![c] = @ \cup news]

Stage(c, v, news) ==
  /\ staged' = [staged EXCEPT ![c] = v] /\ UNCHANGED version
  /\ got' = [got EXCEPT ![c] = @ \cup news]

\* The snapshot, if there is one, and the patches after it are applied.  `last` may be short of the
\* log: the answer had no more, or a hash did not match and the rest was left.
Applied(c, snap, last, more) ==
  LET base == Base(c, snap)
  IN /\ \A v \in base + 1..last : log[c][v] \in keys
     /\ Stage(c, last, FromSnapshot(c, snap) \cup FromPatches(c, base, last))
     /\ low' = [low EXCEPT ![c] = IF last > base THEN last ELSE @]
     /\ IF more
        THEN last > staged[c] /\ last < Len(log[c]) /\ UNCHANGED <<todo, stuck>>
        ELSE todo' = todo \ {c} /\ stuck' = [stuck EXCEPT ![c] = None]
     /\ UNCHANGED <<blocked, forced, forgotten, attempts, failures>>

\* A patch after it fails; the snapshot stays stored.
PatchesFail(c, snap, last) ==
  LET base == Base(c, snap)
      missing == {v \in base + 1..last : log[c][v] \notin keys}
  IN /\ last > base
     /\ Stage(c, base, FromSnapshot(c, snap))
     /\ attempts' = [attempts EXCEPT ![c] = @ + 1]
     /\ \/ \E v \in missing : /\ \A w \in missing : v <= w
                              /\ KeyMissing(c, log[c][v])
                              /\ UNCHANGED failures
        \/ \E fatal \in BOOLEAN : Unusable(c, fatal)
     /\ UNCHANGED low

SnapshotFails(c, key) ==
  /\ attempts' = [attempts EXCEPT ![c] = @ + 1]
  /\ \/ key \notin keys /\ KeyMissing(c, key) /\ UNCHANGED failures
     \/ key \in keys /\ \E fatal \in BOOLEAN : Unusable(c, fatal)
  /\ UNCHANGED <<version, staged, got, low>>

Content(c, snap) ==
  \E last \in Base(c, snap)..Len(log[c]) :
    PatchesFail(c, snap, last) \/ \E more \in BOOLEAN : Applied(c, snap, last, more)

\* The answer for one collection.  A snapshot comes only if asked for.
Decode(c) ==
  /\ c \in asked /\ asked' = asked \ {c}
  /\ snapAsked' = snapAsked \ {c}
  /\ \/ Content(c, 0)
     \/ /\ c \in snapAsked
        /\ \E snap \in 1..Len(log[c]), key \in Keys :
             SnapshotFails(c, key) \/ (key \in keys /\ Content(c, snap))
  /\ UNCHANGED <<log, keys, myKey, synced, phase, queue, patching, tails, shown, torn,
                 fullFailed, calls>>

\* The commit, and the mutations.  A full sync goes online with it.
Emit == shown' = [c \in Cols |-> shown[c] \cup got[c]]

Finish ==
  /\ Running /\ todo = {} /\ Head(queue).kind \in {"full", "resync"}
  /\ version' = staged /\ UNCHANGED <<keys, myKey>>
  /\ Emit
  /\ Dequeue(<<>>)
  /\ IF Head(queue).kind = "full" THEN Online ELSE UNCHANGED <<syncState, held, synced>>
  /\ UNCHANGED <<log, conn, timer, deferred, blocked, tails, torn, stuck, forgotten,
                 fullFailed, bounds>>

\* The resync inside appPatch() emits before the transaction around it commits.
Nested ==
  /\ Running /\ todo = {} /\ Head(queue).kind = "patch" /\ ~patching
  /\ patching' = TRUE
  /\ Emit /\ got' = Per({})
  /\ UNCHANGED <<log, store, phase, blocked, queue, todo, asked, snapAsked, forced, attempts, low,
                 staged, tails, torn, stuck, forgotten, fullFailed, bounds>>

\* The server takes a patch that continues its log, and leaves another; the code
\* does not look at what the answer says of the collection.
Takes(c) == Len(log[c]) = staged[c] /\ log' = [log EXCEPT ![c] = Append(@, Head(queue).key)]
Refuses(c) == Len(log[c]) > staged[c] /\ UNCHANGED log
Next1(c) == [staged EXCEPT ![c] = @ + 1]

Sending(c) == /\ Running /\ conn = "open" /\ Head(queue).kind = "patch" /\ patching
              /\ c \in Head(queue).cols /\ staged[c] < MaxLog

\* The commit, and the mutation of a patch that was taken.
PatchAccepted(c) ==
  /\ Sending(c) /\ Takes(c)
  /\ version' = Next1(c)
  /\ shown' = [shown EXCEPT ![c] = @ \cup {staged[c] + 1}]
  /\ Dequeue(<<>>)
  /\ UNCHANGED <<keys, myKey, synced, phase, blocked, tails, torn, stuck, forgotten, fullFailed,
                 bounds>>

\* A refused patch is stored as the next version, which is another device's patch.
PatchRefused(c) ==
  /\ Sending(c) /\ Refuses(c)
  /\ version' = Next1(c) /\ torn' = torn \cup {c}
  /\ Dequeue(<<>>)
  /\ UNCHANGED <<keys, myKey, synced, phase, blocked, tails, shown, stuck, forgotten, fullFailed,
                 bounds>>

\* What a transaction that fails means to the phases and the parked collections.
Fails ==
  /\ fullFailed' = (fullFailed \/ Head(queue).kind = "full")
  /\ Dequeue(<<>>)
  /\ UNCHANGED <<myKey, synced, phase, blocked, tails, shown, stuck, calls>>

Strand(cols) == forgotten' = forgotten \cup cols

\* A query fails, of itself, with the connection or for want of room (MaxLog): the
\* transaction is undone, the parked collections are not.
Rejected ==
  /\ Running /\ (todo # {} \/ patching)
  /\ \/ failures < MaxFailures /\ failures' = failures + 1
     \/ conn # "open" /\ UNCHANGED failures
     \/ patching /\ (\E c \in Head(queue).cols : staged[c] = MaxLog) /\ UNCHANGED failures
  /\ UNCHANGED <<log, version, keys, torn>>
  /\ Strand(Stuck(Head(queue).cols) \ blocked) /\ Fails

\* A commit that is given up may have reached the cache and part of the store, and
\* what it has kept is never emitted.
Keeps(next) ==
  \E cols \in SUBSET {c \in Cols : next[c] # version[c]} :
    /\ version' = [c \in Cols |-> IF c \in cols THEN next[c] ELSE version[c]]
    /\ torn' = torn \cup cols

CommitFails ==
  /\ queue # <<>> /\ asked = {} /\ todo = {} /\ failures < MaxFailures /\ failures' = failures + 1
  /\ \/ /\ Head(queue).kind = "keys" /\ keys' \in {keys, keys \cup {Head(queue).key}}
        /\ Strand({c \in Cols : stuck[c] \in keys' \ keys}) /\ UNCHANGED <<log, version, torn>>
     \/ /\ Head(queue).kind \in {"full", "resync"} /\ Keeps(staged) /\ UNCHANGED <<log, keys>>
        /\ Strand(Stuck(Head(queue).cols) \ blocked)
     \/ /\ \E c \in Cols : Sending(c) /\ (Takes(c) \/ Refuses(c)) /\ Keeps(Next1(c))
        /\ UNCHANGED keys /\ Strand(Stuck(Head(queue).cols) \ blocked)
  /\ Fails

-----------------------------------------------------------------------------
Timers == DeferredFlush \/ SyncTimeout

Resync == StoreKeys \/ Ask \/ (\E c \in Cols : Decode(c)) \/ Finish \/ Nested
  \/ \E c \in Cols : PatchAccepted(c) \/ PatchRefused(c)
Failing == Rejected \/ CommitFails

Inputs ==
  \/ \E p \in BOOLEAN : HistoryMessage(p)
  \/ \E c \in Busy : ServerSync(c) \/ AppPatch(c) \/ \E k \in Keys : Publish(c, k)
  \/ \E k \in Keys : ShareArrives(k)
  \/ WholeCreds

Next == Pending \/ Timers \/ Resync \/ Failing \/ LookAtPhase \/ Inputs \/ End \/ Close

Spec == Init /\ [][Next]_vars

\* Timers fire, handlers go on, and a query is answered or rejected.
FairSpec == Spec /\ WF_vars(DeferredFlush) /\ WF_vars(SyncTimeout) /\ WF_vars(LookAtPhase)
                 /\ WF_vars(Resync \/ Failing)

-----------------------------------------------------------------------------
\* The types, in the parts the proof takes one by one.  Jobs, and what a resync has to do: the answers
\* due are for collections to do, and those have an attempt left; without a job nothing is.
TypeQueue == queue \in Seq(Jobs) /\ patching \in BOOLEAN /\ tails \in Nat
TypeRound ==
  /\ todo \subseteq Cols /\ asked \subseteq todo /\ snapAsked \subseteq asked 
  /\ forced \subseteq todo \ asked
  /\ attempts \in [Cols -> 0..MaxAttempts] /\ \A c \in todo : attempts[c] < MaxAttempts
  /\ queue = <<>> => todo = {} /\ attempts = Per(0)
TypeVersions ==
  /\ log \in [Cols -> Seq(Keys)] /\ \A c \in Cols : Len(log[c]) <= MaxLog
  /\ version \in [Cols -> Versions] /\ staged \in [Cols -> Versions] /\ low \in [Cols -> Versions]
  /\ got \in [Cols -> SUBSET Versions] /\ shown \in [Cols -> SUBSET Versions]
TypeKeys == keys \subseteq Keys /\ myKey \in keys \cup {None}
TypePhase ==
  /\ synced \in BOOLEAN /\ conn \in {"open", "ended", "closed"}
  /\ syncState \in {"Connecting", "Awaiting", "Syncing", "Online"}
  /\ timer \in BOOLEAN /\ held \in BOOLEAN /\ deferred \in BOOLEAN
TypePast ==
  /\ blocked \subseteq Cols /\ stuck \in [Cols -> Keys \cup {None}] /\ forgotten \subseteq Cols
  /\ torn \subseteq Cols
  /\ fullFailed \in BOOLEAN /\ calls \in Nat /\ failures \in Nat
TypeOK == TypeQueue /\ TypeRound /\ TypeVersions /\ TypeKeys /\ TypePhase /\ TypePast

\* What a version stands for has been emitted: no mutation is passed over when a resync is undone,
\* repeated from a snapshot, or finds versions stored by an earlier one (chats.js:456-600).  It is not
\* said of the collections a commit that was given up may have kept, nor after a refused patch.
NoMutationLost == \A c \in Cols \ torn : 1..version[c] \subseteq shown[c]

\* Someone is going to fetch collection c.
Covered(c) == (\E i \in DOMAIN queue : c \in queue[i].cols) \/ (tails > 0 /\ syncState = "Syncing")

\* A collection whose last sync lacked a key is parked, and from the moment the key is there it is
\* about to be fetched (chats.js:1172-1188, 1112-1115): unless the whole credentials were announced
\* while Syncing, or the query or the commit of its retry or the commit of the key failed.
Wakes ==
  conn = "open" =>
    \A c \in Cols \ forgotten :
      stuck[c] # None => Covered(c) \/ (c \in blocked /\ stuck[c] \notin keys)

\* A phase that holds the buffer ends Online with the buffer released, unless the socket ends or the
\* sync it waits for was rejected (chats.js:1035-1065, 1115-1170).
LeavesPhases ==
  (held \/ syncState \in {"Awaiting", "Syncing"})
    ~> ((syncState = "Online" /\ ~held) \/ conn # "open" \/ fullFailed)
=============================================================================
