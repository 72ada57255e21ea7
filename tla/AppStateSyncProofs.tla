-------------------------- MODULE AppStateSyncProofs --------------------------
(***************************************************************************)
(* Proofs about AppStateSync, for every set of collections and keys, every  *)
(* number of attempts and every bound: its types, that no mutation is       *)
(* passed over, and that a parked collection is fetched again.              *)
(***************************************************************************)
EXTENDS AppStateSync, TLAPS

USE AppStateSyncAssumption DEF AppStateSyncAssumption

-----------------------------------------------------------------------------
(* Jobs come and go                                                        *)

LEMMA FreshAttempts ==
  Per(0) \in [Cols -> 0..MaxAttempts] /\ \A c \in Cols : Per(0)[c] < MaxAttempts
  BY DEF Per

\* A new job finds the locals of the head as they are, or fresh ones.
LEMMA EnqueueTypes ==
  ASSUME TypeQueue, TypeRound, NEW jobs \in Seq(Jobs), Enqueue(jobs), tails' \in Nat
  PROVE  TypeQueue' /\ TypeRound'
  <1>1. TypeQueue'
    BY DEF TypeQueue, Enqueue
  <1>2. CASE queue = <<>> /\ jobs # <<>>
    <2>1. jobs[1] \in Jobs
      BY <1>2
    <2>2. todo' \subseteq Cols /\ queue' # <<>>
      BY <1>2, <2>1 DEF Enqueue, Jobs, TypeQueue
    <2>3. todo = {} /\ attempts = Per(0)
      BY <1>2 DEF TypeRound
    <2>4. attempts' = Per(0)
      BY <2>3 DEF Enqueue
    <2>5. attempts' \in [Cols -> 0..MaxAttempts] /\ \A c \in todo' : attempts'[c] < MaxAttempts
      BY <2>2, <2>4, FreshAttempts
    <2>6. asked' = {} /\ snapAsked' = {} /\ forced' = {}
      BY <2>3 DEF TypeRound, Enqueue
    <2> QED BY <1>1, <2>2, <2>5, <2>6 DEF TypeRound
  <1>3. CASE ~(queue = <<>> /\ jobs # <<>>)
    <2>1. queue' = <<>> => queue = <<>>
      <3>1. queue \in Seq(Jobs) /\ Len(queue') = Len(queue) + Len(jobs)
        BY DEF Enqueue, TypeQueue
      <3>2. queue' = <<>> => Len(queue) = 0
        BY <3>1
      <3> QED BY <3>1, <3>2
    <2> QED BY <1>1, <1>3, <2>1 DEF TypeRound, Enqueue
  <1> QED BY <1>1, <1>2, <1>3

\* The end of a job leaves fresh locals to the next.
LEMMA DequeueTypes ==
  ASSUME TypeQueue, queue # <<>>, NEW jobs \in Seq(Jobs), Dequeue(jobs), tails' \in Nat
  PROVE  TypeQueue' /\ TypeRound'
  <1> DEFINE rest == Tail(queue) \o jobs
  <1>1. rest \in Seq(Jobs)
    BY DEF TypeQueue
  <1>2. TypeQueue'
    BY <1>1 DEF TypeQueue, Dequeue
  <1>3. todo' \subseteq Cols /\ (queue' = <<>> => todo' = {})
    <2>1. CASE rest = <<>>
      BY <2>1 DEF Dequeue
    <2>2. CASE rest # <<>>
      <3>1. rest[1] \in Jobs
        BY <1>1, <2>2
      <3> QED BY <3>1, <2>2 DEF Dequeue, Jobs
    <2> QED BY <2>1, <2>2
  <1>4. attempts' = Per(0) /\ asked' = {} /\ snapAsked' = {} /\ forced' = {}
    BY DEF Dequeue
  <1> QED BY <1>2, <1>3, <1>4, FreshAttempts DEF TypeRound

LEMMA JobTyped ==
  ASSUME NEW kind \in Kinds, NEW cols \in SUBSET Cols, NEW key \in Keys \cup {None},
         kind \in {"patch", "keys"} => key \in Keys
  PROVE  <<Job(kind, cols, key)>> \in Seq(Jobs)
  BY DEF Job, Jobs

LEMMA RetryTyped == TypePast => Retry \in Seq(Jobs)
  <1> SUFFICES ASSUME TypePast PROVE Retry \in Seq(Jobs)
    OBVIOUS
  <1>1. <<Job("resync", blocked, None)>> \in Seq(Jobs)
    BY JobTyped DEF TypePast, Kinds
  <1> QED BY <1>1 DEF Retry

\* What every action but those of a running resync leaves alone.
Data == <<log, version, low, staged, got, shown, torn>>

-----------------------------------------------------------------------------
(* Types                                                                   *)

LEMMA InitTypes == Init => TypeOK
  <1> SUFFICES ASSUME Init PROVE TypeOK
    OBVIOUS
  <1>1. TypeQueue
    <2>1. queue = <<>> /\ tails = 0
      BY DEF Init
    <2>2. patching \in BOOLEAN
      BY Zenon DEF Init
    <2> QED BY <2>1, <2>2 DEF TypeQueue
  <1>2. TypeRound
    <2>1. todo = {} /\ asked = {} /\ snapAsked = {} /\ forced = {} /\ attempts = Per(0)
      BY DEF Init
    <2> QED BY <2>1, FreshAttempts DEF TypeRound
  <1>3. TypeVersions
    <2>1. log \in [Cols -> Seq(Keys)] /\ \A c \in Cols : Len(log[c]) <= MaxLog
      <3>1. log \in [Cols -> {<<k>> : k \in Keys}]
        BY DEF Init
      <3>2. \A c \in Cols : log[c] \in Seq(Keys) /\ Len(log[c]) = 1
        <4> SUFFICES ASSUME NEW c \in Cols PROVE log[c] \in Seq(Keys) /\ Len(log[c]) = 1
          OBVIOUS
        <4>1. log[c] \in {<<k>> : k \in Keys}
          BY <3>1
        <4>2. PICK k \in Keys : log[c] = <<k>>
          BY <4>1
        <4> QED BY <4>2
      <3>3. log = [c \in Cols |-> log[c]]
        BY <3>1
      <3>4. log \in [Cols -> Seq(Keys)]
        BY <3>2, <3>3
      <3>5. 1 <= MaxLog
        OBVIOUS
      <3>6. \A c \in Cols : Len(log[c]) <= MaxLog
        BY <3>2, <3>5
      <3> QED BY <3>4, <3>6
    <2> QED BY <2>1 DEF Init, TypeVersions, Per, Versions
  <1>4. TypeKeys
    BY DEF Init, TypeKeys
  <1>5. TypePhase
    BY DEF Init, TypePhase
  <1>6. TypePast
    BY DEF Init, TypePast, Per
  <1> QED BY <1>1, <1>2, <1>3, <1>4, <1>5, <1>6 DEF TypeOK

\* A step that leaves these variables alone keeps the types that speak of nothing else.
LEMMA SameRound ==
  ASSUME TypeQueue, TypeRound, UNCHANGED <<queue, local, tails>>
  PROVE  TypeQueue' /\ TypeRound'
  BY DEF TypeQueue, TypeRound, local, Per

LEMMA SameVersions ==
  ASSUME TypeVersions, UNCHANGED Data
  PROVE  TypeVersions'
  BY DEF TypeVersions, Data

\* The steps of the phases that start no sync.
LEMMA PhaseTypes ==
  ASSUME TypeOK, Pending \/ Timers \/ End \/ Close
  PROVE  TypeOK'
  <1> USE DEF TypeOK
  <1>1. UNCHANGED <<queue, local, tails>>
    BY DEF Pending, Timers, DeferredFlush, SyncTimeout, End, Close
  <1>2. UNCHANGED <<Data, keys, myKey>>
    BY DEF Pending, Timers, DeferredFlush, SyncTimeout, End, Close, past, local, store, Data
  <1>3. TypeQueue' /\ TypeRound'
    BY <1>1, SameRound
  <1>4. TypeVersions' /\ TypeKeys'
    BY <1>2, SameVersions DEF TypeKeys
  <1>5. TypePhase'
    BY DEF TypePhase, Pending, Timers, DeferredFlush, SyncTimeout, End, Close, Go, Flush, Online, phase,
           store
  <1>6. TypePast'
    BY DEF TypePast, Pending, Timers, DeferredFlush, SyncTimeout, End, Close, past, bounds
  <1> QED BY <1>3, <1>4, <1>5, <1>6

LEMMA FullTypes ==
  ASSUME TypeQueue, TypeRound, TypePast, StartFull, tails' \in Nat
  PROVE  /\ TypeQueue' /\ TypeRound'
         /\ blocked' \subseteq Cols /\ fullFailed' \in BOOLEAN
         /\ UNCHANGED <<low, staged, got>>
  <1>1. <<Job("full", Cols, None)>> \in Seq(Jobs)
    BY JobTyped DEF Kinds
  <1>2. TypeQueue' /\ TypeRound'
    BY <1>1, EnqueueTypes DEF StartFull
  <1> QED BY <1>2 DEF StartFull, Enqueue

LEMMA HistoryTypes ==
  ASSUME TypeOK, NEW p \in BOOLEAN, HistoryMessage(p)
  PROVE  TypeOK' /\ UNCHANGED Data
  <1> USE DEF TypeOK
  <1>1. tails' = tails /\ tails' \in Nat
    BY DEF HistoryMessage, TypeQueue
  <1>2. /\ TypeQueue' /\ TypeRound'
        /\ blocked' \subseteq Cols /\ fullFailed' \in BOOLEAN
        /\ UNCHANGED <<low, staged, got>>
    <2>1. CASE StartFull
      BY <1>1, <2>1, FullTypes
    <2>2. CASE UNCHANGED <<blocked, fullFailed, queue, local, bounds>>
      <3>1. TypeQueue' /\ TypeRound'
        BY <1>1, <2>2, SameRound
      <3> QED BY <2>2, <3>1 DEF TypePast, local
    <2> QED BY <2>1, <2>2 DEF HistoryMessage
  <1>3. UNCHANGED Data
    BY <1>2 DEF HistoryMessage, Data, store
  <1>4. TypeVersions' /\ TypeKeys'
    BY <1>3, SameVersions DEF HistoryMessage, store, TypeKeys
  <1>5. TypePhase'
    <2>1. timer' \in BOOLEAN /\ held' \in BOOLEAN
      BY DEF HistoryMessage
    <2>2. syncState' \in {"Connecting", "Awaiting", "Syncing", "Online"}
      BY DEF HistoryMessage, AfterHistory, Go, TypePhase
    <2> QED BY <2>1, <2>2 DEF TypePhase, HistoryMessage, store
  <1>6. calls' \in Nat /\ failures' \in Nat
    BY DEF HistoryMessage, Arrives, bounds, TypePast
  <1>7. TypePast'
    BY <1>2, <1>6 DEF TypePast, HistoryMessage
  <1> QED BY <1>2, <1>3, <1>4, <1>5, <1>7

\* A job that queues and changes nothing else but bounds, and the set it was made from.
LEMMA QueueTypes ==
  ASSUME TypeOK, NEW jobs \in Seq(Jobs), Enqueue(jobs), UNCHANGED <<store, phase, tails, log,
         shown, torn>>
  PROVE  TypeQueue' /\ TypeRound' /\ TypeVersions' /\ TypeKeys' /\ TypePhase' /\ UNCHANGED Data
  <1> USE DEF TypeOK
  <1>1. TypeQueue' /\ TypeRound'
    BY EnqueueTypes DEF TypeQueue
  <1>2. UNCHANGED Data
    BY DEF Data, Enqueue, store
  <1>3. TypeVersions'
    BY <1>2, SameVersions
  <1>4. TypeKeys' /\ TypePhase'
    BY DEF TypeKeys, TypePhase, store, phase
  <1> QED BY <1>1, <1>2, <1>3, <1>4

LEMMA CallTypes ==
  ASSUME TypeOK, NEW job, <<job>> \in Seq(Jobs), Call(job)
  PROVE  TypeOK' /\ UNCHANGED Data
  <1>1. TypeQueue' /\ TypeRound' /\ TypeVersions' /\ TypeKeys' /\ TypePhase' /\ UNCHANGED Data
    BY QueueTypes DEF Call, past
  <1>2. TypePast'
    BY DEF TypePast, TypeOK, Call, past, Arrives
  <1> QED BY <1>1, <1>2 DEF TypeOK

LEMMA InputTypes ==
  ASSUME TypeOK, Inputs
  PROVE  TypeOK' /\ UNCHANGED <<version, low, staged, got, shown, torn>>
  <1>1. ASSUME NEW p \in BOOLEAN, HistoryMessage(p)
        PROVE  TypeOK' /\ UNCHANGED Data
    BY <1>1, HistoryTypes
  <1>2. ASSUME NEW c \in Busy, ServerSync(c)
        PROVE  TypeOK' /\ UNCHANGED Data
    <2>1. <<Job("resync", {c}, None)>> \in Seq(Jobs)
      BY JobTyped DEF Kinds
    <2> QED BY <1>2, <2>1, CallTypes DEF ServerSync
  <1>3. ASSUME NEW c \in Busy, AppPatch(c)
        PROVE  TypeOK' /\ UNCHANGED Data
    <2>1. myKey \in Keys
      BY <1>3 DEF AppPatch, TypeOK, TypeKeys
    <2>2. <<Job("patch", {c}, myKey)>> \in Seq(Jobs)
      BY <2>1, JobTyped DEF Kinds
    <2> QED BY <1>3, <2>2, CallTypes DEF AppPatch
  <1>4. ASSUME NEW c \in Busy, NEW k \in Keys, Publish(c, k)
        PROVE  TypeOK' /\ UNCHANGED <<version, low, staged, got, shown, torn>>
    <2> USE <1>4 DEF TypeOK
    <2>1. TypeQueue' /\ TypeRound'
      BY SameRound DEF Publish
    <2>2. UNCHANGED <<version, low, staged, got, shown, torn>>
      BY DEF Publish, store, local, past
    <2>3. log' \in [Cols -> Seq(Keys)] /\ \A x \in Cols : Len(log'[x]) <= MaxLog
      <3>1. log \in [Cols -> Seq(Keys)] /\ c \in Cols /\ Len(log[c]) < MaxLog
        BY DEF Publish, TypeVersions
      <3>2. Append(log[c], k) \in Seq(Keys) /\ Len(Append(log[c], k)) = Len(log[c]) + 1
        BY <3>1
      <3>3. Len(Append(log[c], k)) <= MaxLog
        BY <3>1, <3>2
      <3> QED BY <3>1, <3>2, <3>3 DEF Publish, TypeVersions
    <2>4. TypeVersions'
      BY <2>2, <2>3 DEF TypeVersions
    <2>5. TypeKeys' /\ TypePhase'
      BY DEF Publish, TypeKeys, TypePhase, store, phase
    <2>6. TypePast'
      BY DEF Publish, TypePast, past, Arrives
    <2> QED BY <2>1, <2>2, <2>4, <2>5, <2>6
  <1>5. ASSUME NEW k \in Keys, ShareArrives(k)
        PROVE  TypeOK' /\ UNCHANGED Data
    <2>1. <<Job("keys", {}, k)>> \in Seq(Jobs)
      BY JobTyped DEF Kinds
    <2>2. TypeQueue' /\ TypeRound' /\ TypeVersions' /\ TypeKeys' /\ TypePhase' /\ UNCHANGED Data
      BY <1>5, <2>1, QueueTypes DEF ShareArrives, past
    <2>3. TypePast'
      BY <1>5 DEF TypePast, TypeOK, ShareArrives, past, bounds
    <2> QED BY <2>2, <2>3 DEF TypeOK
  <1>6. ASSUME WholeCreds
        PROVE  TypeOK' /\ UNCHANGED Data
    <2>1. Retry \in Seq(Jobs)
      BY RetryTyped DEF TypeOK
    <2>2. TypeQueue' /\ TypeRound' /\ TypeVersions' /\ TypeKeys' /\ TypePhase' /\ UNCHANGED Data
      BY <1>6, <2>1, QueueTypes DEF WholeCreds
    <2>3. TypePast'
      BY <1>6 DEF TypePast, TypeOK, WholeCreds, Arrives
    <2> QED BY <2>2, <2>3 DEF TypeOK
  <1> QED BY <1>1, <1>2, <1>3, <1>4, <1>5, <1>6 DEF Inputs, Data

LEMMA LookTypes ==
  ASSUME TypeOK, LookAtPhase
  PROVE  TypeOK' /\ UNCHANGED Data
  <1> USE DEF TypeOK
  <1>1. tails' \in Nat
    BY DEF LookAtPhase, TypeQueue
  <1>2. /\ TypeQueue' /\ TypeRound'
        /\ blocked' \subseteq Cols /\ fullFailed' \in BOOLEAN
        /\ UNCHANGED <<low, staged, got>>
    <2>1. CASE StartFull
      BY <1>1, <2>1, FullTypes
    <2>2. CASE UNCHANGED <<blocked, fullFailed, queue, local>>
      BY <1>1, <2>2 DEF TypeQueue, TypeRound, TypePast, local, Per
    <2> QED BY <2>1, <2>2 DEF LookAtPhase
  <1>3. UNCHANGED Data
    BY <1>2 DEF LookAtPhase, Data, store
  <1>4. TypeVersions' /\ TypeKeys' /\ TypePhase'
    BY <1>3, SameVersions DEF LookAtPhase, store, phase, TypeKeys, TypePhase
  <1>5. TypePast'
    BY <1>2 DEF TypePast, LookAtPhase, bounds
  <1> QED BY <1>2, <1>3, <1>4, <1>5

\* Every end of a job: versions are in the store, locals are fresh.
LEMMA FreshVersions ==
  ASSUME TypeVersions, NEW jobs, Dequeue(jobs),
         log' \in [Cols -> Seq(Keys)], \A c \in Cols : Len(log'[c]) <= MaxLog,
         version' \in [Cols -> Versions], shown' \in [Cols -> SUBSET Versions]
  PROVE  TypeVersions'
  <1>1. low' = Per(0) /\ staged' = version' /\ got' = Per({})
    BY DEF Dequeue
  <1>2. Per(0) \in [Cols -> Versions]
    BY DEF Per, Versions
  <1>3. Per({}) \in [Cols -> SUBSET Versions]
    BY DEF Per
  <1> QED BY <1>1, <1>2, <1>3 DEF TypeVersions

LEMMA StoreKeysTypes ==
  ASSUME TypeOK, StoreKeys
  PROVE  TypeOK'
  <1> USE DEF TypeOK
  <1>1. Retry \in Seq(Jobs)
    BY RetryTyped
  <1>2. tails' \in Nat
    BY DEF StoreKeys, TypeQueue
  <1>3. TypeQueue' /\ TypeRound'
    BY <1>1, <1>2, DequeueTypes DEF StoreKeys
  <1>4. TypeVersions'
    BY FreshVersions DEF StoreKeys, TypeVersions, past
  <1>5. Head(queue) \in Jobs
    BY DEF StoreKeys, TypeQueue
  <1>6. Head(queue).key \in Keys
    BY <1>5 DEF StoreKeys, Jobs
  <1>7. TypeKeys'
    BY <1>6 DEF StoreKeys, TypeKeys
  <1>8. TypePhase'
    BY DEF StoreKeys, TypePhase, phase
  <1>9. TypePast'
    BY DEF StoreKeys, TypePast, past, bounds
  <1> QED BY <1>3, <1>4, <1>7, <1>8, <1>9

LEMMA AskTypes ==
  ASSUME TypeOK, Ask
  PROVE  TypeOK'
  <1> USE DEF TypeOK
  <1>1. TypeQueue'
    BY DEF Ask, TypeQueue
  <1>2. TypeRound'
    BY DEF Ask, Running, TypeRound, Per
  <1>3. low' \in [Cols -> Versions]
    BY DEF Ask, TypeVersions
  <1>4. TypeVersions'
    BY <1>3 DEF Ask, TypeVersions, store, past
  <1>5. TypeKeys' /\ TypePhase'
    BY DEF Ask, TypeKeys, TypePhase, store, phase
  <1>6. TypePast'
    BY DEF Ask, TypePast, past, bounds
  <1> QED BY <1>1, <1>2, <1>4, <1>5, <1>6

\* The queue while a collection is decoded: its job is still the head.
LEMMA HasJob ==
  ASSUME TypeRound, NEW c \in asked
  PROVE  queue # <<>> /\ c \in todo /\ c \in Cols /\ attempts[c] \in 0..MaxAttempts
           /\ attempts[c] < MaxAttempts
  BY DEF TypeRound

LEMMA RoundAfterFailure ==
  ASSUME TypeOK, NEW c \in asked, queue' = queue,
         asked' = asked \ {c}, snapAsked' = snapAsked \ {c},
         attempts' = [attempts EXCEPT ![c] = @ + 1],
         \/ todo' = todo \ {c} /\ forced' = forced
         \/ todo' = todo /\ forced' = forced \cup {c} /\ attempts[c] + 1 < MaxAttempts
  PROVE  TypeRound'
  <1> USE DEF TypeOK
  <1>1. queue # <<>> /\ c \in todo /\ c \in Cols /\ attempts[c] \in 0..MaxAttempts
          /\ attempts[c] < MaxAttempts
    BY HasJob
  <1>2. attempts[c] + 1 \in 0..MaxAttempts
    BY <1>1
  <1>3. attempts' \in [Cols -> 0..MaxAttempts]
    BY <1>1, <1>2 DEF TypeRound
  <1>4. \A x \in todo' : attempts'[x] < MaxAttempts
    <2> SUFFICES ASSUME NEW x \in todo' PROVE attempts'[x] < MaxAttempts
      OBVIOUS
    <2>1. x \in todo /\ x \in Cols
      BY <1>1 DEF TypeRound
    <2>2. CASE x = c
      BY <1>1, <2>1, <2>2 DEF TypeRound
    <2>3. CASE x # c
      BY <1>1, <2>1, <2>3 DEF TypeRound
    <2> QED BY <2>2, <2>3
  <1>5. todo' \subseteq Cols /\ asked' \subseteq todo' /\ snapAsked' \subseteq asked'
          /\ forced' \subseteq todo' \ asked'
    BY <1>1 DEF TypeRound
  <1> QED BY <1>1, <1>3, <1>4, <1>5 DEF TypeRound

\* A key is missing or the content cannot be used: the rest of the types.
LEMMA FailureTypes ==
  ASSUME TypeOK, NEW c \in asked, queue' = queue,
         asked' = asked \ {c}, snapAsked' = snapAsked \ {c},
         attempts' = [attempts EXCEPT ![c] = @ + 1],
         UNCHANGED <<torn, fullFailed, calls>>,
         \/ \E key \in Keys : KeyMissing(c, key) /\ UNCHANGED failures
         \/ \E fatal \in BOOLEAN : Unusable(c, fatal)
  PROVE  TypeRound' /\ TypePast'
  <1> USE DEF TypeOK
  <1>1. c \in Cols /\ attempts[c] \in 0..MaxAttempts
    BY HasJob
  <1>2. ASSUME NEW key \in Keys, KeyMissing(c, key), UNCHANGED failures
        PROVE  TypeRound' /\ TypePast'
    <2> DEFINE over == todo' = todo \ {c} /\ forced' = forced
               again == todo' = todo /\ forced' = forced \cup {c} /\ attempts[c] + 1 < MaxAttempts
    <2>0. over \/ again
      BY <1>1, <1>2 DEF KeyMissing
    <2>1. TypeRound'
      BY <2>0, RoundAfterFailure
    <2>2. blocked' \subseteq Cols /\ stuck' \in [Cols -> Keys \cup {None}]
            /\ forgotten' \subseteq Cols
      BY <1>1, <1>2 DEF KeyMissing, TypePast
    <2> QED BY <1>2, <2>1, <2>2 DEF TypePast
  <1>3. ASSUME NEW fatal \in BOOLEAN, Unusable(c, fatal)
        PROVE  TypeRound' /\ TypePast'
    <2> DEFINE over == todo' = todo \ {c} /\ forced' = forced
               again == todo' = todo /\ forced' = forced \cup {c} /\ attempts[c] + 1 < MaxAttempts
    <2>0. over \/ again
      BY <1>1, <1>3 DEF Unusable
    <2>1. TypeRound'
      BY <2>0, RoundAfterFailure
    <2>2. stuck' \in [Cols -> Keys \cup {None}] /\ failures' \in Nat
            /\ UNCHANGED <<blocked, forgotten>>
      BY <1>1, <1>3 DEF Unusable, TypePast
    <2> QED BY <2>1, <2>2 DEF TypePast
  <1> QED BY <1>2, <1>3

-----------------------------------------------------------------------------
(* What a resync has in hand.  NoMutationLost is not inductive alone: a     *)
(* transaction commits versions it staged, and decides by `low` what to     *)
(* pass over, so what those stand for must be shown or in hand too.         *)

KeptStaged == \A c \in Cols \ torn : 1..staged[c] \subseteq shown[c] \cup got[c]
KeptLow == \A c \in Cols \ torn : 1..low[c] \subseteq shown[c] \cup got[c]
NoLoss == NoMutationLost /\ KeptStaged /\ KeptLow

\* While a patch of our own is out its resync is over, with nothing in hand.
Sent == patching => queue # <<>> /\ todo = {} /\ got = Per({})

Snapshots(c) == 0..Len(log[c])

LEMMA BaseTyped ==
  ASSUME TypeVersions, NEW c \in Cols, NEW snap \in Snapshots(c)
  PROVE  /\ Base(c, snap) \in Versions /\ low[c] \in Versions /\ staged[c] \in Versions
         /\ snap \in Versions /\ Len(log[c]) \in Versions
         /\ FromSnapshot(c, snap) \subseteq Versions
  <1>1. Len(log[c]) \in Nat /\ Len(log[c]) <= MaxLog
    BY DEF TypeVersions
  <1>2. low[c] \in Versions /\ staged[c] \in Versions
    BY DEF TypeVersions
  <1>3. snap \in Versions /\ Len(log[c]) \in Versions
    BY <1>1 DEF Snapshots, Versions
  <1>4. 1..snap \subseteq Versions
    BY <1>3 DEF Versions
  <1> QED BY <1>2, <1>3, <1>4 DEF Base, FromSnapshot

\* An answer applied on top of what is kept leaves nothing out.
LEMMA ContentKept ==
  ASSUME TypeVersions, KeptStaged, KeptLow,
         NEW c \in Cols, NEW snap \in Snapshots(c), NEW last \in Base(c, snap)..Len(log[c])
  PROVE  /\ last \in Versions /\ FromPatches(c, Base(c, snap), last) \subseteq Versions
         /\ c \notin torn =>
              /\ 1..Base(c, snap) \subseteq shown[c] \cup got[c] \cup FromSnapshot(c, snap)
              /\ 1..last \subseteq shown[c] \cup got[c] \cup FromSnapshot(c, snap)
                                   \cup FromPatches(c, Base(c, snap), last)
  <1> DEFINE base == Base(c, snap)
             had == shown[c] \cup got[c]
  <1>1. /\ base \in Nat /\ low[c] \in Nat /\ staged[c] \in Nat /\ snap \in Nat
        /\ Len(log[c]) \in Nat /\ Len(log[c]) <= MaxLog
    BY BaseTyped DEF Versions, TypeVersions
  <1>2. last \in Versions
    BY <1>1 DEF Versions
  <1>3. FromPatches(c, base, last) \subseteq Versions
    BY <1>1, <1>2 DEF FromPatches, Versions
  <1>4. ASSUME c \notin torn
        PROVE  /\ 1..base \subseteq had \cup FromSnapshot(c, snap)
               /\ 1..last \subseteq had \cup FromSnapshot(c, snap) \cup FromPatches(c, base, last)
    <2>4. 1..staged[c] \subseteq had /\ 1..low[c] \subseteq had
      BY <1>4 DEF KeptStaged, KeptLow
    <2>5. 1..base \subseteq had \cup FromSnapshot(c, snap)
      <3>1. CASE snap = 0
        BY <1>1, <2>4, <3>1 DEF Base
      <3>2. CASE snap > 0 /\ snap > low[c]
        BY <3>2 DEF Base, FromSnapshot
      <3>3. CASE snap > 0 /\ snap <= low[c]
        <4>1. base = snap
          BY <3>3 DEF Base
        <4>2. 1..base \subseteq 1..low[c]
          BY <1>1, <3>3, <4>1
        <4> QED BY <2>4, <4>2
      <3> QED BY <1>1, <3>1, <3>2, <3>3
    <2>6. 1..last \subseteq had \cup FromSnapshot(c, snap) \cup FromPatches(c, base, last)
      <3> SUFFICES ASSUME NEW v \in 1..last
                   PROVE  v \in had \cup FromSnapshot(c, snap) \cup FromPatches(c, base, last)
        OBVIOUS
      <3>0. last \in Nat /\ v \in Nat /\ v >= 1 /\ v <= last
        BY <1>1
      <3>1. CASE v <= base
        <4>1. v \in 1..base
          BY <1>1, <3>0, <3>1
        <4> QED BY <2>5, <4>1
      <3>2. CASE v > base /\ v > low[c]
        <4>1. v \in base + 1..last
          BY <1>1, <3>0, <3>2
        <4> QED BY <3>2, <4>1 DEF FromPatches
      <3>3. CASE v <= low[c]
        <4>1. v \in 1..low[c]
          BY <1>1, <3>0, <3>3
        <4> QED BY <2>4, <4>1
      <3> QED BY <1>1, <3>0, <3>1, <3>2, <3>3
    <2> QED BY <2>5, <2>6
  <1> QED BY <1>2, <1>3, <1>4

\* Staging a version whose mutations are in hand.
LEMMA StageKeeps ==
  ASSUME TypeVersions, NoLoss, NEW c \in Cols, NEW v \in Versions, NEW news \in SUBSET Versions,
         c \notin torn => 1..v \subseteq shown[c] \cup got[c] \cup news,
         Stage(c, v, news), UNCHANGED <<log, shown, torn>>,
         low' = low \/ low' = [low EXCEPT ![c] = v] \/ low' = [low EXCEPT ![c] = low[c]]
  PROVE  TypeVersions' /\ NoLoss'
  <1>1. staged' = [staged EXCEPT ![c] = v] /\ version' = version
        /\ got' = [got EXCEPT ![c] = got[c] \cup news]
    BY DEF Stage
  <1>2. low' \in [Cols -> Versions] /\ staged' \in [Cols -> Versions]
    BY <1>1 DEF TypeVersions
  <1>3. got' \in [Cols -> SUBSET Versions]
    BY <1>1 DEF TypeVersions
  <1>4. TypeVersions'
    BY <1>1, <1>2, <1>3 DEF TypeVersions
  <1>5. \A x \in Cols : got[x] \subseteq got'[x]
    BY <1>1 DEF TypeVersions
  <1>6. c \notin torn => 1..v \subseteq shown'[c] \cup got'[c]
    BY <1>1 DEF TypeVersions
  <1>7. \A x \in Cols : staged'[x] = staged[x] \/ (x = c /\ staged'[x] = v)
    BY <1>1 DEF TypeVersions
  <1>8. \A x \in Cols : low'[x] = low[x] \/ (x = c /\ low'[x] = v)
    BY DEF TypeVersions
  <1>9. KeptStaged'
    BY <1>5, <1>6, <1>7 DEF KeptStaged, NoLoss
  <1>10. KeptLow'
    BY <1>5, <1>6, <1>8 DEF KeptLow, NoLoss
  <1>11. NoMutationLost'
    BY <1>1 DEF NoMutationLost, NoLoss
  <1> QED BY <1>4, <1>9, <1>10, <1>11 DEF NoLoss

\* After the end of a job nothing is in hand but what the store has.
LEMMA FreshKept ==
  ASSUME NEW jobs, Dequeue(jobs), \A c \in Cols \ torn' : 1..version'[c] \subseteq shown'[c]
  PROVE  NoLoss'
  <1>1. staged' = version' /\ low' = Per(0) /\ got' = Per({})
    BY DEF Dequeue
  <1>2. \A c \in Cols : low'[c] = 0 /\ got'[c] = {}
    BY <1>1 DEF Per
  <1>3. \A c \in Cols : 1..low'[c] = {}
    BY <1>2
  <1> QED BY <1>1, <1>2, <1>3 DEF NoLoss, NoMutationLost, KeptStaged, KeptLow

LEMMA DecodeKeeps ==
  ASSUME TypeOK, NoLoss, NEW c \in Cols, Decode(c)
  PROVE  TypeOK' /\ NoLoss'
  <1> USE DEF TypeOK
  <1>1. /\ c \in asked /\ asked' = asked \ {c} /\ snapAsked' = snapAsked \ {c}
        /\ UNCHANGED <<log, keys, myKey, synced, phase, queue, patching, tails, shown, torn,
                       fullFailed, calls>>
    BY DEF Decode
  <1>2. queue # <<>> /\ c \in todo /\ attempts[c] \in 0..MaxAttempts
    BY <1>1, HasJob
  <1>3. TypeQueue' /\ TypeKeys' /\ TypePhase'
    BY <1>1 DEF TypeQueue, TypeKeys, TypePhase, phase
  <1>4. ASSUME NEW snap \in Snapshots(c), Content(c, snap)
        PROVE  TypeVersions' /\ NoLoss' /\ TypeRound' /\ TypePast'
    <2>1. PICK last \in Base(c, snap)..Len(log[c]) :
            PatchesFail(c, snap, last) \/ \E more \in BOOLEAN : Applied(c, snap, last, more)
      BY <1>4 DEF Content
    <2>2. /\ last \in Versions /\ FromPatches(c, Base(c, snap), last) \subseteq Versions
          /\ c \notin torn =>
               /\ 1..Base(c, snap) \subseteq shown[c] \cup got[c] \cup FromSnapshot(c, snap)
               /\ 1..last \subseteq shown[c] \cup got[c] \cup FromSnapshot(c, snap)
                                    \cup FromPatches(c, Base(c, snap), last)
      BY ContentKept DEF NoLoss
    <2>3. Base(c, snap) \in Versions /\ FromSnapshot(c, snap) \subseteq Versions
      BY BaseTyped
    <2>4. ASSUME PatchesFail(c, snap, last)
          PROVE  TypeVersions' /\ NoLoss' /\ TypeRound' /\ TypePast'
      <3>1. Stage(c, Base(c, snap), FromSnapshot(c, snap)) /\ low' = low
        BY <2>4 DEF PatchesFail
      <3>2. TypeVersions' /\ NoLoss'
        BY <1>1, <2>2, <2>3, <3>1, StageKeeps
      <3>3. attempts' = [attempts EXCEPT ![c] = @ + 1]
        BY <2>4 DEF PatchesFail
      <3>4. \/ \E key \in Keys : KeyMissing(c, key) /\ UNCHANGED failures
            \/ \E fatal \in BOOLEAN : Unusable(c, fatal)
        <4>1. ASSUME NEW v \in Base(c, snap) + 1..last, KeyMissing(c, log[c][v]), UNCHANGED failures
              PROVE  \E key \in Keys : KeyMissing(c, key) /\ UNCHANGED failures
          <5>1. /\ log[c] \in Seq(Keys) /\ Base(c, snap) \in Nat /\ last \in Nat
                /\ last <= Len(log[c]) /\ Len(log[c]) \in Nat
            BY <2>2, <2>3 DEF TypeVersions, Versions
          <5>2. v \in 1..Len(log[c])
            BY <5>1
          <5>3. log[c][v] \in Keys
            BY <5>1, <5>2
          <5> QED BY <4>1, <5>3
        <4> QED BY <2>4, <4>1 DEF PatchesFail
      <3>5. TypeRound' /\ TypePast'
        BY <1>1, <3>3, <3>4, FailureTypes
      <3> QED BY <3>2, <3>5
    <2>5. ASSUME NEW more \in BOOLEAN, Applied(c, snap, last, more)
          PROVE  TypeVersions' /\ NoLoss' /\ TypeRound' /\ TypePast'
      <3> DEFINE news == FromSnapshot(c, snap) \cup FromPatches(c, Base(c, snap), last)
      <3>1. Stage(c, last, news)
        BY <2>5 DEF Applied
      <3>2. news \in SUBSET Versions 
            /\ (c \notin torn => 1..last \subseteq shown[c] \cup got[c] \cup news)
        BY <2>2, <2>3
      <3>3. low' = [low EXCEPT ![c] = last] \/ low' = [low EXCEPT ![c] = low[c]]
        BY <2>5 DEF Applied
      <3>4. TypeVersions' /\ NoLoss'
        <4> HIDE DEF news
        <4> QED BY <1>1, <2>2, <3>1, <3>2, <3>3, StageKeeps
      <3>5. UNCHANGED <<blocked, forced, forgotten, attempts, failures>>
        BY <2>5 DEF Applied
      <3>6. \/ UNCHANGED <<todo, stuck>>
            \/ todo' = todo \ {c} /\ stuck' = [stuck EXCEPT ![c] = None]
        BY <2>5 DEF Applied
      <3>7. TypeRound'
        BY <1>1, <1>2, <3>5, <3>6 DEF TypeRound
      <3>8. TypePast'
        BY <1>1, <3>5, <3>6 DEF TypePast
      <3> QED BY <3>4, <3>7, <3>8
    <2> QED BY <2>1, <2>4, <2>5
  <1>5. ASSUME NEW key \in Keys, SnapshotFails(c, key)
        PROVE  TypeVersions' /\ NoLoss' /\ TypeRound' /\ TypePast'
    <2>1. UNCHANGED <<version, staged, got, low>> /\ attempts' = [attempts EXCEPT ![c] = @ + 1]
      BY <1>5 DEF SnapshotFails
    <2>2. TypeVersions' /\ NoLoss'
      BY <1>1, <2>1 DEF TypeVersions, NoLoss, NoMutationLost, KeptStaged, KeptLow
    <2>3. \/ \E k \in Keys : KeyMissing(c, k) /\ UNCHANGED failures
          \/ \E fatal \in BOOLEAN : Unusable(c, fatal)
      BY <1>5 DEF SnapshotFails
    <2>4. TypeRound' /\ TypePast'
      BY <1>1, <2>1, <2>3, FailureTypes
    <2> QED BY <2>2, <2>4
  <1>6. Len(log[c]) \in Nat
    BY DEF TypeVersions
  <1>7. TypeVersions' /\ NoLoss' /\ TypeRound' /\ TypePast'
    <2>1. CASE Content(c, 0)
      BY <1>4, <1>6, <2>1 DEF Snapshots
    <2>2. ASSUME NEW snap \in 1..Len(log[c]), NEW key \in Keys,
                 SnapshotFails(c, key) \/ Content(c, snap)
          PROVE  TypeVersions' /\ NoLoss' /\ TypeRound' /\ TypePast'
      <3>1. snap \in Snapshots(c)
        BY <1>6 DEF Snapshots
      <3> QED BY <1>4, <1>5, <2>2, <3>1
    <2> QED BY <2>1, <2>2 DEF Decode
  <1> QED BY <1>3, <1>7

LEMMA FinishKeeps ==
  ASSUME TypeOK, NoLoss, Finish
  PROVE  TypeOK' /\ NoLoss'
  <1> USE DEF TypeOK
  <1>1. TypeQueue' /\ TypeRound'
    <2>1. queue # <<>> /\ Dequeue(<<>>) /\ tails' = tails
      BY DEF Finish, Running
    <2>2. <<>> \in Seq(Jobs) /\ tails' \in Nat
      BY <2>1 DEF TypeQueue
    <2> QED BY <2>1, <2>2, DequeueTypes
  <1>2. version' = staged /\ shown' = [c \in Cols |-> shown[c] \cup got[c]]
          /\ UNCHANGED <<log, torn>>
    BY DEF Finish, Emit
  <1>3. shown' \in [Cols -> SUBSET Versions] /\ version' \in [Cols -> Versions]
    BY <1>2 DEF TypeVersions
  <1>4. TypeVersions'
    BY <1>2, <1>3, FreshVersions DEF Finish, TypeVersions
  <1>5. \A c \in Cols \ torn' : 1..version'[c] \subseteq shown'[c]
    BY <1>2 DEF NoLoss, KeptStaged
  <1>6. NoLoss'
    BY <1>5, FreshKept DEF Finish
  <1>7. TypeKeys'
    BY DEF Finish, TypeKeys
  <1>8. TypePhase'
    <2>1. UNCHANGED <<conn, timer, deferred>>
      BY DEF Finish
    <2>2. CASE Online
      BY <2>1, <2>2 DEF TypePhase, Online, Go, Flush
    <2>3. CASE UNCHANGED <<syncState, held, synced>>
      BY <2>1, <2>3 DEF TypePhase
    <2> QED BY <2>2, <2>3 DEF Finish
  <1>9. TypePast'
    BY DEF Finish, TypePast, bounds
  <1> QED BY <1>1, <1>4, <1>6, <1>7, <1>8, <1>9

LEMMA NestedKeeps ==
  ASSUME TypeOK, NoLoss, Nested
  PROVE  TypeOK' /\ NoLoss'
  <1> USE DEF TypeOK
  <1>1. /\ shown' = [c \in Cols |-> shown[c] \cup got[c]] /\ got' = Per({}) /\ patching' = TRUE
        /\ UNCHANGED <<log, version, low, staged, torn, queue, todo, asked, snapAsked, forced, attempts,
                       tails>>
    BY DEF Nested, Emit, store
  <1>2. TypeQueue'
    BY <1>1 DEF TypeQueue
  <1>3. TypeRound'
    BY <1>1 DEF TypeRound, Per
  <1>4. TypeVersions'
    <2>1. got' \in [Cols -> SUBSET Versions] /\ shown' \in [Cols -> SUBSET Versions]
      BY <1>1 DEF TypeVersions, Per
    <2> QED BY <1>1, <2>1 DEF TypeVersions
  <1>5. TypeKeys' /\ TypePhase'
    BY DEF Nested, TypeKeys, TypePhase, store, phase
  <1>6. TypePast'
    BY DEF Nested, TypePast, bounds
  <1>7. \A c \in Cols : shown'[c] = shown[c] \cup got[c]
    BY <1>1
  <1>8. NoLoss'
    BY <1>1, <1>7 DEF NoLoss, NoMutationLost, KeptStaged, KeptLow
  <1> QED BY <1>2, <1>3, <1>4, <1>5, <1>6, <1>8

\* What the server and the store can hold after a patch of our own.
LEMMA SendingTyped ==
  ASSUME TypeOK, NEW c, Sending(c)
  PROVE  /\ c \in Cols /\ queue # <<>> /\ Head(queue) \in Jobs /\ Head(queue).key \in Keys
         /\ staged[c] \in Nat /\ staged[c] + 1 \in Versions /\ Next1(c) \in [Cols -> Versions]
  <1> USE DEF TypeOK
  <1>1. queue # <<>> /\ Head(queue) \in Jobs /\ Head(queue).kind = "patch"
    BY DEF Sending, Running, TypeQueue
  <1>2. c \in Cols /\ Head(queue).key \in Keys
    BY <1>1 DEF Sending, Jobs
  <1>3. staged[c] \in Nat /\ staged[c] + 1 \in Versions
    BY <1>2 DEF Sending, TypeVersions, Versions
  <1>4. Next1(c) \in [Cols -> Versions]
    BY <1>2, <1>3 DEF Next1, TypeVersions
  <1> QED BY <1>1, <1>2, <1>3, <1>4

LEMMA ServerTyped ==
  ASSUME TypeOK, NEW c, Sending(c), Takes(c) \/ Refuses(c)
  PROVE  log' \in [Cols -> Seq(Keys)] /\ \A x \in Cols : Len(log'[x]) <= MaxLog
  <1> USE DEF TypeOK
  <1>1. c \in Cols /\ Head(queue).key \in Keys /\ staged[c] \in Nat /\ staged[c] < MaxLog
    BY SendingTyped DEF Sending
  <1>2. log \in [Cols -> Seq(Keys)] /\ \A x \in Cols : Len(log[x]) <= MaxLog
    BY DEF TypeVersions
  <1>3. CASE Takes(c)
    <2>1. log'[c] = Append(log[c], Head(queue).key)
      BY <1>1, <1>2, <1>3 DEF Takes
    <2>2. log'[c] \in Seq(Keys) /\ Len(log'[c]) = staged[c] + 1
      BY <1>1, <1>2, <1>3, <2>1 DEF Takes
    <2>3. Len(log'[c]) <= MaxLog
      BY <1>1, <2>2
    <2>4. \A x \in Cols : x # c => log'[x] = log[x]
      BY <1>2, <1>3 DEF Takes
    <2>5. \A x \in Cols : log'[x] \in Seq(Keys) /\ Len(log'[x]) <= MaxLog
      BY <1>2, <2>2, <2>3, <2>4
    <2>6. log' = [x \in Cols |-> log'[x]]
      BY <1>2, <1>3 DEF Takes
    <2> QED BY <2>5, <2>6
  <1>4. CASE Refuses(c)
    BY <1>2, <1>4 DEF Refuses
  <1> QED BY <1>3, <1>4

\* The queue after a job that ends with no other to add.
LEMMA EndTypes ==
  ASSUME TypeOK, queue # <<>>, Dequeue(<<>>), tails' = tails
  PROVE  TypeQueue' /\ TypeRound'
  <1>1. <<>> \in Seq(Jobs) /\ tails' \in Nat
    BY DEF TypeOK, TypeQueue
  <1> QED BY <1>1, DequeueTypes DEF TypeOK

LEMMA NothingInHand ==
  ASSUME NoLoss, Sent, patching, NEW x \in Cols \ torn
  PROVE  1..staged[x] \subseteq shown[x]
  <1>1. got[x] = {}
    BY DEF Sent, Per
  <1> QED BY <1>1 DEF NoLoss, KeptStaged

LEMMA PatchKeeps ==
  ASSUME TypeOK, NoLoss, Sent, NEW c, PatchAccepted(c)
  PROVE  TypeOK' /\ NoLoss'
  <1> USE DEF TypeOK
  <1>1. /\ Sending(c) /\ Takes(c) /\ Dequeue(<<>>) /\ patching /\ UNCHANGED <<tails, torn>>
        /\ version' = [staged EXCEPT ![c] = @ + 1] /\ version' = Next1(c)
        /\ shown' = [shown EXCEPT ![c] = @ \cup {staged[c] + 1}]
    BY DEF PatchAccepted, Sending, Next1
  <1>2. /\ c \in Cols /\ queue # <<>> /\ staged[c] \in Nat /\ staged[c] + 1 \in Versions
        /\ version' \in [Cols -> Versions]
    BY <1>1, SendingTyped
  <1>3. TypeQueue' /\ TypeRound'
    BY <1>1, <1>2, EndTypes
  <1>4. shown' \in [Cols -> SUBSET Versions]
    BY <1>1, <1>2 DEF TypeVersions
  <1>5. TypeVersions'
    BY <1>1, <1>2, <1>4, ServerTyped, FreshVersions
  <1>6. \A x \in Cols \ torn' : 1..version'[x] \subseteq shown'[x]
    <2> SUFFICES ASSUME NEW x \in Cols \ torn, NEW v \in 1..version'[x] PROVE v \in shown'[x]
      BY <1>1
    <2>1. 1..staged[x] \subseteq shown[x]
      BY <1>1, NothingInHand
    <2>2. CASE x = c
      <3>1. version'[c] = staged[c] + 1 /\ shown'[c] = shown[c] \cup {staged[c] + 1}
        BY <1>1, <1>2 DEF TypeVersions
      <3>2. v \in 1..staged[c] \/ v = staged[c] + 1
        BY <1>2, <2>2, <3>1
      <3> QED BY <2>1, <2>2, <3>1, <3>2
    <2>3. CASE x # c
      BY <1>1, <2>1, <2>3 DEF TypeVersions
    <2> QED BY <2>2, <2>3
  <1>7. NoLoss'
    BY <1>1, <1>6, FreshKept
  <1>8. TypeKeys' /\ TypePhase'
    BY DEF PatchAccepted, TypeKeys, TypePhase, phase
  <1>9. TypePast'
    BY DEF PatchAccepted, TypePast, bounds
  <1> QED BY <1>3, <1>5, <1>7, <1>8, <1>9

\* A refused patch is kept for a version of somebody else: of that collection nothing is said.
LEMMA RefusedKeeps ==
  ASSUME TypeOK, NoLoss, Sent, NEW c, PatchRefused(c)
  PROVE  TypeOK' /\ NoLoss'
  <1> USE DEF TypeOK
  <1>1. /\ Sending(c) /\ Refuses(c) /\ Dequeue(<<>>) /\ patching /\ UNCHANGED <<tails, shown>>
        /\ version' = [staged EXCEPT ![c] = @ + 1] /\ version' = Next1(c)
        /\ torn' = torn \cup {c}
    BY DEF PatchRefused, Sending, Next1
  <1>2. c \in Cols /\ queue # <<>> /\ version' \in [Cols -> Versions]
    BY <1>1, SendingTyped
  <1>3. TypeQueue' /\ TypeRound'
    BY <1>1, <1>2, EndTypes
  <1>4. TypeVersions'
    BY <1>1, <1>2, ServerTyped, FreshVersions DEF TypeVersions
  <1>5. \A x \in Cols \ torn' : 1..version'[x] \subseteq shown'[x]
    <2> SUFFICES ASSUME NEW x \in Cols \ torn, x # c PROVE 1..version'[x] \subseteq shown'[x]
      BY <1>1
    <2>1. version'[x] = staged[x]
      BY <1>1 DEF TypeVersions
    <2> QED BY <1>1, <2>1, NothingInHand
  <1>6. NoLoss'
    BY <1>1, <1>5, FreshKept
  <1>7. TypeKeys' /\ TypePhase'
    BY DEF PatchRefused, TypeKeys, TypePhase, phase
  <1>8. TypePast'
    BY <1>1, <1>2 DEF PatchRefused, TypePast, bounds
  <1> QED BY <1>3, <1>4, <1>6, <1>7, <1>8

\* A transaction that fails: what it may have kept is torn, the rest is as it was.
LEMMA FailsKeeps ==
  ASSUME TypeOK, NoLoss, queue # <<>>, Fails,
         log' \in [Cols -> Seq(Keys)], \A x \in Cols : Len(log'[x]) <= MaxLog,
         version' \in [Cols -> Versions], keys \subseteq keys', keys' \subseteq Keys,
         torn \subseteq torn', torn' \subseteq Cols, forgotten' \subseteq Cols, failures' \in Nat,
         \A x \in Cols \ torn' : version'[x] = version[x]
  PROVE  TypeOK' /\ NoLoss'
  <1> USE DEF TypeOK
  <1>1. /\ Dequeue(<<>>) /\ UNCHANGED <<myKey, synced, phase, blocked, tails, shown, stuck, calls>>
        /\ fullFailed' \in BOOLEAN
    BY DEF Fails, TypePast
  <1>2. TypeQueue' /\ TypeRound'
    BY <1>1, EndTypes
  <1>3. shown' \in [Cols -> SUBSET Versions]
    BY <1>1 DEF TypeVersions
  <1>4. TypeVersions'
    BY <1>1, <1>3, FreshVersions
  <1>5. \A x \in Cols \ torn' : 1..version'[x] \subseteq shown'[x]
    BY <1>1 DEF NoLoss, NoMutationLost
  <1>6. NoLoss'
    BY <1>1, <1>5, FreshKept
  <1>7. TypeKeys' /\ TypePhase'
    BY <1>1 DEF TypeKeys, TypePhase, phase
  <1>8. TypePast'
    BY <1>1 DEF TypePast
  <1> QED BY <1>2, <1>4, <1>6, <1>7, <1>8

LEMMA RejectedKeeps ==
  ASSUME TypeOK, NoLoss, Rejected
  PROVE  TypeOK' /\ NoLoss'
  <1> USE DEF TypeOK
  <1>1. queue # <<>> /\ Fails /\ UNCHANGED <<log, version, keys, torn>>
    BY DEF Rejected, Running
  <1>2. Head(queue) \in Jobs
    BY <1>1 DEF TypeQueue
  <1>3. forgotten' \subseteq Cols
    BY <1>2 DEF Rejected, Strand, TypePast, Jobs, Stuck
  <1>4. failures' \in Nat
    BY DEF Rejected, TypePast
  <1>5. log' \in [Cols -> Seq(Keys)] /\ \A x \in Cols : Len(log'[x]) <= MaxLog
    BY <1>1 DEF TypeVersions
  <1>6. version' \in [Cols -> Versions] /\ keys' \subseteq Keys /\ torn' \subseteq Cols
    BY <1>1 DEF TypeVersions, TypeKeys, TypePast
  <1> QED BY <1>1, <1>3, <1>4, <1>5, <1>6, FailsKeeps

LEMMA KeepsTyped ==
  ASSUME TypeOK, NEW next \in [Cols -> Versions], Keeps(next)
  PROVE  /\ version' \in [Cols -> Versions] /\ torn \subseteq torn' /\ torn' \subseteq Cols
         /\ \A x \in Cols \ torn' : version'[x] = version[x]
  <1>1. PICK cols \in SUBSET Cols :
          /\ version' = [c \in Cols |-> IF c \in cols THEN next[c] ELSE version[c]]
          /\ torn' = torn \cup cols
    BY DEF Keeps
  <1>2. version' \in [Cols -> Versions]
    BY <1>1 DEF TypeOK, TypeVersions
  <1> QED BY <1>1, <1>2 DEF TypeOK, TypePast

LEMMA CommitFailsKeeps ==
  ASSUME TypeOK, NoLoss, CommitFails
  PROVE  TypeOK' /\ NoLoss'
  <1> USE DEF TypeOK
  <1>1. queue # <<>> /\ Fails /\ failures' \in Nat
    BY DEF CommitFails, TypePast
  <1>2. Head(queue) \in Jobs
    BY <1>1 DEF TypeQueue
  <1>3. Head(queue).cols \subseteq Cols
    BY <1>2 DEF Jobs
  <1>4. forgotten' \subseteq Cols
    BY <1>3 DEF CommitFails, Strand, TypePast, Stuck
  <1>5. log \in [Cols -> Seq(Keys)] /\ \A x \in Cols : Len(log[x]) <= MaxLog
    BY DEF TypeVersions
  <1>6. CASE /\ Head(queue).kind = "keys" /\ keys' \in {keys, keys \cup {Head(queue).key}}
             /\ UNCHANGED <<log, version, torn>>
    <2>1. Head(queue).key \in Keys
      BY <1>2, <1>6 DEF Jobs
    <2>2. keys \subseteq keys' /\ keys' \subseteq Keys
      BY <1>6, <2>1 DEF TypeKeys
    <2>3. version' \in [Cols -> Versions] /\ torn' \subseteq Cols
      BY <1>6 DEF TypeVersions, TypePast
    <2> QED BY <1>1, <1>4, <1>5, <1>6, <2>2, <2>3, FailsKeeps
  <1>7. CASE Keeps(staged) /\ UNCHANGED <<log, keys>>
    <2>1. staged \in [Cols -> Versions] /\ keys' \subseteq Keys /\ keys \subseteq keys'
      BY <1>7 DEF TypeVersions, TypeKeys
    <2>2. /\ version' \in [Cols -> Versions] /\ torn \subseteq torn' /\ torn' \subseteq Cols
          /\ \A x \in Cols \ torn' : version'[x] = version[x]
      BY <1>7, <2>1, KeepsTyped
    <2> QED BY <1>1, <1>4, <1>5, <1>7, <2>1, <2>2, FailsKeeps
  <1>8. ASSUME NEW c \in Cols, Sending(c), Takes(c) \/ Refuses(c), Keeps(Next1(c)), keys' = keys
        PROVE  TypeOK' /\ NoLoss'
    <2>1. Next1(c) \in [Cols -> Versions]
      BY <1>8, SendingTyped
    <2>2. /\ version' \in [Cols -> Versions] /\ torn \subseteq torn' /\ torn' \subseteq Cols
          /\ \A x \in Cols \ torn' : version'[x] = version[x]
      BY <1>8, <2>1, KeepsTyped
    <2>3. log' \in [Cols -> Seq(Keys)] /\ \A x \in Cols : Len(log'[x]) <= MaxLog
      BY <1>8, ServerTyped
    <2>4. keys' \subseteq Keys /\ keys \subseteq keys'
      BY <1>8 DEF TypeKeys
    <2> QED BY <1>1, <1>4, <2>2, <2>3, <2>4, FailsKeeps
  <1> QED BY <1>6, <1>7, <1>8 DEF CommitFails

\* Storing keys ends a job that had nothing in hand; a round begins by reading the versions.
LEMMA StoreKeysKeeps ==
  ASSUME TypeOK, NoLoss, StoreKeys
  PROVE  TypeOK' /\ NoLoss'
  <1>1. TypeOK'
    BY StoreKeysTypes
  <1>2. \A c \in Cols \ torn' : 1..version'[c] \subseteq shown'[c]
    BY DEF StoreKeys, past, NoLoss, NoMutationLost
  <1> QED BY <1>1, <1>2, FreshKept DEF StoreKeys

LEMMA AskKeeps ==
  ASSUME TypeOK, NoLoss, Ask
  PROVE  TypeOK' /\ NoLoss'
  <1>1. TypeOK'
    BY AskTypes
  <1>2. UNCHANGED <<version, staged, got, shown, torn>>
    BY DEF Ask, store, past
  <1>3. \A c \in Cols : low'[c] \in {low[c], staged[c]}
    BY DEF Ask
  <1>4. KeptLow'
    BY <1>2, <1>3 DEF NoLoss, KeptLow, KeptStaged
  <1> QED BY <1>1, <1>2, <1>4 DEF NoLoss, NoMutationLost, KeptStaged

\* Steps that neither store nor show nor hold mutations.
LEMMA QuietKeeps ==
  ASSUME NoLoss, UNCHANGED <<version, low, staged, got, shown, torn>>
  PROVE  NoLoss'
  BY DEF NoLoss, NoMutationLost, KeptStaged, KeptLow

\* A job that queues behind another leaves that one alone.
LEMMA SentEnqueue ==
  ASSUME TypeQueue, Sent, NEW jobs \in Seq(Jobs), Enqueue(jobs)
  PROVE  Sent'
  <1> SUFFICES ASSUME patching' PROVE queue' # <<>> /\ todo' = {} /\ got' = Per({})
    BY DEF Sent
  <1>1. queue # <<>> /\ todo = {} /\ got = Per({})
    BY DEF Sent, Enqueue
  <1>2. UNCHANGED <<todo, got>>
    BY <1>1 DEF Enqueue
  <1>3. queue \in Seq(Jobs) /\ Len(queue') = Len(queue) + Len(jobs)
    BY DEF Enqueue, TypeQueue
  <1>4. Len(queue) > 0
    BY <1>1, <1>3
  <1>5. queue' # <<>>
    BY <1>3, <1>4
  <1> QED BY <1>1, <1>2, <1>5

LEMMA SentSame ==
  ASSUME Sent, UNCHANGED <<queue, local>>
  PROVE  Sent'
  BY DEF Sent, local, Per

LEMMA SentFull == TypeQueue /\ Sent /\ StartFull => Sent'
  <1> SUFFICES ASSUME TypeQueue, Sent, StartFull PROVE Sent'
    OBVIOUS
  <1>1. <<Job("full", Cols, None)>> \in Seq(Jobs)
    BY JobTyped DEF Kinds
  <1> QED BY <1>1, SentEnqueue DEF StartFull

LEMMA SentKeeps ==
  ASSUME TypeOK, Sent, [Next]_vars
  PROVE  Sent'
  <1> USE DEF TypeOK
  <1>1. CASE UNCHANGED vars
    BY <1>1, SentSame DEF vars
  <1>2. CASE Pending \/ Timers \/ End \/ Close
    BY <1>2, SentSame DEF Pending, Timers, DeferredFlush, SyncTimeout, End, Close
  <1>3. ASSUME NEW p \in BOOLEAN, HistoryMessage(p) PROVE Sent'
    <2>1. CASE StartFull
      BY <2>1, SentFull
    <2>2. CASE UNCHANGED <<blocked, fullFailed, queue, local, bounds>>
      BY <2>2, SentSame
    <2> QED BY <1>3, <2>1, <2>2 DEF HistoryMessage
  <1>4. CASE LookAtPhase
    <2>1. CASE StartFull
      BY <2>1, SentFull
    <2>2. CASE UNCHANGED <<blocked, fullFailed, queue, local>>
      BY <2>2, SentSame
    <2> QED BY <1>4, <2>1, <2>2 DEF LookAtPhase
  <1>5. ASSUME NEW c \in Busy, ServerSync(c) PROVE Sent'
    <2>1. <<Job("resync", {c}, None)>> \in Seq(Jobs)
      BY JobTyped DEF Kinds
    <2> QED BY <1>5, <2>1, SentEnqueue DEF ServerSync, Call
  <1>6. ASSUME NEW c \in Busy, AppPatch(c) PROVE Sent'
    <2>1. myKey \in Keys
      BY <1>6 DEF AppPatch, TypeKeys
    <2>2. <<Job("patch", {c}, myKey)>> \in Seq(Jobs)
      BY <2>1, JobTyped DEF Kinds
    <2> QED BY <1>6, <2>2, SentEnqueue DEF AppPatch, Call
  <1>7. ASSUME NEW c \in Busy, NEW k \in Keys, Publish(c, k) PROVE Sent'
    BY <1>7, SentSame DEF Publish
  <1>8. ASSUME NEW k \in Keys, ShareArrives(k) PROVE Sent'
    <2>1. <<Job("keys", {}, k)>> \in Seq(Jobs)
      BY JobTyped DEF Kinds
    <2> QED BY <1>8, <2>1, SentEnqueue DEF ShareArrives
  <1>9. CASE WholeCreds
    BY <1>9, RetryTyped, SentEnqueue DEF WholeCreds
  <1>10. CASE StoreKeys \/ Finish \/ (\E c \in Cols : PatchAccepted(c) \/ PatchRefused(c)) \/ Failing
    <2>1. patching' = FALSE
      BY <1>10 DEF StoreKeys, Finish, PatchAccepted, PatchRefused, Failing, Rejected, CommitFails,
                   Fails, Dequeue
    <2> QED BY <2>1 DEF Sent
  <1>11. CASE Ask
    BY <1>11 DEF Ask, Running, Sent
  <1>12. ASSUME NEW c \in Cols, Decode(c) PROVE Sent'
    <2>1. c \in todo /\ patching' = patching
      BY <1>12, HasJob DEF Decode
    <2> QED BY <2>1 DEF Sent
  <1>13. CASE Nested
    BY <1>13 DEF Nested, Running, Sent, Per
  <1> QED BY <1>1, <1>2, <1>3, <1>4, <1>5, <1>6, <1>7, <1>8, <1>9, <1>10, <1>11, <1>12, <1>13
          DEF Next, Inputs, Resync

-----------------------------------------------------------------------------
(* The invariant                                                           *)

IInv == TypeOK /\ NoLoss /\ Sent

LEMMA InitIInv == Init => IInv
  <1> SUFFICES ASSUME Init PROVE IInv
    OBVIOUS
  <1>1. TypeOK
    BY InitTypes
  <1>2. version = Per(0) /\ staged = Per(0) /\ low = Per(0)
    BY DEF Init
  <1>3. \A c \in Cols : 1..version[c] = {} /\ 1..staged[c] = {} /\ 1..low[c] = {}
    <2>1. \A c \in Cols : version[c] = 0 /\ staged[c] = 0 /\ low[c] = 0
      BY <1>2 DEF Per
    <2>2. 1..0 = {}
      OBVIOUS
    <2> QED BY <2>1, <2>2
  <1>4. NoLoss
    BY <1>3 DEF NoLoss, NoMutationLost, KeptStaged, KeptLow
  <1>5. Sent
    BY DEF Init, Sent
  <1> QED BY <1>1, <1>4, <1>5 DEF IInv

LEMMA StepIInv == IInv /\ [Next]_vars => IInv'
  <1> SUFFICES ASSUME TypeOK, NoLoss, Sent, [Next]_vars PROVE TypeOK' /\ NoLoss' /\ Sent'
    BY DEF IInv
  <1>1. Sent'
    BY SentKeeps
  <1>2. CASE UNCHANGED vars
    <2>1. UNCHANGED <<queue, local, tails, Data, keys, myKey, phase, synced, blocked, past, bounds>>
      BY <1>2 DEF vars, store, past, local, Data
    <2>2. TypeQueue' /\ TypeRound' /\ TypeVersions' /\ TypeKeys'
      BY <2>1, SameRound, SameVersions DEF TypeOK, TypeKeys
    <2>3. TypePhase' /\ TypePast'
      BY <2>1 DEF TypeOK, TypePhase, TypePast, phase, past, bounds
    <2> QED BY <1>1, <2>1, <2>2, <2>3, QuietKeeps DEF TypeOK, Data
  <1>3. CASE Pending \/ Timers \/ End \/ Close
    <2>1. UNCHANGED <<version, low, staged, got, shown, torn>>
      BY <1>3 DEF Pending, Timers, DeferredFlush, SyncTimeout, End, Close, past, local, store
    <2> QED BY <1>1, <1>3, <2>1, PhaseTypes, QuietKeeps
  <1>4. CASE Inputs
    BY <1>1, <1>4, InputTypes, QuietKeeps
  <1>5. CASE LookAtPhase
    BY <1>1, <1>5, LookTypes, QuietKeeps DEF Data
  <1>6. CASE StoreKeys
    BY <1>1, <1>6, StoreKeysKeeps
  <1>7. CASE Ask
    BY <1>1, <1>7, AskKeeps
  <1>8. ASSUME NEW c \in Cols, Decode(c) PROVE TypeOK' /\ NoLoss'
    BY <1>8, DecodeKeeps
  <1>9. CASE Finish
    BY <1>1, <1>9, FinishKeeps
  <1>10. CASE Nested
    BY <1>1, <1>10, NestedKeeps
  <1>11. ASSUME NEW c \in Cols, PatchAccepted(c) \/ PatchRefused(c) PROVE TypeOK' /\ NoLoss'
    BY <1>11, PatchKeeps, RefusedKeeps
  <1>12. CASE Failing
    BY <1>1, <1>12, RejectedKeeps, CommitFailsKeeps DEF Failing
  <1> QED BY <1>1, <1>2, <1>3, <1>4, <1>5, <1>6, <1>7, <1>8, <1>9, <1>10, <1>11, <1>12 DEF Next, Resync

\* Every variable keeps its type (chats.js:456-600, 1035-1210).
THEOREM AppStateSyncTypeOK == Spec => []TypeOK
  <1>1. IInv => TypeOK
    BY DEF IInv
  <1> QED BY InitIInv, StepIInv, <1>1, PTL DEF Spec

\* No stored version stands for a mutation that was never emitted, whatever query is rejected and
\* whatever is repeated from a snapshot or parked (chats.js:456-600); a commit that is given up and a
\* patch that is refused take the collections they have kept out of what is said, and no other.
THEOREM AppStateSyncNoMutationLost == Spec => []NoMutationLost
  <1>1. IInv => NoMutationLost
    BY DEF IInv, NoLoss
  <1> QED BY InitIInv, StepIInv, <1>1, PTL DEF Spec
-----------------------------------------------------------------------------
(* Who is going to fetch a parked collection                               *)

Waits(c) == c \in blocked /\ stuck[c] \notin keys
Behind(c) == \E i \in 2..Len(queue) : c \in queue[i].cols
Told == tails > 0 /\ syncState = "Syncing"
ToldOf(c) == Told /\ (queue # <<>> => c \notin queue[1].cols)
Due(c) == Behind(c) \/ c \in todo \/ ToldOf(c)

\* What the head has handled is parked without its key or behind it in the queue: the job that a key
\* share will start counts only for what the head does not fetch itself, because a full sync that ends
\* takes the phase Syncing with it.
WillWake ==
  conn = "open" => \A c \in Cols \ forgotten : stuck[c] # None => Waits(c) \/ Due(c)

Shaped(jobs) ==
  \A i \in DOMAIN jobs :
    (jobs[i].kind = "full" => jobs[i].cols = Cols) /\ (jobs[i].kind = "keys" => jobs[i].cols = {})
HeadJob == (queue # <<>> => todo \subseteq queue[1].cols) /\ Shaped(queue)

\* A key that comes empties the set, unless its commit fails.
Locked == \A c \in blocked \ forgotten : stuck[c] \notin keys

Watch == HeadJob /\ Locked /\ WillWake

\* Nothing queues, ends or is decoded.
LEMMA WatchSame ==
  ASSUME Watch, conn' = "open" => conn = "open", UNCHANGED <<queue, todo, blocked, stuck, keys,
         forgotten>>,
         conn' = "open" /\ Told => Told'
  PROVE  Watch'
  BY DEF Watch, HeadJob, Shaped, Locked, WillWake, Waits, Due, Behind, ToldOf

\* A job that queues: what it fetches is due, and what was due is.
LEMMA EnqueueDue ==
  ASSUME TypeQueue, TypeRound, HeadJob, NEW jobs \in Seq(Jobs), Shaped(jobs), Enqueue(jobs)
  PROVE  /\ HeadJob'
         /\ \A c : (Behind(c) \/ c \in todo) => Due(c)'
         /\ \A c : ToldOf(c) /\ Told' => Due(c)'
         /\ \A c : (\E i \in DOMAIN jobs : c \in jobs[i].cols) => Due(c)'
  <1>1. queue' = queue \o jobs /\ queue \in Seq(Jobs)
    BY DEF Enqueue, TypeQueue
  <1>2. CASE queue = <<>>
    <2>1. queue' = jobs /\ todo = {} /\ ~\E c : Behind(c)
      BY <1>1, <1>2 DEF TypeRound, Behind
    <2>2. CASE jobs = <<>>
      <3>1. todo' = todo
        BY <1>2, <2>2 DEF Enqueue
      <3> QED BY <2>1, <2>2, <3>1 DEF HeadJob, Shaped, Due, ToldOf
    <2>3. CASE jobs # <<>>
      <3>1. todo' = jobs[1].cols
        BY <1>2, <2>3 DEF Enqueue
      <3>2. HeadJob'
        BY <2>1, <3>1 DEF HeadJob, Shaped
      <3>3. \A c : (\E i \in DOMAIN jobs : c \in jobs[i].cols) => Due(c)'
        <4> SUFFICES ASSUME NEW c, NEW i \in DOMAIN jobs, c \in jobs[i].cols PROVE Due(c)'
          OBVIOUS
        <4>1. i = 1 \/ i \in 2..Len(jobs)
          OBVIOUS
        <4> QED BY <2>1, <3>1, <4>1 DEF Due, Behind
      <3>4. \A c : ToldOf(c) /\ Told' => Due(c)'
        BY <2>1, <3>1 DEF Due, ToldOf
      <3> QED BY <2>1, <3>2, <3>3, <3>4
    <2> QED BY <2>2, <2>3
  <1>3. CASE queue # <<>>
    <2>1. todo' = todo
      BY <1>3 DEF Enqueue
    <2>2. /\ Len(queue') = Len(queue) + Len(jobs) /\ Len(queue) >= 1 /\ queue' # <<>>
          /\ \A i \in 1..Len(queue) : queue'[i] = queue[i]
          /\ \A i \in 1..Len(jobs) : queue'[Len(queue) + i] = jobs[i]
          /\ \A i \in DOMAIN queue' : i \in 1..Len(queue) \/ i - Len(queue) \in 1..Len(jobs)
      BY <1>1, <1>3
    <2>3. Shaped(queue)'
      <3> SUFFICES ASSUME NEW i \in DOMAIN queue'
              PROVE  (queue'[i].kind = "full" => queue'[i].cols = Cols)
                       /\ (queue'[i].kind = "keys" => queue'[i].cols = {})
        BY DEF Shaped
      <3>1. CASE i \in 1..Len(queue)
        BY <1>1, <2>2, <3>1 DEF HeadJob, Shaped
      <3>2. CASE i - Len(queue) \in 1..Len(jobs)
        <4>1. queue'[i] = jobs[i - Len(queue)]
          BY <1>1, <2>2, <3>2
        <4> QED BY <3>2, <4>1 DEF Shaped
      <3> QED BY <2>2, <3>1, <3>2
    <2>4. HeadJob'
      BY <1>3, <2>1, <2>2, <2>3 DEF HeadJob
    <2>5. \A c : Behind(c) => Behind(c)'
      <3> SUFFICES ASSUME NEW c, NEW i \in 2..Len(queue), c \in queue[i].cols PROVE Behind(c)'
        BY DEF Behind
      <3>1. i \in 2..Len(queue') /\ queue'[i] = queue[i]
        BY <1>1, <2>2
      <3> QED BY <3>1 DEF Behind
    <2>6. \A c : (\E i \in DOMAIN jobs : c \in jobs[i].cols) => Behind(c)'
      <3> SUFFICES ASSUME NEW c, NEW i \in DOMAIN jobs, c \in jobs[i].cols PROVE Behind(c)'
        OBVIOUS
      <3>1. Len(queue) + i \in 2..Len(queue') /\ queue'[Len(queue) + i] = jobs[i]
        BY <1>1, <2>2
      <3> QED BY <3>1 DEF Behind
    <2>7. \A c : ToldOf(c) /\ Told' => ToldOf(c)'
      BY <1>3, <2>2 DEF ToldOf
    <2> QED BY <2>1, <2>4, <2>5, <2>6, <2>7 DEF Due
  <1> QED BY <1>2, <1>3

\* The head ends: what was behind it is due, and what a key share will fetch; so is what more jobs fetch.
LEMMA DequeueDue ==
  ASSUME TypeQueue, HeadJob, queue # <<>>, NEW jobs \in Seq(Jobs), Shaped(jobs), Dequeue(jobs)
  PROVE  /\ HeadJob'
         /\ \A c : Behind(c) \/ Told' => Due(c)'
         /\ \A c : (\E i \in DOMAIN jobs : c \in jobs[i].cols) => Due(c)'
  <1>1. /\ queue' = Tail(queue) \o jobs /\ queue' \in Seq(Jobs) /\ queue \in Seq(Jobs)
        /\ (queue' # <<>> => todo' = queue'[1].cols)
    BY DEF Dequeue, TypeQueue
  <1>2. /\ Len(queue) >= 1 /\ Len(queue') = Len(queue) - 1 + Len(jobs)
        /\ \A i \in 2..Len(queue) : i - 1 \in 1..Len(queue') /\ queue'[i - 1] = queue[i]
        /\ \A i \in 1..Len(jobs) : Len(queue) - 1 + i \in 1..Len(queue')
             /\ queue'[Len(queue) - 1 + i] = jobs[i]
    BY <1>1
  <1>3. \A i \in 1..Len(queue') : i + 1 \in 2..Len(queue) \/ i - Len(queue) + 1 \in 1..Len(jobs)
    BY <1>1, <1>2
  <1>4. Shaped(queue)'
    <2> SUFFICES ASSUME NEW i \in 1..Len(queue')
              PROVE  (queue'[i].kind = "full" => queue'[i].cols = Cols)
                       /\ (queue'[i].kind = "keys" => queue'[i].cols = {})
      BY <1>1 DEF Shaped
    <2>1. CASE i + 1 \in 2..Len(queue)
      <3>1. queue'[i] = queue[i + 1] /\ i + 1 \in DOMAIN queue
        BY <1>1, <1>2, <2>1
      <3> QED BY <3>1 DEF HeadJob, Shaped
    <2>2. CASE i - Len(queue) + 1 \in 1..Len(jobs)
      <3>1. queue'[i] = jobs[i - Len(queue) + 1]
        BY <1>1, <1>2, <2>2
      <3> QED BY <2>2, <3>1 DEF Shaped
    <2> QED BY <1>3, <2>1, <2>2
  <1>5. HeadJob'
    BY <1>1, <1>4 DEF HeadJob
  <1>6. \A c : (\E i \in 1..Len(queue') : c \in queue'[i].cols) => Due(c)'
    <2> SUFFICES ASSUME NEW c, NEW i \in 1..Len(queue'), c \in queue'[i].cols PROVE Due(c)'
      OBVIOUS
    <2>1. i = 1 \/ i \in 2..Len(queue')
      BY <1>1
    <2>2. queue' # <<>>
      <3>1. queue' = <<>> => Len(queue') = 0
        OBVIOUS
      <3> QED BY <3>1
    <2> QED BY <1>1, <2>1, <2>2 DEF Due, Behind
  <1>7. \A c : Behind(c) => Due(c)'
    BY <1>2, <1>6 DEF Behind
  <1>8. \A c : (\E i \in DOMAIN jobs : c \in jobs[i].cols) => Due(c)'
    BY <1>2, <1>6
  <1>9. \A c : Told' => Due(c)'
    BY <1>1 DEF Due, ToldOf
  <1> QED BY <1>5, <1>7, <1>8, <1>9

\* A call that queues a job of its own.
LEMMA CallWatch ==
  ASSUME TypeOK, Watch, NEW jobs \in Seq(Jobs), Shaped(jobs), Enqueue(jobs),
         UNCHANGED <<keys, conn, syncState, tails, blocked, stuck, forgotten>>
  PROVE  Watch'
  <1>1. /\ HeadJob'
        /\ \A c : (Behind(c) \/ c \in todo) => Due(c)'
        /\ \A c : ToldOf(c) /\ Told' => Due(c)'
    BY EnqueueDue DEF TypeOK, Watch
  <1>2. \A c : Due(c) => Due(c)'
    BY <1>1 DEF Due, ToldOf, Told
  <1> QED BY <1>1, <1>2 DEF Watch, Locked, WillWake, Waits

LEMMA OneJob ==
  ASSUME NEW kind, NEW cols, NEW key, kind = "full" => cols = Cols, kind = "keys" => cols = {}
  PROVE  Shaped(<<Job(kind, cols, key)>>)
  BY DEF Shaped, Job

\* A full sync fetches every collection.
LEMMA FullWatch ==
  ASSUME TypeOK, Watch, StartFull
  PROVE  HeadJob' /\ Locked' /\ \A c \in Cols : Due(c)'
  <1> DEFINE job == Job("full", Cols, None)
  <1>1. <<job>> \in Seq(Jobs) /\ Shaped(<<job>>)
    BY JobTyped, OneJob DEF Kinds
  <1>2. Enqueue(<<job>>) /\ blocked' = {}
    BY DEF StartFull
  <1>3. /\ HeadJob' /\ \A c : (\E i \in DOMAIN <<job>> : c \in <<job>>[i].cols) => Due(c)'
    <2> HIDE DEF job
    <2> QED BY <1>1, <1>2, EnqueueDue DEF TypeOK, Watch
  <1>4. 1 \in DOMAIN <<job>> /\ <<job>>[1].cols = Cols
    BY DEF Job
  <1>5. \A c \in Cols : Due(c)'
    <2> HIDE DEF job
    <2> QED BY <1>3, <1>4
  <1> QED BY <1>2, <1>3, <1>5 DEF Locked

LEMMA RetryShaped == Shaped(Retry)
  <1>1. Shaped(<<Job("resync", blocked, None)>>) /\ Shaped(<<>>)
    BY OneJob DEF Kinds, Shaped
  <1> QED BY <1>1 DEF Retry

\* Unless the phase is Syncing, the retry fetches all that was parked.
LEMMA RetryFetches ==
  ASSUME syncState # "Syncing", NEW c \in blocked
  PROVE  \E i \in DOMAIN Retry : c \in Retry[i].cols
  <1>1. Retry = <<Job("resync", blocked, None)>>
    BY DEF Retry
  <1>2. 1 \in DOMAIN Retry /\ Retry[1].cols = blocked
    BY <1>1 DEF Job
  <1> QED BY <1>2

-----------------------------------------------------------------------------
(* Who is going to fetch it, action by action                              *)

LEMMA HistoryWatch ==
  ASSUME TypeOK, Watch, NEW p \in BOOLEAN, HistoryMessage(p)
  PROVE  Watch'
  <1>1. CASE StartFull
    BY <1>1, FullWatch DEF Watch, WillWake
  <1>2. CASE UNCHANGED <<blocked, fullFailed, queue, local, bounds>>
    <2>1. Told => Told'
      BY DEF HistoryMessage, AfterHistory, Go, Told
    <2> QED BY <1>2, <2>1, WatchSame DEF HistoryMessage, local, store
  <1> QED BY <1>1, <1>2 DEF HistoryMessage

LEMMA LookWatch ==
  ASSUME TypeOK, Watch, LookAtPhase
  PROVE  Watch'
  <1>1. CASE StartFull
    BY <1>1, FullWatch DEF Watch, WillWake
  <1>2. CASE syncState # "Syncing" /\ UNCHANGED <<blocked, fullFailed, queue, local>>
    BY <1>2, WatchSame DEF LookAtPhase, local, store, phase, Told
  <1> QED BY <1>1, <1>2 DEF LookAtPhase

LEMMA WholeCredsWatch ==
  ASSUME TypeOK, Watch, WholeCreds
  PROVE  Watch'
  <1>1. Retry \in Seq(Jobs) /\ Shaped(Retry) /\ Enqueue(Retry)
    BY RetryTyped, RetryShaped DEF TypeOK, WholeCreds
  <1>2. /\ HeadJob'
        /\ \A c : (Behind(c) \/ c \in todo) => Due(c)'
        /\ \A c : ToldOf(c) /\ Told' => Due(c)'
        /\ \A c : (\E i \in DOMAIN Retry : c \in Retry[i].cols) => Due(c)'
    BY <1>1, EnqueueDue DEF TypeOK, Watch
  <1>3. UNCHANGED <<keys, conn, syncState, tails, stuck>> /\ blocked' = {}
    BY DEF WholeCreds, store, phase
  <1>4. \A c : Due(c) => Due(c)'
    BY <1>2, <1>3 DEF Due, ToldOf, Told
  <1>5. forgotten \subseteq forgotten' /\ (syncState = "Syncing" => blocked \subseteq forgotten')
    BY DEF WholeCreds
  <1>6. \A c \in blocked : c \in forgotten' \/ Due(c)'
    BY <1>2, <1>5, RetryFetches
  <1>7. WillWake'
    BY <1>3, <1>4, <1>5, <1>6 DEF Watch, WillWake, Waits
  <1> QED BY <1>2, <1>3, <1>7 DEF Watch, Locked

LEMMA InputWatch ==
  ASSUME TypeOK, Watch, Inputs
  PROVE  Watch'
  <1>1. ASSUME NEW p \in BOOLEAN, HistoryMessage(p) PROVE Watch'
    BY <1>1, HistoryWatch
  <1>2. ASSUME NEW c \in Busy, ServerSync(c) PROVE Watch'
    <2>1. <<Job("resync", {c}, None)>> \in Seq(Jobs) /\ Shaped(<<Job("resync", {c}, None)>>)
      BY JobTyped, OneJob DEF Kinds
    <2> QED BY <1>2, <2>1, CallWatch DEF ServerSync, Call, store, phase, past
  <1>3. ASSUME NEW c \in Busy, AppPatch(c) PROVE Watch'
    <2>1. myKey \in Keys
      BY <1>3 DEF AppPatch, TypeOK, TypeKeys
    <2>2. <<Job("patch", {c}, myKey)>> \in Seq(Jobs) /\ Shaped(<<Job("patch", {c}, myKey)>>)
      BY <2>1, JobTyped, OneJob DEF Kinds
    <2> QED BY <1>3, <2>2, CallWatch DEF AppPatch, Call, store, phase, past
  <1>4. ASSUME NEW c \in Busy, NEW k \in Keys, Publish(c, k) PROVE Watch'
    BY <1>4, WatchSame DEF Publish, store, phase, local, past, Told
  <1>5. ASSUME NEW k \in Keys, ShareArrives(k) PROVE Watch'
    <2>1. <<Job("keys", {}, k)>> \in Seq(Jobs) /\ Shaped(<<Job("keys", {}, k)>>)
      BY JobTyped, OneJob DEF Kinds
    <2> QED BY <1>5, <2>1, CallWatch DEF ShareArrives, store, phase, past
  <1>6. CASE WholeCreds
    BY <1>6, WholeCredsWatch
  <1> QED BY <1>1, <1>2, <1>3, <1>4, <1>5, <1>6 DEF Inputs

\* A key that is stored empties the set: its collections are fetched by the retry, or while Syncing by
\* the sync that the handler of the share is going to start.
LEMMA StoreKeysWatch ==
  ASSUME TypeOK, Watch, StoreKeys
  PROVE  Watch'
  <1>1. Retry \in Seq(Jobs) /\ Shaped(Retry) /\ Dequeue(Retry) /\ queue # <<>>
    BY RetryTyped, RetryShaped DEF TypeOK, StoreKeys
  <1>2. /\ HeadJob'
        /\ \A c : Behind(c) \/ Told' => Due(c)'
        /\ \A c : (\E i \in DOMAIN Retry : c \in Retry[i].cols) => Due(c)'
    BY <1>1, DequeueDue DEF TypeOK, Watch
  <1>3. UNCHANGED <<conn, syncState, stuck, forgotten>> /\ blocked' = {} /\ tails' = tails + 1
    BY DEF StoreKeys, phase, past
  <1>4. syncState = "Syncing" => Told'
    BY <1>3 DEF Told, TypeOK, TypeQueue
  <1>5. \A c \in blocked : Due(c)'
    BY <1>2, <1>4, RetryFetches
  <1>6. todo = {}
    <2>1. queue[1].kind = "keys" /\ 1 \in DOMAIN queue
      BY <1>1 DEF StoreKeys, TypeOK, TypeQueue
    <2> QED BY <1>1, <2>1 DEF Watch, HeadJob, Shaped
  <1>7. \A c : Due(c) => Due(c)'
    BY <1>2, <1>4, <1>6 DEF Due, ToldOf, Told
  <1>8. WillWake'
    BY <1>3, <1>5, <1>7 DEF Watch, WillWake, Waits
  <1> QED BY <1>2, <1>3, <1>8 DEF Watch, Locked

\* The answer for one collection: what is parked lacks its key, what is given up or applied lacks none.
LEMMA KeyMissingWatch ==
  ASSUME TypeOK, Watch, NEW c \in Cols, NEW key \in Keys \ keys, KeyMissing(c, key),
         UNCHANGED <<queue, keys, conn, syncState, tails>>
  PROVE  Watch'
  <1>1. CASE UNCHANGED <<blocked, todo, stuck, forgotten>>
    BY <1>1, WatchSame DEF Told
  <1>2. CASE /\ blocked' = blocked \cup {c} /\ todo' = todo \ {c}
             /\ stuck' = [stuck EXCEPT ![c] = key] /\ forgotten' = forgotten \ {c}
    <2>1. stuck'[c] = key /\ \A d \in Cols \ {c} : stuck'[d] = stuck[d]
      BY <1>2 DEF TypeOK, TypePast
    <2>2. HeadJob'
      BY <1>2 DEF Watch, HeadJob, Shaped
    <2>3. Locked'
      BY <1>2, <2>1 DEF Watch, Locked, TypeOK, TypePast
    <2>4. Waits(c)'
      BY <1>2, <2>1 DEF Waits
    <2>5. \A d \in Cols \ {c} : (Waits(d) => Waits(d)') /\ (Due(d) => Due(d)')
      BY <1>2, <2>1 DEF Waits, Due, Behind, ToldOf, Told
    <2>6. WillWake'
      BY <1>2, <2>1, <2>4, <2>5 DEF Watch, WillWake
    <2> QED BY <2>2, <2>3, <2>6 DEF Watch
  <1> QED BY <1>1, <1>2 DEF KeyMissing

LEMMA SettledWatch ==
  ASSUME TypeOK, Watch, NEW c \in Cols,
         todo' = todo \ {c} /\ stuck' = [stuck EXCEPT ![c] = None],
         UNCHANGED <<queue, keys, conn, syncState, tails, blocked, forgotten>>
  PROVE  Watch'
  <1>1. stuck'[c] = None /\ \A d \in Cols \ {c} : stuck'[d] = stuck[d]
    BY DEF TypeOK, TypePast
  <1>2. None \notin keys
    BY DEF TypeOK, TypeKeys
  <1>3. HeadJob'
    BY DEF Watch, HeadJob, Shaped
  <1>4. Locked'
    BY <1>1, <1>2 DEF Watch, Locked, TypeOK, TypePast
  <1>5. \A d \in Cols \ {c} : (Waits(d) => Waits(d)') /\ (Due(d) => Due(d)')
    BY <1>1 DEF Waits, Due, Behind, ToldOf, Told
  <1>6. WillWake'
    BY <1>1, <1>5 DEF Watch, WillWake
  <1> QED BY <1>3, <1>4, <1>6 DEF Watch

LEMMA UnusableWatch ==
  ASSUME TypeOK, Watch, NEW c \in Cols, NEW fatal \in BOOLEAN, Unusable(c, fatal),
         UNCHANGED <<queue, keys, conn, syncState, tails>>
  PROVE  Watch'
  <1>1. CASE UNCHANGED <<todo, stuck>>
    BY <1>1, WatchSame DEF Unusable, Told
  <1>2. CASE todo' = todo \ {c} /\ stuck' = [stuck EXCEPT ![c] = None]
    BY <1>2, SettledWatch DEF Unusable
  <1> QED BY <1>1, <1>2 DEF Unusable

LEMMA DecodeWatch ==
  ASSUME TypeOK, Watch, NEW c \in Cols, Decode(c)
  PROVE  Watch'
  <1>1. UNCHANGED <<queue, keys, conn, syncState, tails>>
    BY DEF Decode, phase
  <1>2. ASSUME NEW key \in Keys \ keys, KeyMissing(c, key) PROVE Watch'
    BY <1>1, <1>2, KeyMissingWatch
  <1>3. ASSUME NEW fatal \in BOOLEAN, Unusable(c, fatal) PROVE Watch'
    BY <1>1, <1>3, UnusableWatch
  <1>4. ASSUME NEW snap \in Snapshots(c), Content(c, snap) PROVE Watch'
    <2>1. ASSUME NEW last, NEW more \in BOOLEAN, Applied(c, snap, last, more) PROVE Watch'
      <3>1. UNCHANGED <<blocked, forgotten>>
        BY <2>1 DEF Applied
      <3>2. CASE UNCHANGED <<todo, stuck>>
        BY <1>1, <3>1, <3>2, WatchSame DEF Told
      <3>3. CASE todo' = todo \ {c} /\ stuck' = [stuck EXCEPT ![c] = None]
        BY <1>1, <3>1, <3>3, SettledWatch
      <3> QED BY <2>1, <3>2, <3>3 DEF Applied
    <2>2. ASSUME NEW last \in Base(c, snap)..Len(log[c]), PatchesFail(c, snap, last) PROVE Watch'
      <3>1. CASE \E fatal \in BOOLEAN : Unusable(c, fatal)
        BY <1>3, <3>1
      <3>2. ASSUME NEW v \in Base(c, snap) + 1..last, log[c][v] \notin keys, KeyMissing(c,
                   log[c][v])
            PROVE  Watch'
        <4>1. Base(c, snap) \in Nat /\ Len(log[c]) \in Nat /\ log[c] \in Seq(Keys)
          <5>1. log[c] \in Seq(Keys)
            BY DEF TypeOK, TypeVersions
          <5>2. Base(c, snap) \in Nat
            BY BaseTyped DEF TypeOK, Versions
          <5> QED BY <5>1, <5>2
        <4>2. v \in 1..Len(log[c])
          BY <4>1
        <4>3. log[c][v] \in Keys
          BY <4>1, <4>2
        <4> QED BY <1>2, <3>2, <4>3
      <3> QED BY <2>2, <3>1, <3>2 DEF PatchesFail
    <2> QED BY <1>4, <2>1, <2>2 DEF Content
  <1>5. ASSUME NEW key \in Keys, SnapshotFails(c, key) PROVE Watch'
    BY <1>2, <1>3, <1>5 DEF SnapshotFails
  <1>6. Len(log[c]) \in Nat
    BY DEF TypeOK, TypeVersions
  <1>7. CASE Content(c, 0)
    BY <1>4, <1>6, <1>7 DEF Snapshots
  <1>8. ASSUME NEW snap \in 1..Len(log[c]), NEW key \in Keys, SnapshotFails(c, key) \/ Content(c,
               snap)
        PROVE  Watch'
    <2>1. snap \in Snapshots(c)
      BY <1>6 DEF Snapshots
    <2> QED BY <1>4, <1>5, <1>8, <2>1
  <1> QED BY <1>7, <1>8 DEF Decode

\* A job that ends well has handled all it fetches; a full sync has handled everything.
LEMMA DoneWatch ==
  ASSUME TypeOK, Watch, queue # <<>>, todo = {}, Dequeue(<<>>),
         UNCHANGED <<keys, conn, tails, blocked, stuck, forgotten>>,
         syncState' = syncState \/ queue[1].kind = "full"
  PROVE  Watch'
  <1>1. HeadJob' /\ \A c : Behind(c) \/ Told' => Due(c)'
    <2>1. Shaped(<<>>) /\ <<>> \in Seq(Jobs)
      BY DEF Shaped
    <2> QED BY <2>1, DequeueDue DEF TypeOK, Watch
  <1>2. \A c \in Cols : ToldOf(c) => Told'
    <2>1. 1 \in DOMAIN queue
      BY DEF TypeOK, TypeQueue
    <2> QED BY <2>1 DEF ToldOf, Told, Watch, HeadJob, Shaped
  <1>3. \A c \in Cols : Due(c) => Due(c)'
    BY <1>1, <1>2 DEF Due
  <1>4. WillWake'
    BY <1>3 DEF Watch, WillWake, Waits
  <1> QED BY <1>1, <1>4 DEF Watch, Locked

\* A job that fails leaves nothing of what it had to fetch but what is parked or forgotten; a key it
\* may have stored nobody is told of.
LEMMA FailsWatch ==
  ASSUME TypeOK, Watch, queue # <<>>, Fails, forgotten \subseteq forgotten', keys \subseteq keys',
         \A c \in Cols \ forgotten' : stuck[c] \notin keys' \ keys,
         \A c \in todo \ forgotten' : stuck[c] = None \/ c \in blocked
  PROVE  Watch'
  <1>1. Dequeue(<<>>) /\ UNCHANGED <<conn, syncState, tails, blocked, stuck>>
    BY DEF Fails, phase
  <1>2. HeadJob' /\ \A c : Behind(c) \/ Told' => Due(c)'
    <2>1. Shaped(<<>>) /\ <<>> \in Seq(Jobs)
      BY DEF Shaped
    <2> QED BY <1>1, <2>1, DequeueDue DEF TypeOK, Watch
  <1>3. \A c \in Cols : Behind(c) \/ ToldOf(c) => Due(c)'
    BY <1>1, <1>2 DEF ToldOf, Told
  <1>4. blocked \subseteq Cols
    BY DEF TypeOK, TypePast
  <1>5. Locked'
    BY <1>1, <1>4 DEF Watch, Locked
  <1>6. ASSUME NEW c \in Cols \ forgotten', stuck[c] # None, conn = "open"
        PROVE  (Waits(c) \/ Due(c))'
    <2>1. CASE Waits(c)
      BY <1>1, <1>6, <2>1 DEF Waits
    <2>2. CASE c \in todo
      BY <1>1, <1>5, <1>6, <2>2 DEF Locked, Waits
    <2>3. CASE Behind(c) \/ ToldOf(c)
      BY <1>3, <2>3
    <2>4. Waits(c) \/ Due(c)
      BY <1>6 DEF Watch, WillWake
    <2> QED BY <2>1, <2>2, <2>3, <2>4 DEF Due
  <1>7. WillWake'
    BY <1>1, <1>6 DEF WillWake
  <1> QED BY <1>2, <1>5, <1>7 DEF Watch

LEMMA FailingWatch ==
  ASSUME TypeOK, Watch, Failing
  PROVE  Watch'
  <1>1. queue # <<>> /\ Fails
    BY DEF Failing, Rejected, CommitFails, Running
  <1>2. CASE Rejected
    <2>1. forgotten \subseteq forgotten' /\ keys' = keys
      BY <1>2 DEF Rejected, Strand
    <2>2. \A c \in todo : c \in Head(queue).cols
      BY <1>1 DEF Watch, HeadJob, TypeOK, TypeQueue
    <2>3. \A c \in todo \ forgotten' : stuck[c] = None \/ c \in blocked
      BY <1>2, <2>2 DEF Rejected, Strand, Stuck
    <2> QED BY <1>1, <2>1, <2>3, FailsWatch
  <1>3. CASE CommitFails
    <2>1. forgotten \subseteq forgotten' /\ todo = {}
      BY <1>3 DEF CommitFails, Strand
    <2>2. CASE keys' = keys
      BY <1>1, <2>1, <2>2, FailsWatch
    <2>3. CASE /\ keys' \in {keys, keys \cup {Head(queue).key}}
               /\ Strand({c \in Cols : stuck[c] \in keys' \ keys})
      <3>1. keys \subseteq keys' /\ \A c \in Cols \ forgotten' : stuck[c] \notin keys' \ keys
        BY <2>3 DEF Strand
      <3> QED BY <1>1, <2>1, <3>1, FailsWatch
    <2> QED BY <1>3, <2>2, <2>3 DEF CommitFails
  <1> QED BY <1>2, <1>3 DEF Failing

LEMMA WatchKeeps ==
  ASSUME TypeOK, Sent, Watch, [Next]_vars
  PROVE  Watch'
  <1>1. CASE UNCHANGED vars
    BY <1>1, WatchSame DEF vars, store, phase, local, past, Told
  <1>2. CASE Pending \/ Timers \/ End \/ Close
    <2>1. CASE Close
      BY <2>1 DEF Close, local, past, store, Watch, HeadJob, Locked, WillWake, Shaped
    <2>2. CASE Pending \/ Timers \/ End
      <3>1. UNCHANGED <<queue, todo, blocked, stuck, keys, forgotten, tails>>
        BY <2>2 DEF Pending, Timers, DeferredFlush, SyncTimeout, End, local, past, store
      <3>2. conn' = "open" => conn = "open" /\ (Told => Told')
        BY <2>2, <3>1 DEF Pending, Timers, DeferredFlush, SyncTimeout, End, Told, Go, Online
      <3> QED BY <3>1, <3>2, WatchSame
    <2> QED BY <1>2, <2>1, <2>2
  <1>3. CASE Inputs
    BY <1>3, InputWatch
  <1>4. CASE LookAtPhase
    BY <1>4, LookWatch
  <1>5. CASE StoreKeys
    BY <1>5, StoreKeysWatch
  <1>6. CASE Ask \/ Nested
    <2>1. UNCHANGED <<queue, todo, blocked, stuck, keys, forgotten, conn, syncState, tails>>
      BY <1>6 DEF Ask, Nested, store, phase, past
    <2> QED BY <2>1, WatchSame DEF Told
  <1>7. ASSUME NEW c \in Cols, Decode(c) PROVE Watch'
    BY <1>7, DecodeWatch
  <1>8. CASE Finish
    <2>1. Head(queue) = queue[1] /\ queue # <<>>
      BY <1>8 DEF Finish, Running, TypeOK, TypeQueue
    <2>2. todo = {} /\ Dequeue(<<>>) /\ (syncState' = syncState \/ queue[1].kind = "full")
      BY <1>8, <2>1 DEF Finish, Running
    <2>3. UNCHANGED <<keys, conn, tails, blocked, stuck, forgotten>>
      BY <1>8 DEF Finish
    <2> QED BY <2>1, <2>2, <2>3, DoneWatch
  <1>9. ASSUME NEW c \in Cols, PatchAccepted(c) \/ PatchRefused(c) PROVE Watch'
    <2>1. queue # <<>> /\ todo = {} /\ Dequeue(<<>>) /\ syncState' = syncState
      BY <1>9 DEF PatchAccepted, PatchRefused, Sending, Running, Sent, phase
    <2>2. UNCHANGED <<keys, conn, tails, blocked, stuck, forgotten>>
      BY <1>9 DEF PatchAccepted, PatchRefused, phase
    <2> QED BY <2>1, <2>2, DoneWatch
  <1>10. CASE Failing
    BY <1>10, FailingWatch
  <1> QED BY <1>1, <1>2, <1>3, <1>4, <1>5, <1>6, <1>7, <1>8, <1>9, <1>10 DEF Next, Resync

\* A collection that was parked for a key is never left alone: while the connection is open it waits for
\* a key that is not there, or somebody is about to fetch it (chats.js:1112-1115, 1172-1188), however
\* key shares, full syncs, patches of our own and rejected queries follow each other.
THEOREM AppStateSyncWakes == Spec => []Wakes
  <1>1. Init => Watch
    <2> SUFFICES ASSUME Init PROVE Watch
      OBVIOUS
    <2>1. queue = <<>> /\ todo = {} /\ blocked = {} /\ \A c \in Cols : stuck[c] = None
      BY DEF Init, Per
    <2> QED BY <2>1 DEF Watch, HeadJob, Shaped, Locked, WillWake
  <1>2. IInv /\ Watch /\ [Next]_vars => Watch'
    BY WatchKeeps DEF IInv
  <1>3. IInv /\ Watch => Wakes
    <2> SUFFICES ASSUME IInv, Watch, conn = "open",
                        NEW c \in Cols \ forgotten, stuck[c] # None
                 PROVE  Covered(c) \/ (c \in blocked /\ stuck[c] \notin keys)
      BY DEF Wakes
    <2>1. Waits(c) \/ Due(c)
      BY DEF Watch, WillWake
    <2>2. queue \in Seq(Jobs)
      BY DEF IInv, TypeOK, TypeQueue
    <2>3. Behind(c) => Covered(c)
      BY <2>2 DEF Behind, Covered
    <2>4. c \in todo => Covered(c)
      <3>1. c \in todo => queue # <<>> /\ c \in queue[1].cols
        BY DEF IInv, TypeOK, TypeRound, Watch, HeadJob
      <3>2. queue # <<>> => 1 \in DOMAIN queue
        BY <2>2
      <3> QED BY <3>1, <3>2 DEF Covered
    <2>5. ToldOf(c) => Covered(c)
      BY DEF ToldOf, Told, Covered
    <2> QED BY <2>1, <2>3, <2>4, <2>5 DEF Waits, Due
  <1> QED BY <1>1, <1>2, <1>3, InitIInv, StepIInv, PTL DEF Spec
=============================================================================
