------------------------------ MODULE PreKeys ------------------------------
(***************************************************************************)
(* One-time pre-keys: minting, the two counters in the credentials, upload *)
(* to the server, and the retry receipts that hand one key to one peer.    *)
(*                                                                         *)
(* Sources: lib/Utils/signal.js (generateOrGetPreKeys, getPreKeys,         *)
(* getNextPreKeys), lib/Socket/socket.js (uploadPreKeys,                   *)
(* uploadPreKeysToServerIfRequired, the creds.update listener),            *)
(* lib/Socket/messages-recv.js (sendRetryRequest, handleEncryptNotification)*)
(* and lib/Signal/libsignal.js (loadPreKey, removePreKey).                 *)
(*                                                                         *)
(* A job is one call that takes keys: the single upload the dedupe promise *)
(* lets run, or one retry receipt.  The allocation half of a job runs in a *)
(* transaction of the key store, hence under the store's one mutex; the    *)
(* query of an upload runs outside it.  An await is a step boundary.       *)
(***************************************************************************)
EXTENDS Integers, Sequences, FiniteSets

CONSTANTS
  MaxId,          \* bound: ids 1..MaxId may be minted
  MaxMint,        \* bound: key pairs minted per id (re-minting after a rollback or crash)
  MinCount,       \* MIN_PREKEY_COUNT
  InitialCount,   \* INITIAL_PREKEY_COUNT
  MaxAttempts,    \* 1 + the retries of uploadLogic
  Receipts,       \* retry receipts that carry a key
  Upload,         \* the upload job
  CommitMayFail,  \* jobs whose transaction commit may exhaust its retries
  SendMayFail,    \* receipts whose sendNode may reject
  MaxCalls,       \* bound on calls of uploadPreKeys that start an upload
  MaxCrashes      \* bound on process crashes

Jobs == Receipts \cup {Upload}
Ids == 1..MaxId

ASSUME PreKeysAssumption ==
  /\ MaxId \in Nat \ {0} /\ MaxMint \in Nat \ {0}
  /\ MinCount \in Nat \ {0} /\ InitialCount \in Nat \ {0}
  /\ MaxAttempts \in Nat \ {0} /\ MaxCalls \in Nat /\ MaxCrashes \in Nat
  /\ Upload \notin Receipts
  /\ CommitMayFail \subseteq Jobs /\ SendMayFail \subseteq Receipts

VARIABLES
  nextPreKeyId,             \* creds.nextPreKeyId, in memory
  firstUnuploadedPreKeyId,  \* creds.firstUnuploadedPreKeyId, in memory
  saved,                    \* the two counters as last written by saveCreds
  store,                    \* the key store: the pair held for each id, 0 for none
  minted,                   \* pairs generated so far per id
  txHolder,                 \* the job that holds the store's mutex
  pc, count, attempt,       \* where each job is, its range, its upload attempt
  low, last, allocFrom,     \* generateOrGetPreKeys' snapshot
  allocTo, commitTo,        \* allocUpdate.nextPreKeyId, commitUpdate.firstUnuploadedPreKeyId
  staged,                   \* pairs staged in the transaction
  bundle,                   \* pairs put in the stanza
  wire,                     \* uploads sent and not yet answered by the server
  given,                    \* <<id, pair, to>>: keys that left the client
  used,                     \* <<id, pair>>: keys consumed by a decrypt
  calls, crashes

creds    == <<nextPreKeyId, firstUnuploadedPreKeyId>>
jobVars  == <<pc, count, attempt, low, last, allocFrom, allocTo, commitTo, staged, bundle>>
worldVars == <<wire, given, used, calls, crashes>>
vars == <<creds, saved, store, minted, txHolder, jobVars, worldVars>>

NoKeys == [id \in Ids |-> 0]
Larger(a, b) == IF a >= b THEN a ELSE b

KeysOf(b) == {id \in Ids : b[id] # 0}

Init ==
  /\ nextPreKeyId = 1 /\ firstUnuploadedPreKeyId = 1
  /\ saved = creds
  /\ store = NoKeys /\ minted = NoKeys
  /\ txHolder = {}
  /\ pc = [j \in Jobs |-> "idle"]
  /\ count = [j \in Jobs |-> 1] /\ attempt = [j \in Jobs |-> 0]
  /\ low = [j \in Jobs |-> 1] /\ last = [j \in Jobs |-> 0]
  /\ allocFrom = [j \in Jobs |-> 1]
  /\ allocTo = [j \in Jobs |-> 1] /\ commitTo = [j \in Jobs |-> 1]
  /\ staged = [j \in Jobs |-> NoKeys] /\ bundle = [j \in Jobs |-> NoKeys]
  /\ wire = <<>> /\ given = {} /\ used = {} /\ calls = 0 /\ crashes = 0

Goto(j, label) == pc' = [pc EXCEPT ![j] = label]
Release == txHolder' = {}

-----------------------------------------------------------------------------
(* Starting a job.                                                         *)

StartUpload(c) ==
  /\ pc[Upload] = "idle"
  /\ calls < MaxCalls
  /\ calls' = calls + 1
  /\ count' = [count EXCEPT ![Upload] = c]
  /\ attempt' = [attempt EXCEPT ![Upload] = 1]
  /\ Goto(Upload, "lock")
  /\ UNCHANGED <<creds, saved, store, minted, txHolder, low, last, allocFrom,
                 allocTo, commitTo, staged, bundle, wire, given, used, crashes>>

\* handleEncryptNotification and digestKeyBundle: the default count.
PreKeyLow == StartUpload(MinCount)

\* uploadPreKeysToServerIfRequired: the server's count picks the batch; an
\* upload is due when that count is low or the newest id has no key.
UploadIfRequired ==
  \E preKeyCount \in 0..(InitialCount + 1) :
    LET c == IF preKeyCount = 0 THEN InitialCount ELSE MinCount
        current == nextPreKeyId - 1
        missing == current > 0 /\ store[current] = 0
    IN  /\ preKeyCount <= c \/ missing
        /\ StartUpload(c)

\* sendRetryRequest reaches its transaction with keys to include.
StartReceipt(r) ==
  /\ pc[r] = "idle"
  /\ Goto(r, "lock")
  /\ UNCHANGED <<creds, saved, store, minted, txHolder, count, attempt, low, last,
                 allocFrom, allocTo, commitTo, staged, bundle, worldVars>>

-----------------------------------------------------------------------------
(* The allocation, inside the transaction.                                 *)

\* Mutant: the allocation runs outside the store's mutex.
BeginTxNoMutex(j) ==
  LET end == nextPreKeyId + count[j] - (nextPreKeyId - firstUnuploadedPreKeyId) - 1
  IN  /\ pc[j] = "lock" /\ end <= MaxId
      /\ firstUnuploadedPreKeyId + count[j] - 1 <= MaxId
      /\ txHolder' = {j}
      /\ allocFrom' = [allocFrom EXCEPT ![j] = nextPreKeyId]
      /\ low' = [low EXCEPT ![j] = firstUnuploadedPreKeyId]
      /\ last' = [last EXCEPT ![j] = end]
      /\ Goto(j, "minted")
      /\ UNCHANGED <<creds, saved, store, minted, count, attempt, allocTo, commitTo,
                     staged, bundle, worldVars>>

\* The mutex is taken and generateOrGetPreKeys reads the counters once.
BeginTx(j) ==
  LET available == nextPreKeyId - firstUnuploadedPreKeyId
      end == nextPreKeyId + (count[j] - available) - 1
  IN  /\ pc[j] = "lock" /\ txHolder = {}
      /\ end <= MaxId /\ firstUnuploadedPreKeyId + count[j] - 1 <= MaxId
      /\ txHolder' = {j}
      /\ allocFrom' = [allocFrom EXCEPT ![j] = nextPreKeyId]
      /\ low' = [low EXCEPT ![j] = firstUnuploadedPreKeyId]
      /\ last' = [last EXCEPT ![j] = end]
      /\ Goto(j, "minted")
      /\ UNCHANGED <<creds, saved, store, minted, count, attempt, allocTo, commitTo,
                     staged, bundle, worldVars>>

\* getNextPreKeys after the mint: the two updates are computed from a second
\* read of the counters, the new pairs are staged and the range is read back
\* through the transaction.  A receipt that finds no key throws.
Stage(j) ==
  LET fresh == allocFrom[j]..last[j]
      pairs == [id \in Ids |-> IF id \in fresh THEN minted[id] + 1 ELSE 0]
      range == low[j]..(low[j] + count[j] - 1)
      found == [id \in Ids |-> IF id \notin range THEN 0
                               ELSE IF id \in fresh THEN pairs[id] ELSE store[id]]
  IN  /\ pc[j] = "minted"
      /\ \A id \in fresh : minted[id] < MaxMint
      /\ minted' = [id \in Ids |-> IF id \in fresh THEN minted[id] + 1 ELSE minted[id]]
      /\ allocTo' = [allocTo EXCEPT ![j] = Larger(last[j] + 1, nextPreKeyId)]
      /\ commitTo' = [commitTo EXCEPT ![j] = Larger(firstUnuploadedPreKeyId, last[j] + 1)]
      /\ staged' = [staged EXCEPT ![j] = pairs]
      /\ bundle' = [bundle EXCEPT ![j] = found]
      /\ IF j # Upload /\ KeysOf(found) = {}
         THEN Goto(j, "done") /\ Release
         ELSE Goto(j, "staged") /\ UNCHANGED txHolder
      /\ UNCHANGED <<creds, saved, store, count, attempt, low, last, allocFrom, worldVars>>

\* Mutant: the commit is emitted with it, before anybody received the keys.
EmitAllocAndCommit(j) ==
  /\ pc[j] = "staged"
  /\ nextPreKeyId' = Larger(nextPreKeyId, allocTo[j])
  /\ firstUnuploadedPreKeyId' = Larger(firstUnuploadedPreKeyId, commitTo[j])
  /\ Goto(j, IF j = Upload THEN "commit" ELSE "send")
  /\ UNCHANGED <<saved, store, minted, txHolder, count, attempt, low, last, allocFrom,
                 allocTo, commitTo, staged, bundle, worldVars>>

\* creds.update with the allocation; the listener clamps against live creds.
EmitAlloc(j) ==
  /\ pc[j] = "staged"
  /\ nextPreKeyId' = Larger(nextPreKeyId, allocTo[j])
  /\ Goto(j, IF j = Upload THEN "commit" ELSE "send")
  /\ UNCHANGED <<firstUnuploadedPreKeyId, saved, store, minted, txHolder, count, attempt,
                 low, last, allocFrom, allocTo, commitTo, staged, bundle, worldVars>>

\* The retry receipt reaches the wire, and with it the key.
SendReceipt(r) ==
  /\ pc[r] = "send"
  /\ given' = given \cup {<<id, bundle[r][id], r>> : id \in KeysOf(bundle[r])}
  /\ Goto(r, "sent")
  /\ UNCHANGED <<creds, saved, store, minted, txHolder, count, attempt, low, last,
                 allocFrom, allocTo, commitTo, staged, bundle, wire, used, calls, crashes>>

\* sendNode rejects: the transaction rolls back, the counters stay as emitted.
SendFails(r) ==
  /\ pc[r] = "send" /\ r \in SendMayFail
  /\ Goto(r, "done") /\ Release
  /\ UNCHANGED <<creds, saved, store, minted, count, attempt, low, last, allocFrom,
                 allocTo, commitTo, staged, bundle, worldVars>>

\* Mutant: the listener assigns the snapshot's commit without the clamp.
CommitReceiptUnclamped(r) ==
  /\ pc[r] = "sent"
  /\ firstUnuploadedPreKeyId' = commitTo[r]
  /\ Goto(r, "commit")
  /\ UNCHANGED <<nextPreKeyId, saved, store, minted, txHolder, count, attempt, low, last,
                 allocFrom, allocTo, commitTo, staged, bundle, worldVars>>

\* creds.update with the commit, still inside the receipt's transaction.
CommitReceipt(r) ==
  /\ pc[r] = "sent"
  /\ firstUnuploadedPreKeyId' = Larger(firstUnuploadedPreKeyId, commitTo[r])
  /\ Goto(r, "commit")
  /\ UNCHANGED <<nextPreKeyId, saved, store, minted, txHolder, count, attempt, low, last,
                 allocFrom, allocTo, commitTo, staged, bundle, worldVars>>

-----------------------------------------------------------------------------
(* The end of the transaction.                                             *)

Written(j, ids) == [id \in Ids |-> IF id \in ids /\ staged[j][id] # 0 THEN staged[j][id]
                                   ELSE store[id]]

CommitTx(j) ==
  /\ pc[j] = "commit"
  /\ store' = Written(j, Ids)
  /\ Goto(j, IF j = Upload THEN "query" ELSE "done")
  /\ Release
  /\ UNCHANGED <<creds, saved, minted, count, attempt, low, last, allocFrom, allocTo,
                 commitTo, staged, bundle, worldVars>>

\* commitWithRetry gives up.  The multi-file store writes its files in
\* parallel, so any part of the batch may have reached the disk.
CommitTxFails(j) ==
  /\ pc[j] = "commit" /\ j \in CommitMayFail
  /\ \E ids \in SUBSET KeysOf(staged[j]) : store' = Written(j, ids)
  /\ Goto(j, IF j = Upload THEN "undo" ELSE "done")
  /\ Release
  /\ UNCHANGED <<creds, saved, minted, count, attempt, low, last, allocFrom, allocTo,
                 commitTo, staged, bundle, worldVars>>

\* uploadPreKeys' catch: compare and swap back, then rethrow.
UndoAlloc ==
  /\ pc[Upload] = "undo"
  /\ nextPreKeyId' = IF nextPreKeyId = allocTo[Upload] THEN allocFrom[Upload] ELSE nextPreKeyId
  /\ Goto(Upload, "idle")
  /\ UNCHANGED <<firstUnuploadedPreKeyId, saved, store, minted, txHolder, count, attempt,
                 low, last, allocFrom, allocTo, commitTo, staged, bundle, worldVars>>

-----------------------------------------------------------------------------
(* The query of an upload, and the server.                                 *)

SendQuery ==
  /\ pc[Upload] = "query"
  /\ wire' = Append(wire, bundle[Upload])
  /\ Goto(Upload, "waiting")
  /\ UNCHANGED <<creds, saved, store, minted, txHolder, count, attempt, low, last, allocFrom,
                 allocTo, commitTo, staged, bundle, given, used, calls, crashes>>

\* The answer resolves the query that waits for it: the last one sent, unless
\* that one has timed out.  An answer to an older query finds no waiter.
Answer(outcome) ==
  IF Len(wire) = 1 /\ pc[Upload] = "waiting" THEN Goto(Upload, outcome) ELSE UNCHANGED pc

ServerAccepts ==
  /\ wire # <<>>
  /\ given' = given \cup {<<id, Head(wire)[id], Upload>> : id \in KeysOf(Head(wire))}
  /\ wire' = Tail(wire)
  /\ Answer("accepted")
  /\ UNCHANGED <<creds, saved, store, minted, txHolder, count, attempt, low, last, allocFrom,
                 allocTo, commitTo, staged, bundle, used, calls, crashes>>

ServerRejects ==
  /\ wire # <<>>
  /\ wire' = Tail(wire)
  /\ Answer("failed")
  /\ UNCHANGED <<creds, saved, store, minted, txHolder, count, attempt, low, last, allocFrom,
                 allocTo, commitTo, staged, bundle, given, used, calls, crashes>>

\* UPLOAD_TIMEOUT, or the socket's own query timeout.
QueryTimeout ==
  /\ pc[Upload] = "waiting"
  /\ Goto(Upload, "failed")
  /\ UNCHANGED <<creds, saved, store, minted, txHolder, count, attempt, low, last, allocFrom,
                 allocTo, commitTo, staged, bundle, worldVars>>

CommitUpload ==
  /\ pc[Upload] = "accepted"
  /\ firstUnuploadedPreKeyId' = Larger(firstUnuploadedPreKeyId, commitTo[Upload])
  /\ Goto(Upload, "idle")
  /\ UNCHANGED <<nextPreKeyId, saved, store, minted, txHolder, count, attempt, low, last,
                 allocFrom, allocTo, commitTo, staged, bundle, worldVars>>

\* Mutants: one attempt too many; attempts that are never counted.
RetryUploadOnceMore ==
  /\ pc[Upload] = "failed"
  /\ IF attempt[Upload] <= MaxAttempts
     THEN /\ attempt' = [attempt EXCEPT ![Upload] = @ + 1]
          /\ Goto(Upload, "lock")
     ELSE Goto(Upload, "idle") /\ UNCHANGED attempt
  /\ UNCHANGED <<creds, saved, store, minted, txHolder, count, low, last, allocFrom,
                 allocTo, commitTo, staged, bundle, worldVars>>

RetryUploadForever ==
  /\ pc[Upload] = "failed"
  /\ Goto(Upload, "lock")
  /\ UNCHANGED <<creds, saved, store, minted, txHolder, count, attempt, low, last, allocFrom,
                 allocTo, commitTo, staged, bundle, worldVars>>

\* After the backoff the whole of uploadLogic runs again, up to MaxAttempts.
RetryUpload ==
  /\ pc[Upload] = "failed"
  /\ IF attempt[Upload] < MaxAttempts
     THEN /\ attempt' = [attempt EXCEPT ![Upload] = @ + 1]
          /\ Goto(Upload, "lock")
     ELSE Goto(Upload, "idle") /\ UNCHANGED attempt
  /\ UNCHANGED <<creds, saved, store, minted, txHolder, count, low, last, allocFrom,
                 allocTo, commitTo, staged, bundle, worldVars>>

-----------------------------------------------------------------------------
(* Everybody else.                                                         *)

\* A peer's first message names a key it was given: the decrypt transaction
\* loads it and removes it.
UseKey ==
  /\ txHolder = {}
  /\ \E g \in given :
       /\ store[g[1]] = g[2]
       /\ store' = [store EXCEPT ![g[1]] = 0]
       /\ used' = used \cup {<<g[1], g[2]>>}
  /\ UNCHANGED <<creds, saved, minted, txHolder, jobVars, wire, given, calls, crashes>>

\* The application's creds.update handler calls saveCreds.  Left out when no
\* crash can follow, since only a restart reads what was saved.
SaveCreds ==
  /\ saved # creds /\ crashes < MaxCrashes
  /\ saved' = creds
  /\ UNCHANGED <<creds, store, minted, txHolder, jobVars, worldVars>>

\* The process dies and starts again from the disk; the server keeps what it
\* has, and an upload on the wire is lost with the connection.
Crash ==
  /\ crashes < MaxCrashes
  /\ crashes' = crashes + 1
  /\ nextPreKeyId' = saved[1] /\ firstUnuploadedPreKeyId' = saved[2]
  /\ txHolder' = {} /\ wire' = <<>>
  /\ pc' = [j \in Jobs |-> IF j = Upload \/ pc[j] = "idle" THEN "idle" ELSE "done"]
  /\ UNCHANGED <<saved, store, minted, count, attempt, low, last, allocFrom, allocTo,
                 commitTo, staged, bundle, given, used, calls>>

-----------------------------------------------------------------------------
Step(j) == BeginTx(j) \/ Stage(j) \/ EmitAlloc(j) \/ CommitTx(j) \/ CommitTxFails(j)
ReceiptStep(r) == StartReceipt(r) \/ SendReceipt(r) \/ SendFails(r) \/ CommitReceipt(r)
UploadStep == UndoAlloc \/ SendQuery \/ QueryTimeout \/ CommitUpload \/ RetryUpload
Server == ServerAccepts \/ ServerRejects

Next ==
  \/ PreKeyLow \/ UploadIfRequired
  \/ \E j \in Jobs : Step(j)
  \/ \E r \in Receipts : ReceiptStep(r)
  \/ UploadStep \/ Server
  \/ UseKey \/ SaveCreds \/ Crash

Spec == Init /\ [][Next]_vars

\* Promises and timers settle: each step of a job that is due is taken.  The
\* server and the application are not fair.
Fairness ==
  /\ \A j \in Jobs : SF_vars(BeginTx(j))
  /\ \A j \in Jobs : WF_vars(Stage(j) \/ EmitAlloc(j) \/ CommitTx(j))
  /\ \A r \in Receipts : WF_vars(SendReceipt(r) \/ SendFails(r) \/ CommitReceipt(r))
  /\ WF_vars(UploadStep)

FairSpec == Spec /\ Fairness

-----------------------------------------------------------------------------
Labels == {"idle", "lock", "minted", "staged", "send", "sent", "commit", "undo",
           "query", "waiting", "accepted", "failed", "done"}
Pairs == [Ids -> Nat]

TypeStore ==
  /\ nextPreKeyId \in Nat /\ firstUnuploadedPreKeyId \in Nat
  /\ saved \in Nat \X Nat
  /\ store \in Pairs /\ minted \in Pairs

TypeJobs ==
  /\ txHolder \in SUBSET Jobs
  /\ pc \in [Jobs -> Labels]
  /\ count \in [Jobs -> Nat] /\ attempt \in [Jobs -> 0..MaxAttempts]
  /\ low \in [Jobs -> Nat] /\ last \in [Jobs -> Int] /\ allocFrom \in [Jobs -> Nat]
  /\ allocTo \in [Jobs -> Nat] /\ commitTo \in [Jobs -> Nat]
  /\ staged \in [Jobs -> Pairs] /\ bundle \in [Jobs -> Pairs]

TypeWorld ==
  /\ wire \in Seq(Pairs)
  /\ given \subseteq Ids \X Nat \X Jobs /\ used \subseteq Ids \X Nat
  /\ calls \in 0..MaxCalls /\ crashes \in 0..MaxCrashes

\* The type invariant.
TypeOK == TypeStore /\ TypeJobs /\ TypeWorld

\* The comment of getNextPreKeys: firstUnuploadedPreKeyId never skips past an
\* id the client holds a key for and that neither the server nor a peer
\* received, whatever fails, times out or crashes.
NoKeySkipped ==
  \A id \in Ids :
    id < firstUnuploadedPreKeyId /\ store[id] # 0 => \E g \in given : g[1] = id

InOpenTx(id, p) == \E j \in txHolder : staged[j][id] = p

\* A key that left the client can still decrypt the message that will name it:
\* it is in the store, or about to be committed, until it is used; and no two
\* retry receipts carry the same one, of which the second would be worthless
\* once the first peer has used it (sendRetryRequest commits its key before it
\* leaves the transaction).
KeysOutAreHeld ==
  /\ \A g \in given : \/ <<g[1], g[2]>> \in used
                      \/ store[g[1]] = g[2]
                      \/ InOpenTx(g[1], g[2])
  /\ \A g, h \in given :
       g[3] \in Receipts /\ h[3] \in Receipts /\ g[1] = h[1] /\ g[2] = h[2] => g = h

\* The creds.update clamp: no interleaving of two consumers moves a counter
\* backwards; only the compare-and-swap after a failed commit may.
CountersMonotone ==
  [][crashes' = crashes =>
       /\ firstUnuploadedPreKeyId' >= firstUnuploadedPreKeyId
       /\ nextPreKeyId' >= nextPreKeyId \/ pc[Upload] = "undo"]_vars

\* The dedupe promise of uploadPreKeys is always released, even by a server
\* that never answers, so a later pre-key-low notification can upload again.
UploadSettles == pc[Upload] # "idle" ~> pc[Upload] = "idle"
=============================================================================
