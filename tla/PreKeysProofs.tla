--------------------------- MODULE PreKeysProofs ---------------------------
(***************************************************************************)
(* Proofs about PreKeys, for all bounds, batches and numbers of receipts:   *)
(* its types, that counters do not go back, that no key is skipped, and     *)
(* that a key which is out is held.                                         *)
(***************************************************************************)
EXTENDS PreKeys, TLAPS

LEMMA WrittenPairs ==
  ASSUME TypeOK, NEW j \in Jobs, NEW ids
  PROVE  Written(j, ids) \in Pairs
BY DEF Written, TypeOK, TypeStore, TypeJobs, Pairs

\* Starting an upload keeps the types.
LEMMA StartUploadType ==
  ASSUME TypeOK, NEW c \in Nat, StartUpload(c)
  PROVE  TypeOK'
<1> USE PreKeysAssumption DEF PreKeysAssumption, TypeOK, StartUpload
<1>1. TypeStore'
  BY DEF TypeStore, creds
<1>2. TypeJobs'
  BY DEF TypeJobs, Goto, Labels, Jobs
<1>3. TypeWorld'
  BY DEF TypeWorld
<1> QED
  BY <1>1, <1>2, <1>3

\* The allocation steps of any job keep the types.
LEMMA StepType ==
  ASSUME TypeOK, NEW j \in Jobs, Step(j)
  PROVE  TypeOK'
<1> USE DEF TypeOK
<1>1. CASE BeginTx(j)
  <2>1. TypeStore' /\ TypeWorld'
    BY <1>1 DEF BeginTx, TypeStore, TypeWorld, creds, worldVars
  <2>2. TypeJobs'
    BY <1>1 DEF BeginTx, TypeStore, TypeJobs, Goto, Labels
  <2> QED
    BY <2>1, <2>2
<1>2. CASE Stage(j)
  <2> DEFINE fresh == allocFrom[j]..last[j]
             pairs == [id \in Ids |-> IF id \in fresh THEN minted[id] + 1 ELSE 0]
             range == low[j]..(low[j] + count[j] - 1)
             found == [id \in Ids |-> IF id \notin range THEN 0
                         ELSE IF id \in fresh THEN pairs[id] ELSE store[id]]
  <2>1. \A id \in Ids : minted[id] + 1 \in Nat /\ store[id] \in Nat
    BY DEF TypeStore, Pairs
  <2>2. pairs \in Pairs
    BY <2>1 DEF Pairs
  <2>3. found \in Pairs
    <3> HIDE DEF fresh, range, pairs
    <3> QED
      BY <2>1, <2>2 DEF Pairs
  <2>4. TypeStore'
    <3>1. minted' \in Pairs
      BY <1>2, <2>1 DEF Stage, TypeStore, Pairs
    <3> QED
      BY <1>2, <3>1 DEF Stage, TypeStore, creds
  <2>5. TypeJobs'
    <3>1. allocTo' \in [Jobs -> Nat] /\ commitTo' \in [Jobs -> Nat]
      <4>1. Larger(last[j] + 1, nextPreKeyId) \in Nat
        BY DEF TypeStore, TypeJobs, Larger
      <4>2. Larger(firstUnuploadedPreKeyId, last[j] + 1) \in Nat
        BY DEF TypeStore, TypeJobs, Larger
      <4> QED
        BY <1>2, <4>1, <4>2 DEF Stage, TypeJobs
    <3>2. staged' \in [Jobs -> Pairs] /\ bundle' \in [Jobs -> Pairs]
      <4>1. staged' = [staged EXCEPT ![j] = pairs] /\ bundle' = [bundle EXCEPT ![j] = found]
        BY <1>2 DEF Stage
      <4> QED
        BY <4>1, <2>2, <2>3 DEF TypeJobs
    <3>3. pc' \in [Jobs -> Labels] /\ txHolder' \in SUBSET Jobs
      BY <1>2 DEF Stage, TypeJobs, Goto, Release, Labels
    <3> QED
      BY <1>2, <3>1, <3>2, <3>3 DEF Stage, TypeJobs
  <2>6. TypeWorld'
    BY <1>2 DEF Stage, TypeWorld, worldVars
  <2> QED
    BY <2>4, <2>5, <2>6
<1>3. CASE EmitAlloc(j)
  <2>1. Larger(nextPreKeyId, allocTo[j]) \in Nat
    BY DEF Larger, TypeStore, TypeJobs
  <2>2. TypeStore' /\ TypeWorld'
    BY <1>3, <2>1 DEF EmitAlloc, TypeStore, TypeWorld, worldVars
  <2>3. TypeJobs'
    BY <1>3 DEF EmitAlloc, TypeJobs, Goto, Labels
  <2> QED
    BY <2>2, <2>3
<1>4. CASE CommitTx(j)
  <2>1. TypeStore' /\ TypeWorld'
    BY <1>4, WrittenPairs DEF CommitTx, TypeStore, TypeWorld, creds, worldVars
  <2>2. TypeJobs'
    BY <1>4 DEF CommitTx, TypeJobs, Goto, Release, Labels
  <2> QED
    BY <2>1, <2>2
<1>5. CASE CommitTxFails(j)
  <2>1. store' \in Pairs
    BY <1>5, WrittenPairs DEF CommitTxFails
  <2>2. TypeStore' /\ TypeWorld'
    BY <1>5, <2>1 DEF CommitTxFails, TypeStore, TypeWorld, creds, worldVars
  <2>3. TypeJobs'
    BY <1>5 DEF CommitTxFails, TypeJobs, Goto, Release, Labels
  <2> QED
    BY <2>2, <2>3
<1> QED
  BY <1>1, <1>2, <1>3, <1>4, <1>5 DEF Step

\* The steps of a retry receipt keep the types.
LEMMA ReceiptStepType ==
  ASSUME TypeOK, NEW r \in Receipts, ReceiptStep(r)
  PROVE  TypeOK'
<1> USE DEF TypeOK
<1> r \in Jobs
  BY DEF Jobs
<1>1. CASE StartReceipt(r)
  <2>1. TypeStore' /\ TypeWorld'
    BY <1>1 DEF StartReceipt, TypeStore, TypeWorld, creds, worldVars
  <2>2. TypeJobs'
    BY <1>1 DEF StartReceipt, TypeJobs, Goto, Labels
  <2> QED
    BY <2>1, <2>2
<1>2. CASE SendReceipt(r)
  <2>1. bundle[r] \in Pairs
    BY DEF TypeJobs
  <2>2. {<<id, bundle[r][id], r>> : id \in KeysOf(bundle[r])} \subseteq Ids \X Nat \X Jobs
    BY <2>1 DEF KeysOf, Pairs
  <2>3. TypeStore' /\ TypeWorld'
    BY <1>2, <2>2 DEF SendReceipt, TypeStore, TypeWorld, creds
  <2>4. TypeJobs'
    BY <1>2 DEF SendReceipt, TypeJobs, Goto, Labels
  <2> QED
    BY <2>3, <2>4
<1>3. CASE SendFails(r)
  <2>1. TypeStore' /\ TypeWorld'
    BY <1>3 DEF SendFails, TypeStore, TypeWorld, creds, worldVars
  <2>2. TypeJobs'
    BY <1>3 DEF SendFails, TypeJobs, Goto, Release, Labels
  <2> QED
    BY <2>1, <2>2
<1>4. CASE CommitReceipt(r)
  <2>1. Larger(firstUnuploadedPreKeyId, commitTo[r]) \in Nat
    BY DEF Larger, TypeStore, TypeJobs
  <2>2. TypeStore' /\ TypeWorld'
    BY <1>4, <2>1 DEF CommitReceipt, TypeStore, TypeWorld, worldVars
  <2>3. TypeJobs'
    BY <1>4 DEF CommitReceipt, TypeJobs, Goto, Labels
  <2> QED
    BY <2>2, <2>3
<1> QED
  BY <1>1, <1>2, <1>3, <1>4 DEF ReceiptStep

\* The steps of the upload outside its transaction keep the types.
LEMMA UploadStepType ==
  ASSUME TypeOK, UploadStep
  PROVE  TypeOK'
<1> USE DEF TypeOK
<1> Upload \in Jobs
  BY DEF Jobs
<1>1. CASE UndoAlloc
  <2>1. TypeStore' /\ TypeWorld'
    BY <1>1 DEF UndoAlloc, TypeStore, TypeJobs, TypeWorld, worldVars
  <2>2. TypeJobs'
    BY <1>1 DEF UndoAlloc, TypeJobs, Goto, Labels
  <2> QED
    BY <2>1, <2>2
<1>2. CASE SendQuery
  <2>1. wire' \in Seq(Pairs)
    BY <1>2 DEF SendQuery, TypeJobs, TypeWorld
  <2>2. TypeStore' /\ TypeWorld'
    BY <1>2, <2>1 DEF SendQuery, TypeStore, TypeWorld, creds
  <2>3. TypeJobs'
    BY <1>2 DEF SendQuery, TypeJobs, Goto, Labels
  <2> QED
    BY <2>2, <2>3
<1>3. CASE QueryTimeout
  <2>1. TypeStore' /\ TypeWorld'
    BY <1>3 DEF QueryTimeout, TypeStore, TypeWorld, creds, worldVars
  <2>2. TypeJobs'
    BY <1>3 DEF QueryTimeout, TypeJobs, Goto, Labels
  <2> QED
    BY <2>1, <2>2
<1>4. CASE CommitUpload
  <2>1. Larger(firstUnuploadedPreKeyId, commitTo[Upload]) \in Nat
    BY DEF Larger, TypeStore, TypeJobs
  <2>2. TypeStore' /\ TypeWorld'
    BY <1>4, <2>1 DEF CommitUpload, TypeStore, TypeWorld, worldVars
  <2>3. TypeJobs'
    BY <1>4 DEF CommitUpload, TypeJobs, Goto, Labels
  <2> QED
    BY <2>2, <2>3
<1>5. CASE RetryUpload
  <2>1. TypeStore' /\ TypeWorld'
    BY <1>5 DEF RetryUpload, TypeStore, TypeWorld, creds, worldVars
  <2>2. attempt' \in [Jobs -> 0..MaxAttempts]
    BY <1>5, PreKeysAssumption DEF RetryUpload, TypeJobs, PreKeysAssumption
  <2>3. TypeJobs'
    BY <1>5, <2>2 DEF RetryUpload, TypeJobs, Goto, Labels
  <2> QED
    BY <2>1, <2>3
<1> QED
  BY <1>1, <1>2, <1>3, <1>4, <1>5 DEF UploadStep

\* The steps of the server, the peers, the disk and a crash keep the types.
LEMMA WorldStepType ==
  ASSUME TypeOK, Server \/ UseKey \/ SaveCreds \/ Crash
  PROVE  TypeOK'
<1> USE DEF TypeOK
<1> Upload \in Jobs
  BY DEF Jobs
<1>1. CASE ServerAccepts
  <2>1. Head(wire) \in Pairs /\ Tail(wire) \in Seq(Pairs)
    BY <1>1 DEF ServerAccepts, TypeWorld
  <2>2. {<<id, Head(wire)[id], Upload>> : id \in KeysOf(Head(wire))} \subseteq Ids \X Nat \X Jobs
    BY <2>1 DEF KeysOf, Pairs
  <2>3. TypeStore' /\ TypeWorld'
    BY <1>1, <2>1, <2>2 DEF ServerAccepts, TypeStore, TypeWorld, creds
  <2>4. TypeJobs'
    BY <1>1 DEF ServerAccepts, Answer, TypeJobs, Goto, Labels
  <2> QED
    BY <2>3, <2>4
<1>2. CASE ServerRejects
  <2>1. Tail(wire) \in Seq(Pairs)
    BY <1>2 DEF ServerRejects, TypeWorld
  <2>2. TypeStore' /\ TypeWorld'
    BY <1>2, <2>1 DEF ServerRejects, TypeStore, TypeWorld, creds
  <2>3. TypeJobs'
    BY <1>2 DEF ServerRejects, Answer, TypeJobs, Goto, Labels
  <2> QED
    BY <2>2, <2>3
<1>3. CASE UseKey
  <2> PICK g \in given : /\ store' = [store EXCEPT ![g[1]] = 0]
                        /\ used' = used \cup {<<g[1], g[2]>>}
    BY <1>3 DEF UseKey
  <2>0. g[1] \in Ids /\ g[2] \in Nat
    BY DEF TypeWorld
  <2>1. store' \in Pairs
    BY <2>0 DEF TypeStore, Pairs
  <2>2. used' \subseteq Ids \X Nat
    BY <2>0 DEF TypeWorld
  <2>3. TypeStore' /\ TypeWorld'
    BY <1>3, <2>1, <2>2 DEF UseKey, TypeStore, TypeWorld, creds
  <2>4. TypeJobs'
    BY <1>3 DEF UseKey, TypeJobs, jobVars
  <2> QED
    BY <2>3, <2>4
<1>4. CASE SaveCreds
  BY <1>4 DEF SaveCreds, TypeStore, TypeJobs, TypeWorld, creds, jobVars, worldVars
<1>5. CASE Crash
  <2>1. TypeStore' /\ TypeWorld'
    BY <1>5, PreKeysAssumption DEF Crash, TypeStore, TypeWorld, PreKeysAssumption
  <2>2. TypeJobs'
    BY <1>5 DEF Crash, TypeJobs, Labels
  <2> QED
    BY <2>1, <2>2
<1> QED
  BY <1>1, <1>2, <1>3, <1>4, <1>5 DEF Server

LEMMA InitTypes == Init => TypeOK
<1> SUFFICES ASSUME Init PROVE TypeOK
  OBVIOUS
<1> USE PreKeysAssumption DEF PreKeysAssumption, Init, NoKeys, Pairs
<1>1. TypeStore
  BY DEF TypeStore, creds
<1>2. TypeJobs
  BY DEF TypeJobs, Labels
<1>3. TypeWorld
  BY DEF TypeWorld
<1> QED
  BY <1>1, <1>2, <1>3 DEF TypeOK

LEMMA NextTypes == TypeOK /\ [Next]_vars => TypeOK'
<1> SUFFICES ASSUME TypeOK, [Next]_vars PROVE TypeOK'
  OBVIOUS
<1>1. CASE PreKeyLow
  BY <1>1, StartUploadType, PreKeysAssumption DEF PreKeyLow, PreKeysAssumption
<1>2. CASE UploadIfRequired
  BY <1>2, StartUploadType, PreKeysAssumption DEF UploadIfRequired, PreKeysAssumption
<1>3. CASE UNCHANGED vars
  BY <1>3 DEF vars, creds, jobVars, worldVars, TypeOK, TypeStore, TypeJobs, TypeWorld
<1> QED
  BY <1>1, <1>2, <1>3, StepType, ReceiptStepType, UploadStepType, WorldStepType DEF Next

\* Type correctness of the pre-key machine, whatever the bounds, the batch
\* sizes, the number of receipts and the failures allowed.
THEOREM PreKeysTypeOK == Spec => []TypeOK
  BY InitTypes, NextTypes, PTL DEF Spec

Monotone == crashes' = crashes =>
  /\ firstUnuploadedPreKeyId' >= firstUnuploadedPreKeyId
  /\ nextPreKeyId' >= nextPreKeyId \/ pc[Upload] = "undo"

\* No step moves a counter of the credentials backwards: the creds.update
\* listener clamps both, and only the undo of a failed commit lowers one.
THEOREM PreKeysMonotone == Spec => CountersMonotone
<1>1. TypeOK /\ [Next]_vars => Monotone
  <2> SUFFICES ASSUME TypeOK, [Next]_vars, crashes' = crashes PROVE Monotone
    BY DEF Monotone
  <2> USE DEF TypeOK, TypeStore, Monotone
  <2>0. crashes \in Nat
    BY DEF TypeWorld
  <2>1. CASE UNCHANGED creds
    BY <2>1 DEF creds
  <2>2. ASSUME NEW j \in Jobs, EmitAlloc(j) PROVE Monotone
    BY <2>2 DEF EmitAlloc, Larger, TypeJobs
  <2>3. ASSUME NEW r \in Receipts, CommitReceipt(r) PROVE Monotone
    BY <2>3 DEF CommitReceipt, Larger, TypeJobs, Jobs
  <2>4. CASE CommitUpload
    BY <2>4 DEF CommitUpload, Larger, TypeJobs, Jobs
  <2>5. CASE UndoAlloc
    BY <2>5 DEF UndoAlloc
  <2>6. ~Crash
    BY <2>0 DEF Crash
  <2>7. ASSUME NEW j \in Jobs, Step(j), ~EmitAlloc(j) PROVE UNCHANGED creds
    BY <2>7 DEF Step, BeginTx, Stage, CommitTx, CommitTxFails, creds
  <2>8. ASSUME NEW r \in Receipts, ReceiptStep(r), ~CommitReceipt(r) PROVE UNCHANGED creds
    BY <2>8 DEF ReceiptStep, StartReceipt, SendReceipt, SendFails, creds
  <2>9. ASSUME UploadStep, ~CommitUpload, ~UndoAlloc PROVE UNCHANGED creds
    BY <2>9 DEF UploadStep, SendQuery, QueryTimeout, RetryUpload, creds
  <2>10. ASSUME PreKeyLow \/ UploadIfRequired \/ Server \/ UseKey \/ SaveCreds
         PROVE  UNCHANGED creds
    BY <2>10 DEF PreKeyLow, UploadIfRequired, StartUpload, Server, ServerAccepts,
                 ServerRejects, UseKey, SaveCreds, creds
  <2>11. CASE UNCHANGED vars
    BY <2>11, <2>1 DEF vars, creds
  <2> QED
    BY <2>1, <2>2, <2>3, <2>4, <2>5, <2>6, <2>7, <2>8, <2>9, <2>10, <2>11 DEF Next
<1>2. Monotone => [crashes' = crashes =>
         /\ firstUnuploadedPreKeyId' >= firstUnuploadedPreKeyId
         /\ nextPreKeyId' >= nextPreKeyId \/ pc[Upload] = "undo"]_vars
  BY DEF Monotone
<1> QED
  BY <1>1, <1>2, PreKeysTypeOK, PTL DEF Spec, CountersMonotone

-----------------------------------------------------------------------------
(* The mutex, and what the counters may have passed.                       *)

InTx == {"minted", "staged", "send", "sent", "commit"}
Staged == InTx \ {"minted"}

\* A job is in its transaction when it holds the mutex, which one job does.
Mutex ==
  /\ \A j \in Jobs : pc[j] \in InTx <=> j \in txHolder
  /\ \A i, j \in txHolder : i = j
  /\ \A r \in Receipts :
       pc[r] \notin {"undo", "query", "waiting", "accepted", "failed"} /\ count[r] = 1
  /\ pc[Upload] \notin {"send", "sent"}

\* The server or a peer has had a key with this id.
Out(id) == \E g \in given : g[1] = id

\* Ids that may be minted again although a counter is past them.
Gap(next, first) == \A id \in Ids : next <= id /\ id < first => Out(id)

Counters ==
  /\ NoKeySkipped
  /\ Gap(nextPreKeyId, firstUnuploadedPreKeyId) /\ Gap(saved[1], saved[2])
  /\ saved[2] <= firstUnuploadedPreKeyId

\* The range of a job in its transaction, or about to undo it.
RangeOf(j) ==
  /\ last[j] = low[j] + count[j] - 1 /\ low[j] <= firstUnuploadedPreKeyId
  /\ Gap(allocFrom[j], firstUnuploadedPreKeyId)
  /\ pc[j] \in Staged =>
       /\ \A id \in Ids : staged[j][id] # 0 => allocFrom[j] <= id
       /\ last[j] < allocTo[j] /\ last[j] < commitTo[j]
       /\ commitTo[j] <= firstUnuploadedPreKeyId \/ commitTo[j] = last[j] + 1

Ranges == \A j \in Jobs : pc[j] \in InTx \cup {"undo"} => RangeOf(j)

\* A receipt takes one key, which it has given when it commits.
Taken(r) ==
  /\ pc[r] \in {"staged", "send", "sent"} =>
       low[r] \in Ids /\ \A id \in Ids : bundle[r][id] # 0 <=> id = low[r]
  /\ pc[r] = "sent" => Out(low[r])

Takes == \A r \in Receipts : Taken(r)

\* What an upload does not carry of its range is not in the store, and nobody
\* mints it any more; what it carries is given when it is accepted.
Carried ==
  /\ pc[Upload] \in {"staged", "commit", "query", "waiting", "accepted"} =>
       \A id \in Ids : low[Upload] <= id /\ id <= last[Upload] /\ bundle[Upload][id] = 0 =>
                         store[id] = 0 /\ (pc[Upload] \in Staged => staged[Upload][id] = 0)
  /\ pc[Upload] \in {"commit", "query", "waiting", "accepted"} => last[Upload] < nextPreKeyId
  /\ pc[Upload] \in {"query", "waiting", "accepted"} =>
       /\ low[Upload] <= firstUnuploadedPreKeyId
       /\ commitTo[Upload] <= firstUnuploadedPreKeyId \/ commitTo[Upload] = last[Upload] + 1
       /\ \A r \in Receipts \cap txHolder : last[Upload] < allocFrom[r]
  /\ pc[Upload] = "waiting" => Len(wire) > 0 /\ wire[Len(wire)] = bundle[Upload]
  /\ pc[Upload] = "accepted" => \A id \in Ids : bundle[Upload][id] # 0 => Out(id)

Skips == Mutex /\ Counters /\ Ranges /\ Takes /\ Carried

\* What a step of another job leaves to a job.
SameJob(i) ==
  UNCHANGED <<pc[i], count[i], low[i], last[i], allocFrom[i], allocTo[i], commitTo[i],
              staged[i], bundle[i]>>

\* The ranges and the takings of the jobs, when one of them moves.
LEMMA OthersKeep ==
  ASSUME TypeOK, TypeOK', Skips, NEW j \in Jobs, \A i \in Jobs \ {j} : SameJob(i),
         given \subseteq given',
         pc'[j] \in InTx \cup {"undo"} => RangeOf(j)', j \in Receipts => Taken(j)',
         \/ UNCHANGED firstUnuploadedPreKeyId
         \/ /\ firstUnuploadedPreKeyId <= firstUnuploadedPreKeyId'
            /\ \A i \in Jobs \ {j} : pc[i] \in InTx \cup {"undo"}
                 => Gap(allocFrom[i], firstUnuploadedPreKeyId)'
  PROVE  Ranges' /\ Takes'
<1> USE DEF Skips
<1>1. ASSUME NEW i \in Jobs, pc'[i] \in InTx \cup {"undo"}, i # j PROVE RangeOf(i)'
  <2>1. SameJob(i) /\ pc[i] \in InTx \cup {"undo"}
    BY <1>1 DEF SameJob
  <2>2. RangeOf(i)
    BY <2>1 DEF Ranges
  <2>3. Gap(allocFrom[i], firstUnuploadedPreKeyId)'
    BY <1>1, <2>1, <2>2 DEF RangeOf, Gap, Out, SameJob
  <2>4. low[i] <= firstUnuploadedPreKeyId'
    BY <2>2 DEF RangeOf, TypeOK, TypeJobs, TypeStore
  <2>5. \A x \in Int : x <= firstUnuploadedPreKeyId => x <= firstUnuploadedPreKeyId'
    BY DEF TypeOK, TypeStore
  <2>6. commitTo[i] \in Int
    BY DEF TypeOK, TypeJobs
  <2> QED
    BY <2>1, <2>2, <2>3, <2>4, <2>5, <2>6 DEF SameJob, RangeOf
<1>2. ASSUME NEW i \in Receipts, i # j PROVE Taken(i)'
  <2>1. SameJob(i) /\ Taken(i)
    BY <1>2 DEF Takes, Jobs
  <2> QED
    BY <2>1 DEF SameJob, Taken, Out
<1> QED
  BY <1>1, <1>2 DEF Ranges, Takes

\* A step that leaves the counter and only mints from it on, or what is out.
LEMMA CountersKeep ==
  ASSUME TypeOK, TypeOK', Counters, given \subseteq given', UNCHANGED <<saved,
         firstUnuploadedPreKeyId>>,
         nextPreKeyId <= nextPreKeyId',
         \A id \in Ids : store'[id] # 0 /\ id < firstUnuploadedPreKeyId => store[id] # 0 \/ Out(id)
  PROVE  Counters'
<1>1. NoKeySkipped'
  BY DEF Counters, NoKeySkipped, Out
<1>2. Gap(nextPreKeyId, firstUnuploadedPreKeyId)' /\ Gap(saved[1], saved[2])'
  BY PreKeysAssumption DEF Counters, Gap, Out, TypeOK, TypeStore, Ids, PreKeysAssumption
<1> QED
  BY <1>1, <1>2 DEF Counters

\* The job that is in its transaction is the only one.
LEMMA Alone ==
  ASSUME TypeOK, Mutex, NEW j \in Jobs, pc[j] \in InTx
  PROVE  txHolder = {j} /\ \A i \in Jobs \ {j} : pc[i] \notin InTx
BY DEF Mutex, TypeOK, TypeJobs

\* A job moves within its transaction, outside of it, or leaves it.
LEMMA MutexMove ==
  ASSUME TypeOK, Mutex, NEW j \in Jobs, \A i \in Jobs \ {j} : SameJob(i),
         j \in Receipts => count'[j] = count[j]
           /\ pc'[j] \notin {"undo", "query", "waiting", "accepted", "failed"},
         j = Upload => pc'[j] \notin {"send", "sent"},
         \/ (pc'[j] \in InTx <=> pc[j] \in InTx) /\ UNCHANGED txHolder
         \/ pc[j] \in InTx /\ pc'[j] \notin InTx /\ txHolder' = {}
  PROVE  Mutex'
<1>1. CASE UNCHANGED txHolder
  BY <1>1, Alone DEF Mutex, SameJob, Jobs
<1>2. CASE pc[j] \in InTx /\ pc'[j] \notin InTx /\ txHolder' = {}
  BY <1>2, Alone DEF Mutex, SameJob, Jobs
<1> QED BY <1>1, <1>2

\* The last element stays last while others are taken.
LEMMA TailLast ==
  ASSUME NEW S, NEW s \in Seq(S), Len(s) # 1, Len(s) > 0
  PROVE  Len(Tail(s)) > 0 /\ Tail(s)[Len(Tail(s))] = s[Len(s)]
<1> DEFINE n == Len(s)
<1>0. n \in Nat
  OBVIOUS
<1>1. n - 1 \in 1..(n - 1) /\ (n - 1) + 1 = n
  <2> HIDE DEF n
  <2>1. n # 1 /\ n > 0
    BY DEF n
  <2> QED BY <1>0, <2>1
<1>2. Len(Tail(s)) = Len(s) - 1
  BY <1>1
<1>3. Tail(s)[Len(s) - 1] = s[(Len(s) - 1) + 1]
  BY <1>1
<1> QED BY <1>1, <1>2, <1>3

\* A job that is not in its transaction any more moves; keys and counters stay.
LEMMA AsideSkips ==
  ASSUME TypeOK, TypeOK', Skips, NEW j \in Jobs, \A i \in Jobs \ {j} : SameJob(i),
         pc'[j] \notin InTx \cup {"undo"},
         j \in Receipts => count'[j] = count[j] /\ pc'[j] \in {"idle", "lock", "done"},
         txHolder' = IF pc[j] \in InTx THEN {} ELSE txHolder,
         UNCHANGED <<creds, saved, store, given>>, Carried'
  PROVE  Skips'
<1>1. Mutex'
  <2>1. j \in Receipts => pc'[j] \notin {"undo", "query", "waiting", "accepted", "failed"}
    OBVIOUS
  <2>2. j = Upload => pc'[j] \notin {"send", "sent"}
    BY DEF InTx
  <2>3. \/ (pc'[j] \in InTx <=> pc[j] \in InTx) /\ UNCHANGED txHolder
        \/ pc[j] \in InTx /\ pc'[j] \notin InTx /\ txHolder' = {}
    OBVIOUS
  <2> QED BY <2>1, <2>2, <2>3, MutexMove DEF Skips
<1>2. Counters'
  BY DEF creds, Skips, Counters, NoKeySkipped, Gap, Out
<1>3. Ranges' /\ Takes'
  <2>1. j \in Receipts => Taken(j)'
    BY DEF Taken
  <2> QED BY <2>1, OthersKeep DEF creds
<1> QED BY <1>1, <1>2, <1>3 DEF Skips

\* One lemma per action, or for a few alike.
LEMMA StartSkips ==
  ASSUME TypeOK, TypeOK', Skips,
         (\E c \in Nat : StartUpload(c)) \/ (\E r \in Receipts : StartReceipt(r) \/ SendFails(r))
  PROVE  Skips'
<1> USE DEF Goto, creds
<1>1. ASSUME NEW c \in Nat, StartUpload(c) PROVE Skips'
  <2>1. Upload \in Jobs /\ Upload \notin Receipts /\ \A i \in Jobs \ {Upload} : SameJob(i)
    BY <1>1, PreKeysAssumption DEF StartUpload, SameJob, Jobs, TypeOK, TypeJobs, PreKeysAssumption
  <2>2. pc[Upload] = "idle" /\ pc'[Upload] = "lock"
    BY <1>1, <2>1 DEF StartUpload, TypeOK, TypeJobs
  <2>3. Carried'
    BY <2>2 DEF Carried
  <2> QED BY <1>1, <2>1, <2>2, <2>3, AsideSkips DEF StartUpload, InTx
<1>2. ASSUME NEW r \in Receipts, StartReceipt(r) \/ SendFails(r) PROVE Skips'
  <2>1. r \in Jobs /\ r # Upload /\ \A i \in Jobs \ {r} : SameJob(i)
    BY <1>2, PreKeysAssumption
       DEF StartReceipt, SendFails, worldVars, SameJob, Jobs, TypeOK, TypeJobs, PreKeysAssumption
  <2>2. /\ pc'[r] \in {"lock", "done"} /\ count'[r] = count[r]
        /\ txHolder' = IF pc[r] \in InTx THEN {} ELSE txHolder
    BY <1>2, <2>1 DEF StartReceipt, SendFails, Release, InTx, TypeOK, TypeJobs
  <2>3. Carried'
    <3>1. UNCHANGED pc[Upload] /\ txHolder' \subseteq txHolder
      BY <2>1, <2>2 DEF SameJob, Jobs
    <3> QED BY <1>2, <3>1 DEF StartReceipt, SendFails, worldVars, Skips, Carried, Out
  <2> QED BY <1>2, <2>1, <2>2, <2>3, AsideSkips DEF StartReceipt, SendFails, worldVars, InTx
<1> QED BY <1>1, <1>2

LEMMA QuerySkips ==
  ASSUME TypeOK, TypeOK', Skips, SendQuery \/ QueryTimeout \/ RetryUpload
  PROVE  Skips'
<1> USE DEF Goto, creds, worldVars
<1>1. Upload \in Jobs /\ Upload \notin Receipts /\ \A i \in Jobs \ {Upload} : SameJob(i)
  BY PreKeysAssumption
     DEF SendQuery, QueryTimeout, RetryUpload, SameJob, Jobs, TypeOK, TypeJobs, PreKeysAssumption
<1>2. /\ SendQuery => pc[Upload] = "query" /\ pc'[Upload] = "waiting"
      /\ ~SendQuery => pc[Upload] \in {"waiting", "failed"}
           /\ pc'[Upload] \in {"failed", "lock", "idle"}
  BY <1>1 DEF SendQuery, QueryTimeout, RetryUpload, TypeOK, TypeJobs
<1>3. Carried'
  <2>1. CASE SendQuery
    <3>1. Len(wire') > 0 /\ wire'[Len(wire')] = bundle[Upload]
      BY <1>1, <2>1 DEF SendQuery, TypeOK, TypeWorld, TypeJobs
    <3> QED BY <1>2, <2>1, <3>1 DEF SendQuery, Skips, Carried, Staged, InTx
  <2>2. CASE ~SendQuery
    BY <1>2, <2>2 DEF Carried
  <2> QED BY <2>1, <2>2
<1> QED BY <1>1, <1>2, <1>3, AsideSkips DEF SendQuery, QueryTimeout, RetryUpload, InTx

LEMMA ServerRejectsSkips ==
  ASSUME TypeOK, TypeOK', Skips, ServerRejects
  PROVE  Skips'
<1> USE DEF Skips, ServerRejects, Answer, Goto, Release, worldVars, jobVars, creds
<1>1. Upload \in Jobs /\ \A i \in Jobs \ {Upload} : SameJob(i)
  BY DEF SameJob, Jobs, TypeOK, TypeJobs
<1>2. given \subseteq given'
  OBVIOUS
<1>0. /\ pc'[Upload] = pc[Upload] \/ (Len(wire) = 1 /\ pc[Upload] = "waiting"
           /\ pc'[Upload] = "failed")
      /\ pc[Upload] = "waiting" /\ Len(wire) = 1 => pc'[Upload] = "failed"
  BY <1>1 DEF TypeOK, TypeJobs
<1>3. Mutex'
  BY <1>1, <1>0, MutexMove, PreKeysAssumption DEF PreKeysAssumption, Mutex, InTx, Jobs, TypeOK,
      TypeJobs
<1>4. Counters'
  <2>1. nextPreKeyId <= nextPreKeyId'
    BY DEF TypeOK, TypeStore
  <2> QED BY <1>2, <2>1, CountersKeep
<1>5. pc'[Upload] \in InTx \cup {"undo"} => RangeOf(Upload)'
  BY <1>0, <1>1 DEF Ranges, RangeOf, Gap, Out, InTx, Staged
<1>7. Ranges' /\ Takes'
  BY <1>1, <1>2, <1>5, OthersKeep, PreKeysAssumption DEF PreKeysAssumption
<1>8. Carried'
  <2>1. ASSUME pc'[Upload] = "waiting" PROVE Len(wire') > 0 /\ wire'[Len(wire')] = bundle[Upload]
    <3>1. pc[Upload] = "waiting" /\ Len(wire) # 1 /\ Len(wire) > 0
            /\ wire[Len(wire)] = bundle[Upload]
      BY <1>0, <2>1 DEF Carried
    <3>2. wire \in Seq(Pairs) /\ wire' = Tail(wire)
      BY DEF TypeOK, TypeWorld
    <3> QED BY <3>1, <3>2, TailLast
  <2> QED BY <1>0, <2>1 DEF Carried, Out, Staged, InTx
<1> QED BY <1>3, <1>4, <1>7, <1>8

LEMMA ServerAcceptsSkips ==
  ASSUME TypeOK, TypeOK', Skips, ServerAccepts
  PROVE  Skips'
<1> USE DEF Skips, ServerAccepts, Answer, KeysOf, Goto, Release, worldVars, jobVars, creds
<1>1. Upload \in Jobs /\ \A i \in Jobs \ {Upload} : SameJob(i)
  BY DEF SameJob, Jobs, TypeOK, TypeJobs
<1>2. given \subseteq given'
  OBVIOUS
<1>0. /\ pc'[Upload] = pc[Upload] \/ (Len(wire) = 1 /\ pc[Upload] = "waiting"
           /\ pc'[Upload] = "accepted")
      /\ pc[Upload] = "waiting" /\ Len(wire) = 1 => pc'[Upload] = "accepted"
  BY <1>1 DEF TypeOK, TypeJobs
<1>3. Mutex'
  BY <1>1, <1>0, MutexMove, PreKeysAssumption DEF PreKeysAssumption, Mutex, InTx, Jobs, TypeOK,
      TypeJobs
<1>4. Counters'
  <2>1. nextPreKeyId <= nextPreKeyId'
    BY DEF TypeOK, TypeStore
  <2> QED BY <1>2, <2>1, CountersKeep
<1>5. pc'[Upload] \in InTx \cup {"undo"} => RangeOf(Upload)'
  BY <1>0, <1>1 DEF Ranges, RangeOf, Gap, Out, InTx, Staged
<1>7. Ranges' /\ Takes'
  BY <1>1, <1>2, <1>5, OthersKeep, PreKeysAssumption DEF PreKeysAssumption
<1>8. Carried'
  <2>1. wire \in Seq(Pairs) /\ wire' = Tail(wire)
    BY DEF TypeOK, TypeWorld
  <2>2. ASSUME pc'[Upload] = "waiting" PROVE Len(wire') > 0 /\ wire'[Len(wire')] = bundle[Upload]
    <3>1. pc[Upload] = "waiting" /\ Len(wire) # 1 /\ Len(wire) > 0
            /\ wire[Len(wire)] = bundle[Upload]
      BY <1>0, <2>2 DEF Carried
    <3> QED BY <2>1, <3>1, TailLast
  <2>3. ASSUME pc'[Upload] = "accepted", NEW id \in Ids, bundle[Upload][id] # 0 PROVE Out(id)'
    <3>1. CASE pc[Upload] = "accepted"
      BY <1>2, <2>3, <3>1 DEF Carried, Out
    <3>2. CASE pc[Upload] # "accepted"
      <4>1. Head(wire) = bundle[Upload]
        BY <1>0, <2>1, <2>3, <3>2 DEF Carried
      <4>2. <<id, Head(wire)[id], Upload>> \in given'
        BY <2>3, <4>1
      <4> QED BY <4>2 DEF Out
    <3> QED BY <3>1, <3>2
  <2> QED BY <1>0, <2>2, <2>3 DEF Carried, Staged, InTx
<1> QED BY <1>3, <1>4, <1>7, <1>8

LEMMA BeginTxSkips ==
  ASSUME TypeOK, TypeOK', Skips, NEW j \in Jobs, BeginTx(j)
  PROVE  Skips'
<1> USE DEF Skips, BeginTx, Goto, Release, worldVars, jobVars, creds
<1>1. j \in Jobs /\ \A i \in Jobs \ {j} : SameJob(i)
  BY DEF SameJob, Jobs, TypeOK, TypeJobs
<1>2. given \subseteq given'
  OBVIOUS
<1>0. pc[j] = "lock" /\ txHolder = {} /\ pc'[j] = "minted" /\ txHolder' = {j}
  BY DEF TypeOK, TypeJobs
<1>3. Mutex'
  BY <1>0, <1>1 DEF Mutex, SameJob, Jobs, InTx
<1>4. Counters'
  <2>1. nextPreKeyId <= nextPreKeyId'
    BY DEF TypeOK, TypeStore
  <2> QED BY <1>2, <2>1, CountersKeep
<1>5. pc'[j] \in InTx \cup {"undo"} => RangeOf(j)'
  <2>1. /\ low'[j] = firstUnuploadedPreKeyId /\ allocFrom'[j] = nextPreKeyId /\ count'[j] = count[j]
        /\ last'[j] = nextPreKeyId + (count[j] - (nextPreKeyId - firstUnuploadedPreKeyId)) - 1
    BY DEF TypeOK, TypeJobs
  <2>2. last'[j] = low'[j] + count'[j] - 1 /\ low'[j] <= firstUnuploadedPreKeyId'
    BY <2>1 DEF TypeOK, TypeStore, TypeJobs
  <2> QED
    BY <1>0, <2>1, <2>2 DEF RangeOf, Counters, Gap, Out, Staged
<1>6. j \in Receipts => Taken(j)'
  BY <1>0 DEF Mutex, Ranges, RangeOf, Takes, Taken, Out, TypeOK, TypeStore, TypeJobs, TypeWorld,
      Pairs, Jobs, InTx, Staged
<1>7. Ranges' /\ Takes'
  BY <1>1, <1>2, <1>5, <1>6, OthersKeep
<1>8. Carried'
  <2>1. j = Upload \/ UNCHANGED <<pc[Upload], last[Upload], low[Upload]>>
    BY <1>1 DEF SameJob, Jobs
  <2>2. \A r \in Receipts : r \in txHolder' => allocFrom'[r] = nextPreKeyId
    BY <1>0 DEF TypeOK, TypeJobs
  <2>3. CASE j = Upload
    BY <1>0, <2>3 DEF Carried
  <2>4. CASE j # Upload
    <3>1. pc'[Upload] \in {"query", "waiting", "accepted"} =>
             \A r \in Receipts \cap txHolder' : last[Upload] < allocFrom'[r]
      BY <2>1, <2>2, <2>4 DEF Carried
    <3> QED BY <2>1, <2>4, <3>1 DEF Carried, Out
  <2> QED BY <2>3, <2>4
<1> QED BY <1>3, <1>4, <1>7, <1>8

LEMMA EmitAllocSkips ==
  ASSUME TypeOK, TypeOK', Skips, NEW j \in Jobs, EmitAlloc(j)
  PROVE  Skips'
<1> USE DEF Skips, EmitAlloc, Larger, Goto, Release, worldVars, jobVars, creds
<1>1. j \in Jobs /\ \A i \in Jobs \ {j} : SameJob(i)
  BY DEF SameJob, Jobs, TypeOK, TypeJobs
<1>2. given \subseteq given'
  OBVIOUS
<1>0. /\ pc[j] = "staged" /\ pc'[j] = (IF j = Upload THEN "commit" ELSE "send")
           /\ UNCHANGED txHolder
      /\ allocTo[j] <= nextPreKeyId' /\ nextPreKeyId <= nextPreKeyId'
  BY <1>1 DEF TypeOK, TypeJobs, TypeStore
<1>3. Mutex'
  BY <1>1, <1>0, MutexMove, PreKeysAssumption DEF PreKeysAssumption, Mutex, InTx, Jobs, TypeOK,
      TypeJobs
<1>4. Counters'
  BY <1>0, <1>2, CountersKeep
<1>5. RangeOf(j)'
  BY <1>0, <1>1 DEF Ranges, RangeOf, Gap, Out, InTx, Staged
<1>6. j \in Receipts => Taken(j)'
  BY <1>0 DEF Takes, Taken, Out
<1>7. Ranges' /\ Takes'
  BY <1>1, <1>2, <1>5, <1>6, OthersKeep
<1>8. Carried'
  <2>1. j = Upload \/ UNCHANGED pc[Upload]
    BY <1>1 DEF SameJob, Jobs
  <2>2. j = Upload => last[Upload] < nextPreKeyId'
    <3>1. last[j] < allocTo[j]
      BY <1>0 DEF Ranges, RangeOf, InTx, Staged
    <3> QED BY <1>0, <3>1 DEF TypeOK, TypeJobs, TypeStore
  <2>3. CASE j = Upload
    BY <1>0, <2>2, <2>3 DEF Carried, Staged, InTx
  <2>4. CASE j # Upload
    BY <1>0, <2>1, <2>4 DEF Carried, Out, TypeOK, TypeJobs, TypeStore, Jobs
  <2> QED BY <2>3, <2>4
<1> QED BY <1>3, <1>4, <1>7, <1>8

LEMMA SendReceiptSkips ==
  ASSUME TypeOK, TypeOK', Skips, NEW j \in Receipts, SendReceipt(j)
  PROVE  Skips'
<1> USE DEF Skips, SendReceipt, KeysOf, Goto, Release, worldVars, jobVars, creds
<1>1. j \in Jobs /\ \A i \in Jobs \ {j} : SameJob(i)
  BY DEF SameJob, Jobs, TypeOK, TypeJobs
<1>2. given \subseteq given'
  OBVIOUS
<1>0. pc[j] = "send" /\ pc'[j] = "sent" /\ UNCHANGED txHolder
  BY <1>1 DEF TypeOK, TypeJobs
<1>3. Mutex'
  BY <1>1, <1>0, MutexMove, PreKeysAssumption DEF PreKeysAssumption, Mutex, InTx, Jobs, TypeOK,
      TypeJobs
<1>4. Counters'
  <2>1. nextPreKeyId <= nextPreKeyId'
    BY DEF TypeOK, TypeStore
  <2> QED BY <1>2, <2>1, CountersKeep
<1>5. RangeOf(j)'
  BY <1>0, <1>1 DEF Ranges, RangeOf, Gap, Out, InTx, Staged
<1>6. Taken(j)'
  <2>1. low[j] \in Ids /\ \A id \in Ids : bundle[j][id] # 0 <=> id = low[j]
    BY <1>0 DEF Takes, Taken
  <2>2. <<low[j], bundle[j][low[j]], j>> \in given'
    BY <2>1
  <2> QED BY <1>0, <2>1, <2>2 DEF Taken, Out
<1>7. Ranges' /\ Takes'
  BY <1>1, <1>2, <1>5, <1>6, OthersKeep
<1>8. Carried'
  <2>1. UNCHANGED pc[Upload]
    BY <1>1, PreKeysAssumption DEF SameJob, Jobs, PreKeysAssumption
  <2> QED BY <2>1 DEF Carried, Out
<1> QED BY <1>3, <1>4, <1>7, <1>8

LEMMA UndoAllocSkips ==
  ASSUME TypeOK, TypeOK', Skips, UndoAlloc
  PROVE  Skips'
<1> USE DEF Skips, UndoAlloc, Goto, Release, worldVars, jobVars, creds
<1>1. Upload \in Jobs /\ \A i \in Jobs \ {Upload} : SameJob(i)
  BY DEF SameJob, Jobs, TypeOK, TypeJobs
<1>2. given \subseteq given'
  OBVIOUS
<1>0. pc[Upload] = "undo" /\ pc'[Upload] = "idle" /\ UNCHANGED txHolder
  BY <1>1 DEF TypeOK, TypeJobs
<1>3. Mutex'
  BY <1>1, <1>0, MutexMove, PreKeysAssumption DEF PreKeysAssumption, Mutex, InTx, Jobs, TypeOK,
      TypeJobs
<1>4. Counters'
  <2>1. Gap(allocFrom[Upload], firstUnuploadedPreKeyId)
    BY <1>0, <1>1 DEF Ranges, RangeOf
  <2> QED BY <2>1 DEF Counters, NoKeySkipped, Gap, Out
<1>7. Ranges' /\ Takes'
  BY <1>0, <1>1, <1>2, OthersKeep, PreKeysAssumption DEF InTx, PreKeysAssumption
<1>8. Carried'
  BY <1>0 DEF Carried, Staged, InTx
<1> QED BY <1>3, <1>4, <1>7, <1>8

LEMMA UseKeySkips ==
  ASSUME TypeOK, TypeOK', Skips, UseKey
  PROVE  Skips'
<1> USE DEF Skips, Goto, Release, worldVars, jobVars, creds
<1>1. /\ UNCHANGED <<creds, saved, minted, txHolder, jobVars, wire, given>>
      /\ \A id \in Ids : store[id] = 0 => store'[id] = 0
  BY DEF UseKey, TypeOK, TypeStore, TypeWorld, Pairs
<1>2. Mutex' /\ Takes'
  BY <1>1 DEF Mutex, Takes, Taken, Out
<1>3. Counters'
  BY <1>1 DEF Counters, NoKeySkipped, Gap, Out
<1>4. Ranges'
  BY <1>1 DEF Ranges, RangeOf, Gap, Out
<1>5. Carried'
  BY <1>1 DEF Carried, Out
<1> QED BY <1>2, <1>3, <1>4, <1>5

LEMMA SaveCredsSkips ==
  ASSUME TypeOK, TypeOK', Skips, SaveCreds
  PROVE  Skips'
<1> USE DEF Skips, SaveCreds, worldVars, jobVars, creds
<1>1. Counters'
  BY DEF Counters, NoKeySkipped, Gap, Out, TypeOK, TypeStore
<1>2. Ranges'
  BY DEF Ranges, RangeOf, Gap, Out
<1> QED BY <1>1, <1>2 DEF Mutex, Takes, Taken, Carried, Out

LEMMA CrashSkips ==
  ASSUME TypeOK, TypeOK', Skips, Crash
  PROVE  Skips'
<1> USE DEF Skips, Crash
<1>1. \A j \in Jobs : pc'[j] \in {"idle", "done"}
  OBVIOUS
<1>2. Mutex'
  BY <1>1, PreKeysAssumption DEF Mutex, InTx, Jobs, PreKeysAssumption
<1>3. Counters'
  <2>1. NoKeySkipped'
    <3>1. \A id \in Ids : id < saved[2] => id < firstUnuploadedPreKeyId
      BY DEF Counters, TypeOK, TypeStore, Ids
    <3> QED BY <3>1 DEF Counters, NoKeySkipped
  <2> QED BY <2>1 DEF Counters, Gap, Out, TypeOK, TypeStore
<1>4. Ranges' /\ Takes' /\ Carried'
  BY <1>1 DEF Ranges, Takes, Taken, Carried, InTx, Staged, Jobs
<1> QED BY <1>2, <1>3, <1>4

\* A commit, whole or in part, writes ids that are at the counter or out, and
\* none that an upload has found missing.
LEMMA WrittenSkips ==
  ASSUME TypeOK, Skips, NEW j \in Jobs, pc[j] = "commit", NEW ids, store' = Written(j, ids)
  PROVE  /\ \A id \in Ids : store'[id] # 0 /\ id < firstUnuploadedPreKeyId
              => store[id] # 0 \/ Out(id)
         /\ j = Upload \/ pc[Upload] \in {"query", "waiting", "accepted"} =>
              \A id \in Ids : low[Upload] <= id /\ id <= last[Upload] /\ bundle[Upload][id] = 0
                => store'[id] = 0
<1> USE DEF Skips
<1>1. \A id \in Ids : store'[id] = store[id] \/ (store'[id] = staged[j][id] /\ staged[j][id] # 0)
  BY DEF Written
<1>2. \A id \in Ids : staged[j][id] # 0 => allocFrom[j] <= id
  BY DEF Ranges, RangeOf, InTx, Staged
<1>3. ASSUME NEW id \in Ids, store'[id] # 0, id < firstUnuploadedPreKeyId, store[id] = 0
      PROVE  Out(id)
  BY <1>1, <1>2, <1>3 DEF Ranges, RangeOf, InTx, Gap
<1>4. ASSUME j = Upload \/ pc[Upload] \in {"query", "waiting", "accepted"},
             NEW id \in Ids, low[Upload] <= id, id <= last[Upload], bundle[Upload][id] = 0
      PROVE  store'[id] = 0
  <2>1. store[id] = 0
    BY <1>4 DEF Carried
  <2>2. CASE j = Upload
    BY <1>1, <1>4, <2>1, <2>2 DEF Carried, Staged, InTx
  <2>3. CASE j # Upload
    <3>1. j \in Receipts \cap txHolder
      BY <2>3 DEF Mutex, InTx, Jobs
    <3>2. last[Upload] < allocFrom[j]
      BY <1>4, <2>3, <3>1 DEF Carried
    <3>3. ~(allocFrom[j] <= id)
      BY <1>4, <3>2, PreKeysAssumption DEF TypeOK, TypeJobs, Jobs, Ids, PreKeysAssumption
    <3> QED BY <1>1, <1>2, <2>1, <3>3
  <2> QED BY <2>2, <2>3
<1> QED BY <1>3, <1>4

LEMMA CommitTxSkips ==
  ASSUME TypeOK, TypeOK', Skips, NEW j \in Jobs, CommitTx(j)
  PROVE  Skips'
<1> USE DEF Skips, CommitTx, Goto, Release, worldVars, jobVars, creds
<1>1. j \in Jobs /\ \A i \in Jobs \ {j} : SameJob(i)
  BY DEF SameJob, Jobs, TypeOK, TypeJobs
<1>2. given \subseteq given'
  OBVIOUS
<1>0. /\ pc[j] = "commit" /\ txHolder' = {} /\ \E ids : store' = Written(j, ids)
      /\ pc'[j] = IF j = Upload THEN "query" ELSE "done"
  BY <1>1 DEF TypeOK, TypeJobs
<1>3. Mutex'
  BY <1>1, <1>0, MutexMove, PreKeysAssumption DEF PreKeysAssumption, Mutex, InTx, Jobs, TypeOK,
      TypeJobs
<1>4. Counters'
  <2>1. nextPreKeyId <= nextPreKeyId'
    BY DEF TypeOK, TypeStore
  <2> QED BY <1>0, <1>2, <2>1, WrittenSkips, CountersKeep
<1>5. pc'[j] \in InTx \cup {"undo"} => RangeOf(j)'
  BY <1>0, <1>1 DEF Ranges, RangeOf, Gap, Out, InTx, Staged
<1>6. j \in Receipts => Taken(j)'
  BY <1>0, PreKeysAssumption DEF Taken, PreKeysAssumption
<1>7. Ranges' /\ Takes'
  BY <1>1, <1>2, <1>5, <1>6, OthersKeep
<1>8. Carried'
  <2>1. CASE j = Upload
    BY <1>0, <2>1, WrittenSkips DEF Carried, Ranges, RangeOf, InTx, Staged
  <2>2. CASE j # Upload
    <3>1. UNCHANGED pc[Upload] /\ pc[Upload] \notin InTx
      BY <1>0, <1>1, <2>2, Alone, PreKeysAssumption DEF SameJob, Jobs, InTx, PreKeysAssumption
    <3> QED BY <1>0, <2>2, <3>1, WrittenSkips DEF Carried, Out, InTx, Staged
  <2> QED BY <2>1, <2>2
<1> QED BY <1>3, <1>4, <1>7, <1>8

LEMMA CommitTxFailsSkips ==
  ASSUME TypeOK, TypeOK', Skips, NEW j \in Jobs, CommitTxFails(j)
  PROVE  Skips'
<1> USE DEF Skips, CommitTxFails, KeysOf, Goto, Release, worldVars, jobVars, creds
<1>1. j \in Jobs /\ \A i \in Jobs \ {j} : SameJob(i)
  BY DEF SameJob, Jobs, TypeOK, TypeJobs
<1>2. given \subseteq given'
  OBVIOUS
<1>0. /\ pc[j] = "commit" /\ txHolder' = {} /\ \E ids : store' = Written(j, ids)
      /\ pc'[j] = IF j = Upload THEN "undo" ELSE "done"
  BY <1>1 DEF TypeOK, TypeJobs
<1>3. Mutex'
  BY <1>1, <1>0, MutexMove, PreKeysAssumption DEF PreKeysAssumption, Mutex, InTx, Jobs, TypeOK,
      TypeJobs
<1>4. Counters'
  <2>1. nextPreKeyId <= nextPreKeyId'
    BY DEF TypeOK, TypeStore
  <2> QED BY <1>0, <1>2, <2>1, WrittenSkips, CountersKeep
<1>5. pc'[j] \in InTx \cup {"undo"} => RangeOf(j)'
  BY <1>0, <1>1 DEF Ranges, RangeOf, Gap, Out, InTx, Staged
<1>6. j \in Receipts => Taken(j)'
  BY <1>0, PreKeysAssumption DEF Taken, PreKeysAssumption
<1>7. Ranges' /\ Takes'
  BY <1>1, <1>2, <1>5, <1>6, OthersKeep
<1>8. Carried'
  <2>1. CASE j = Upload
    BY <1>0, <2>1, WrittenSkips DEF Carried, Ranges, RangeOf, InTx, Staged
  <2>2. CASE j # Upload
    <3>1. UNCHANGED pc[Upload] /\ pc[Upload] \notin InTx
      BY <1>0, <1>1, <2>2, Alone, PreKeysAssumption DEF SameJob, Jobs, InTx, PreKeysAssumption
    <3> QED BY <1>0, <2>2, <3>1, WrittenSkips DEF Carried, Out, InTx, Staged
  <2> QED BY <2>1, <2>2
<1> QED BY <1>3, <1>4, <1>7, <1>8

LEMMA CommitUploadSkips ==
  ASSUME TypeOK, TypeOK', Skips, CommitUpload
  PROVE  Skips'
<1> USE DEF Skips, CommitUpload, Goto, Release, worldVars, jobVars, creds
<1>1. Upload \in Jobs /\ \A i \in Jobs \ {Upload} : SameJob(i)
  BY DEF SameJob, Jobs, TypeOK, TypeJobs
<1>2. given \subseteq given'
  OBVIOUS
<1>0. pc[Upload] = "accepted" /\ pc'[Upload] = "idle" /\ UNCHANGED txHolder
  BY <1>1 DEF TypeOK, TypeJobs
<1>3. Mutex'
  BY <1>1, <1>0, MutexMove, PreKeysAssumption DEF PreKeysAssumption, Mutex, InTx, Jobs, TypeOK,
      TypeJobs
<1>4. /\ firstUnuploadedPreKeyId <= firstUnuploadedPreKeyId'
      /\ firstUnuploadedPreKeyId' = firstUnuploadedPreKeyId \/ firstUnuploadedPreKeyId' = last[Upload] + 1
      /\ low[Upload] <= firstUnuploadedPreKeyId /\ last[Upload] < nextPreKeyId
  BY <1>0, <1>1 DEF Larger, Carried, TypeOK, TypeStore, TypeJobs
<1>5. ASSUME NEW id \in Ids, firstUnuploadedPreKeyId <= id, id < firstUnuploadedPreKeyId'
      PROVE  low[Upload] <= id /\ id <= last[Upload]
  BY <1>1, <1>4, <1>5 DEF TypeOK, TypeStore, TypeJobs, Ids
<1>6. Counters'
  <2>1. NoKeySkipped'
    <3> SUFFICES ASSUME NEW id \in Ids, id < firstUnuploadedPreKeyId', store[id] # 0 PROVE Out(id)
      BY DEF NoKeySkipped, Out
    <3>1. CASE id < firstUnuploadedPreKeyId
      BY <3>1 DEF Counters, NoKeySkipped, Out
    <3>2. CASE firstUnuploadedPreKeyId <= id
      BY <1>0, <1>5, <3>2 DEF Carried
    <3> QED BY <3>1, <3>2 DEF TypeOK, TypeStore, Ids
  <2>2. Gap(nextPreKeyId, firstUnuploadedPreKeyId)'
    BY <1>1, <1>4 DEF Counters, Gap, Out, TypeOK, TypeStore, TypeJobs, Ids
  <2>3. saved[2] <= firstUnuploadedPreKeyId'
    BY <1>4 DEF Counters, TypeOK, TypeStore
  <2> QED BY <2>1, <2>2, <2>3 DEF Counters, Gap, Out
<1>7. Ranges' /\ Takes'
  <2>1. ASSUME NEW i \in Jobs \ {Upload}, pc[i] \in InTx \cup {"undo"}
        PROVE  Gap(allocFrom[i], firstUnuploadedPreKeyId)'
    <3>1. i \in Receipts \cap txHolder
      BY <2>1 DEF Mutex, Jobs
    <3>2. last[Upload] < allocFrom[i]
      BY <1>0, <3>1 DEF Carried
    <3>3. Gap(allocFrom[i], firstUnuploadedPreKeyId)
      BY <2>1 DEF Ranges, RangeOf
    <3> QED BY <1>1, <1>4, <3>2, <3>3 DEF Gap, Out, TypeOK, TypeStore, TypeJobs, Ids
  <2> QED BY <1>0, <1>1, <1>2, <1>4, <2>1, OthersKeep, PreKeysAssumption DEF InTx, PreKeysAssumption
<1>8. Carried'
  BY <1>0 DEF Carried, Staged, InTx
<1> QED BY <1>3, <1>6, <1>7, <1>8

LEMMA CommitReceiptSkips ==
  ASSUME TypeOK, TypeOK', Skips, NEW j \in Receipts, CommitReceipt(j)
  PROVE  Skips'
<1> USE DEF Skips, CommitReceipt, Goto, Release, worldVars, jobVars, creds
<1>1. j \in Jobs /\ \A i \in Jobs \ {j} : SameJob(i)
  BY DEF SameJob, Jobs, TypeOK, TypeJobs
<1>2. given \subseteq given'
  OBVIOUS
<1>0. pc[j] = "sent" /\ pc'[j] = "commit" /\ UNCHANGED txHolder
  BY <1>1 DEF TypeOK, TypeJobs
<1>3. Mutex'
  BY <1>1, <1>0, MutexMove, PreKeysAssumption DEF PreKeysAssumption, Mutex, InTx, Jobs, TypeOK,
      TypeJobs
<1>4. /\ firstUnuploadedPreKeyId <= firstUnuploadedPreKeyId' /\ Out(low[j])
      /\ firstUnuploadedPreKeyId' = firstUnuploadedPreKeyId \/ firstUnuploadedPreKeyId' = low[j] + 1
      /\ low[j] <= firstUnuploadedPreKeyId
  <2>1. RangeOf(j) /\ Taken(j) /\ count[j] = 1
    BY <1>0, <1>1 DEF Ranges, Takes, Mutex, InTx
  <2>2. last[j] = low[j]
    BY <1>1, <2>1 DEF RangeOf, TypeOK, TypeJobs
  <2> QED BY <1>0, <1>1, <2>1, <2>2 DEF Larger, RangeOf, Taken, Staged, InTx, TypeOK, TypeStore,
      TypeJobs
<1>5. \A id \in Ids : id < firstUnuploadedPreKeyId' => id < firstUnuploadedPreKeyId \/ Out(id)
  BY <1>1, <1>4 DEF TypeOK, TypeStore, TypeJobs, Ids
<1>6. Counters'
  <2>1. NoKeySkipped' /\ Gap(nextPreKeyId, firstUnuploadedPreKeyId)'
    BY <1>5 DEF Counters, NoKeySkipped, Gap, Out
  <2>2. saved[2] <= firstUnuploadedPreKeyId'
    BY <1>4 DEF Counters, TypeOK, TypeStore
  <2> QED BY <2>1, <2>2 DEF Counters, Gap, Out
<1>7. Ranges' /\ Takes'
  <2>1. ASSUME NEW i \in Jobs, pc[i] \in InTx \cup {"undo"}
        PROVE  Gap(allocFrom[i], firstUnuploadedPreKeyId)'
    BY <1>5, <2>1 DEF Ranges, RangeOf, Gap, Out
  <2>2. RangeOf(j)'
    <3>1. RangeOf(j)
      BY <1>0, <1>1 DEF Ranges, InTx
    <3>2. commitTo[j] <= firstUnuploadedPreKeyId'
      BY <1>1 DEF Larger, TypeOK, TypeStore, TypeJobs
    <3>3. low[j] <= firstUnuploadedPreKeyId'
      BY <1>1, <1>4 DEF TypeOK, TypeStore, TypeJobs
    <3> QED BY <1>0, <1>1, <2>1, <3>1, <3>2, <3>3 DEF RangeOf, Staged, InTx
  <2>3. Taken(j)'
    BY <1>0 DEF Taken
  <2> QED BY <1>0, <1>1, <1>2, <1>4, <2>1, <2>2, <2>3, OthersKeep
<1>8. Carried'
  <2>1. UNCHANGED pc[Upload]
    BY <1>1, PreKeysAssumption DEF SameJob, Jobs, PreKeysAssumption
  <2>2. low[Upload] <= firstUnuploadedPreKeyId => low[Upload] <= firstUnuploadedPreKeyId'
    BY <1>4 DEF TypeOK, TypeStore, TypeJobs, Jobs
  <2>3. commitTo[Upload] <= firstUnuploadedPreKeyId => commitTo[Upload] <= firstUnuploadedPreKeyId'
    BY <1>4 DEF TypeOK, TypeStore, TypeJobs, Jobs
  <2> QED BY <2>1, <2>2, <2>3 DEF Carried, Out
<1> QED BY <1>3, <1>6, <1>7, <1>8

LEMMA StageSkips ==
  ASSUME TypeOK, TypeOK', Skips, NEW j \in Jobs, Stage(j)
  PROVE  Skips'
<1> USE DEF Skips, Goto, Release, worldVars, jobVars, creds
<1> DEFINE fresh == allocFrom[j]..last[j]
           found == [id \in Ids |-> IF id \notin low[j]..(low[j] + count[j] - 1) THEN 0
                                    ELSE IF id \in fresh THEN minted[id] + 1 ELSE store[id]]
<1>a. /\ UNCHANGED <<creds, saved, store, wire, given, low[j], last[j], count[j], allocFrom[j]>>
      /\ allocTo'[j] = Larger(last[j] + 1, nextPreKeyId)
      /\ commitTo'[j] = Larger(firstUnuploadedPreKeyId, last[j] + 1)
      /\ staged'[j] = [id \in Ids |-> IF id \in fresh THEN minted[id] + 1 ELSE 0]
  BY DEF Stage, TypeOK, TypeJobs
<1>b. bundle'[j] = found
  BY DEF Stage, TypeOK, TypeJobs
<1>c. /\ pc[j] = "minted"
      /\ IF j # Upload /\ KeysOf(found) = {}
         THEN pc' = [pc EXCEPT ![j] = "done"] /\ txHolder' = {}
         ELSE pc' = [pc EXCEPT ![j] = "staged"] /\ UNCHANGED txHolder
  <2>1. \A id \in Ids : id \in fresh => [i \in Ids |-> IF i \in fresh THEN minted[i] + 1 ELSE 0][id] = minted[id] + 1
    OBVIOUS
  <2>2. found = [id \in Ids |-> IF id \notin low[j]..(low[j] + count[j] - 1) THEN 0
                 ELSE IF id \in fresh THEN [i \in Ids |-> IF i \in fresh THEN minted[i] + 1 ELSE 0][id]
                 ELSE store[id]]
    BY <2>1
  <2> HIDE DEF found
  <2> QED BY <2>2 DEF Stage
<1>d. /\ pc'[j] \in {"staged", "done"} /\ (j = Upload => pc'[j] = "staged")
      /\ pc'[j] = "staged" /\ j \in Receipts => KeysOf(found) # {}
      /\ IF pc'[j] = "staged" THEN UNCHANGED txHolder ELSE txHolder' = {}
  <2> HIDE DEF found
  <2> QED BY <1>c, PreKeysAssumption DEF TypeOK, TypeJobs, PreKeysAssumption
<1>1. j \in Jobs /\ \A i \in Jobs \ {j} : SameJob(i)
  BY DEF Stage, SameJob, TypeOK, TypeJobs
<1>2. given \subseteq given'
  BY <1>a, <1>b, <1>c, <1>d
<1> HIDE DEF fresh, found
<1>3. Mutex'
  BY <1>1, <1>a, <1>b, <1>c, <1>d, MutexMove, PreKeysAssumption DEF PreKeysAssumption, Mutex,
      InTx, Jobs, TypeOK, TypeJobs
<1>4. Counters'
  BY <1>a, <1>b, <1>c, <1>d DEF Counters, NoKeySkipped, Gap, Out
<1>5. pc'[j] \in InTx \cup {"undo"} => RangeOf(j)'
  <2>1. RangeOf(j)
    BY <1>a, <1>b, <1>c, <1>d DEF Ranges, InTx
  <2>2. last[j] < allocTo'[j] /\ last[j] < commitTo'[j]
        /\ (commitTo'[j] <= firstUnuploadedPreKeyId \/ commitTo'[j] = last[j] + 1)
    BY <1>a, <1>b, <1>c, <1>d DEF Larger, TypeOK, TypeStore, TypeJobs
  <2>3. \A id \in Ids : staged'[j][id] # 0 => allocFrom[j] <= id
    BY <1>a, <1>b, <1>c, <1>d DEF fresh, TypeOK, TypeJobs, Ids
  <2> QED BY <1>a, <1>b, <1>c, <1>d, <2>1, <2>2, <2>3 DEF RangeOf, Gap, Out
<1>6. j \in Receipts => Taken(j)'
  <2> SUFFICES ASSUME j \in Receipts, pc'[j] = "staged"
               PROVE  low[j] \in Ids /\ \A id \in Ids : found[id] # 0 <=> id = low[j]
    BY <1>a, <1>b, <1>c, <1>d DEF Taken
  <2>1. count[j] = 1 /\ \E id \in Ids : found[id] # 0
    BY <1>a, <1>b, <1>c, <1>d DEF Mutex, KeysOf
  <2>2. \A id \in Ids : found[id] # 0 => id = low[j]
    BY <2>1 DEF found, TypeOK, TypeJobs, Ids
  <2> QED BY <2>1, <2>2
<1>7. Ranges' /\ Takes'
  BY <1>a, <1>b, <1>c, <1>d, <1>1, <1>2, <1>5, <1>6, OthersKeep
<1>8. Carried'
  <2>1. CASE j = Upload
    <3>1. ASSUME NEW id \in Ids, low[j] <= id, id <= last[j], found[id] = 0
          PROVE  store[id] = 0 /\ id \notin fresh
      <4>1. id \in low[j]..(low[j] + count[j] - 1)
        BY <1>a, <1>b, <1>c, <1>d, <3>1 DEF Ranges, RangeOf, InTx, TypeOK, TypeJobs, Ids
      <4>2. minted[id] \in Nat
        BY DEF TypeOK, TypeStore, Pairs
      <4> QED BY <3>1, <4>1, <4>2 DEF found
    <3> QED BY <1>a, <1>b, <1>c, <1>d, <2>1, <3>1 DEF Carried, Staged, InTx
  <2>2. CASE j # Upload
    <3>1. SameJob(Upload)
      BY <1>1, <2>2 DEF Jobs
    <3>2. \A r \in Receipts \cap txHolder' : r \in txHolder /\ allocFrom'[r] = allocFrom[r]
      BY <1>a, <1>b, <1>c, <1>d, <1>1 DEF SameJob, Jobs
    <3> QED BY <1>a, <1>b, <1>c, <1>d, <3>1, <3>2 DEF Carried, SameJob, Out
  <2> QED BY <2>1, <2>2
<1> QED BY <1>3, <1>4, <1>7, <1>8

LEMMA InitSkips == Init => Skips
<1> SUFFICES ASSUME Init PROVE Skips
  OBVIOUS
<1> USE DEF Init, Skips
<1>1. Mutex
  BY PreKeysAssumption DEF Mutex, InTx, Jobs, PreKeysAssumption
<1>2. Counters
  BY DEF Counters, NoKeySkipped, Gap, NoKeys, Ids, creds
<1>3. Ranges /\ Takes /\ Carried
  BY DEF Ranges, Takes, Taken, Carried, InTx, Staged, Jobs
<1> QED BY <1>1, <1>2, <1>3

LEMMA NextSkips == TypeOK /\ TypeOK' /\ Skips /\ [Next]_vars => Skips'
<1> SUFFICES ASSUME TypeOK, TypeOK', Skips, [Next]_vars PROVE Skips'
  OBVIOUS
<1>1. CASE PreKeyLow
  BY <1>1, StartSkips, PreKeysAssumption DEF PreKeyLow, PreKeysAssumption
<1>2. CASE UploadIfRequired
  BY <1>2, StartSkips, PreKeysAssumption DEF UploadIfRequired, PreKeysAssumption
<1>3. CASE \E j \in Jobs : Step(j)
  BY <1>3, BeginTxSkips, StageSkips, EmitAllocSkips, CommitTxSkips, CommitTxFailsSkips DEF Step
<1>4. CASE \E r \in Receipts : ReceiptStep(r)
  BY <1>4, StartSkips, SendReceiptSkips, CommitReceiptSkips DEF ReceiptStep
<1>5. CASE UploadStep
  BY <1>5, UndoAllocSkips, QuerySkips, CommitUploadSkips DEF UploadStep
<1>6. CASE Server \/ UseKey \/ SaveCreds \/ Crash
  BY <1>6, ServerAcceptsSkips, ServerRejectsSkips, UseKeySkips, SaveCredsSkips, CrashSkips
      DEF Server
<1>7. CASE UNCHANGED vars
  BY <1>7 DEF vars, creds, jobVars, worldVars, Skips, Mutex, Counters, NoKeySkipped, Gap, Out,
      Ranges, RangeOf,
              Takes, Taken, Carried
<1> QED BY <1>1, <1>2, <1>3, <1>4, <1>5, <1>6, <1>7 DEF Next

\* No failed or undone allocation, upload that is answered late, restart with
\* old credentials or retry receipt in between makes firstUnuploadedPreKeyId
\* pass a key that nobody has: the comment of getNextPreKeys holds for any
\* batch sizes and any number of receipts, failures and crashes.
THEOREM PreKeysNoKeySkipped == Spec => []NoKeySkipped
<1>1. Skips => NoKeySkipped
  BY DEF Skips, Counters
<1> QED BY <1>1, InitTypes, NextTypes, InitSkips, NextSkips, PTL DEF Spec

-----------------------------------------------------------------------------
(* Keys that left the client, while no process dies and no commit gives up. *)

Loses == Crash \/ \E j \in Jobs : CommitTxFails(j)

Kept(id, p) == <<id, p>> \in used \/ store[id] = p

\* The ids of the store are below the counter, and what a job stages is not.
Minting ==
  /\ pc[Upload] # "undo"
  /\ \A id \in Ids : store[id] # 0 => id < nextPreKeyId
  /\ \A j \in txHolder :
       /\ pc[j] = "minted" => allocFrom[j] = nextPreKeyId
       /\ \A id \in Ids : store[id] # 0 => id < allocFrom[j]
       /\ pc[j] \in Staged => \A id \in Ids : staged[j][id] # 0 => allocFrom[j] <= id
            /\ id < allocTo[j]
       /\ pc[j] \in {"send", "sent", "commit"} => allocTo[j] <= nextPreKeyId

\* A pair on its way out is kept, or about to be committed.
Leaving ==
  /\ \A g \in given : g[2] # 0 /\ (\/ Kept(g[1], g[2])
                                   \/ /\ g[3] \in Receipts /\ pc[g[3]] \in {"sent", "commit"}
                                      /\ staged[g[3]][g[1]] = g[2])
  /\ \A i \in 1..Len(wire) : \A id \in Ids : wire[i][id] # 0 => Kept(id, wire[i][id])
  /\ pc[Upload] = "query" => \A id \in Ids : bundle[Upload][id] # 0 => Kept(id, bundle[Upload][id])
  /\ \A j \in txHolder : pc[j] \in Staged =>
       \A id \in Ids : bundle[j][id] # 0 => Kept(id, bundle[j][id]) \/ staged[j][id] = bundle[j][id]

\* A receipt gives the key at the counter, and others have moved it past theirs.
GivenOnce ==
  /\ \A r \in txHolder \cap Receipts : \A g \in given : g[3] \in Receipts \ {r} => g[1] < low[r]
  /\ \A g \in given : g[3] \in Receipts =>
       /\ pc[g[3]] \in {"sent", "commit", "done"} /\ g[1] = low[g[3]]
       /\ pc[g[3]] # "sent" => g[1] < firstUnuploadedPreKeyId
  /\ \A g, h \in given :
       g[3] \in Receipts /\ h[3] \in Receipts /\ g[1] = h[1] /\ g[2] = h[2] => g = h

KeptOut == Minting /\ Leaving /\ GivenOnce

\* The elements that are left.
LEMMA TailElements ==
  ASSUME NEW S, NEW s \in Seq(S), s # <<>>
  PROVE  \A i \in 1..Len(Tail(s)) : i + 1 \in 1..Len(s) /\ Tail(s)[i] = s[i + 1]
OBVIOUS

\* A job that is not in its transaction moves, and no key does.
LEMMA QuietKeeps ==
  ASSUME TypeOK, TypeOK', Mutex, KeptOut, NEW j \in Jobs, \A i \in Jobs \ {j} : SameJob(i),
         pc'[j] \notin InTx \cup {"query", "undo"}, j \in Receipts
           => pc[j] \notin {"sent", "commit", "done"},
         txHolder' \subseteq txHolder, Mutex', UNCHANGED <<nextPreKeyId, store, given, used>>,
         firstUnuploadedPreKeyId <= firstUnuploadedPreKeyId',
         wire' = wire \/ (wire # <<>> /\ wire' = Tail(wire))
  PROVE  KeptOut'
<1>1. \A i \in txHolder' : i \in Jobs /\ i # j
  BY DEF Mutex, TypeOK, TypeJobs
<1>2. \A g \in given : g[3] \in Receipts => g[3] # j /\ g[3] \in Jobs
  BY DEF KeptOut, GivenOnce, Jobs
<1>3. Minting'
  BY <1>1 DEF KeptOut, Minting, SameJob, Jobs
<1>4. Leaving'
  <2>1. \A i \in 1..Len(wire') : \A id \in Ids : wire'[i][id] # 0 => Kept(id, wire'[i][id])
    <3>1. CASE wire' = wire
      BY <3>1 DEF KeptOut, Leaving
    <3>2. CASE wire # <<>> /\ wire' = Tail(wire)
      BY <3>2, TailElements DEF KeptOut, Leaving, TypeOK, TypeWorld
    <3> QED BY <3>1, <3>2
  <2>2. pc'[Upload] = "query" => pc[Upload] = "query" /\ UNCHANGED bundle[Upload]
    BY DEF SameJob, Jobs
  <2>3. \A g \in given : g[3] \in Receipts => UNCHANGED <<pc[g[3]], staged[g[3]]>>
    BY <1>2 DEF SameJob
  <2>4. \A i \in txHolder' : i \in txHolder /\ UNCHANGED <<pc[i], staged[i], bundle[i]>>
    BY <1>1 DEF SameJob
  <2> QED BY <2>1, <2>2, <2>3, <2>4 DEF KeptOut, Leaving, Kept
<1>5. GivenOnce'
  <2>1. \A g \in given : g[3] \in Receipts => UNCHANGED <<pc[g[3]], low[g[3]]>>
    BY <1>2 DEF SameJob
  <2>2. \A r \in txHolder' \cap Receipts : r \in txHolder /\ UNCHANGED low[r]
    BY <1>1 DEF SameJob
  <2>3. \A g \in given : g[1] < firstUnuploadedPreKeyId => g[1] < firstUnuploadedPreKeyId'
    BY DEF TypeOK, TypeStore, TypeWorld, Ids
  <2> QED BY <2>1, <2>2, <2>3 DEF KeptOut, GivenOnce
<1> QED BY <1>3, <1>4, <1>5 DEF KeptOut

\* One lemma per action that loses nothing, or for a few alike.
LEMMA QuietHeld ==
  ASSUME TypeOK, TypeOK', Skips, Skips', KeptOut,
         \/ \E c \in Nat : StartUpload(c)
         \/ \E r \in Receipts : StartReceipt(r) \/ SendFails(r)
         \/ QueryTimeout \/ CommitUpload \/ RetryUpload
  PROVE  KeptOut'
<1> USE PreKeysAssumption DEF Goto, Release, creds, worldVars, PreKeysAssumption
<1>1. CASE (\E c \in Nat : StartUpload(c)) \/ QueryTimeout \/ CommitUpload \/ RetryUpload
  <2>1. Upload \in Jobs /\ Upload \notin Receipts /\ \A i \in Jobs \ {Upload} : SameJob(i)
    BY <1>1 DEF StartUpload, QueryTimeout, CommitUpload, RetryUpload, SameJob, Jobs, TypeOK, TypeJobs
  <2>2. pc'[Upload] \in {"lock", "failed", "idle"}
          /\ firstUnuploadedPreKeyId <= firstUnuploadedPreKeyId'
    BY <1>1, <2>1 DEF StartUpload, QueryTimeout, CommitUpload, RetryUpload, Larger, TypeOK, TypeStore, TypeJobs
  <2> QED
    BY <1>1, <2>1, <2>2, QuietKeeps
       DEF StartUpload, QueryTimeout, CommitUpload, RetryUpload, InTx, Skips
<1>2. ASSUME NEW r \in Receipts, StartReceipt(r) \/ SendFails(r) PROVE KeptOut'
  <2>1. r \in Jobs /\ \A i \in Jobs \ {r} : SameJob(i)
    BY <1>2 DEF StartReceipt, SendFails, SameJob, Jobs, TypeOK, TypeJobs
  <2>2. /\ pc[r] \in {"idle", "send"} /\ pc'[r] \in {"lock", "done"}
        /\ firstUnuploadedPreKeyId <= firstUnuploadedPreKeyId' /\ txHolder' \subseteq txHolder
    BY <1>2, <2>1 DEF StartReceipt, SendFails, TypeOK, TypeStore, TypeJobs
  <2> QED
    BY <1>2, <2>1, <2>2, QuietKeeps DEF StartReceipt, SendFails, InTx, Skips
<1> QED BY <1>1, <1>2

LEMMA ServerRejectsHeld ==
  ASSUME TypeOK, TypeOK', Skips, Skips', KeptOut, ServerRejects
  PROVE  KeptOut'
<1> USE DEF ServerRejects, Answer, Goto, Release, worldVars, jobVars, creds
<1>1. Upload \in Jobs /\ \A i \in Jobs \ {Upload} : SameJob(i)
  BY DEF SameJob, Jobs, TypeOK, TypeJobs
<1>2. CASE Len(wire) = 1 /\ pc[Upload] = "waiting"
  <2>1. pc'[Upload] = "failed" /\ firstUnuploadedPreKeyId <= firstUnuploadedPreKeyId'
          /\ Upload \notin Receipts
    BY <1>1, <1>2, PreKeysAssumption DEF TypeOK, TypeStore, TypeJobs, PreKeysAssumption
  <2> QED BY <1>1, <2>1, QuietKeeps DEF InTx, Skips
<1>3. CASE ~(Len(wire) = 1 /\ pc[Upload] = "waiting")
  BY <1>1, <1>3, TailElements DEF KeptOut, Minting, Leaving, GivenOnce, Kept, TypeOK, TypeWorld
<1> QED BY <1>2, <1>3

LEMMA BeginTxHeld ==
  ASSUME TypeOK, TypeOK', Skips, Skips', KeptOut, NEW j \in Jobs, BeginTx(j)
  PROVE  KeptOut'
<1> USE DEF BeginTx, Goto, Release, worldVars, jobVars, creds
<1>1. j \in Jobs /\ \A i \in Jobs \ {j} : SameJob(i)
  BY DEF SameJob, Jobs, TypeOK, TypeJobs
<1>0. /\ pc[j] = "lock" /\ pc'[j] = "minted" /\ txHolder = {} /\ txHolder' = {j}
      /\ low'[j] = firstUnuploadedPreKeyId /\ allocFrom'[j] = nextPreKeyId
  BY DEF TypeOK, TypeJobs
<1>2. \A g \in given : g[3] \in Receipts => g[3] # j /\ SameJob(g[3])
  BY <1>0, <1>1 DEF KeptOut, GivenOnce, Jobs
<1>6. pc'[Upload] \in {"undo", "query"} => pc[Upload] = pc'[Upload] /\ UNCHANGED bundle[Upload]
  BY <1>0, <1>1 DEF SameJob, Jobs
<1>3. Minting'
  BY <1>0, <1>6 DEF KeptOut, Minting, Staged
<1>4. Leaving'
  BY <1>0, <1>2, <1>6 DEF KeptOut, Leaving, Kept, SameJob, Staged
<1>5. GivenOnce'
  <2>1. \A g \in given : g[3] \in Receipts => pc[g[3]] = "done" /\ g[1] < firstUnuploadedPreKeyId
    BY <1>0 DEF KeptOut, GivenOnce, Skips, Mutex, InTx, Jobs
  <2> QED BY <1>0, <1>2, <2>1 DEF KeptOut, GivenOnce, SameJob
<1> QED BY <1>3, <1>4, <1>5 DEF KeptOut

LEMMA StageHeld ==
  ASSUME TypeOK, TypeOK', Skips, Skips', KeptOut, NEW j \in Jobs, Stage(j)
  PROVE  KeptOut'
<1> USE DEF Goto, Release, worldVars, jobVars, creds
<1> DEFINE fresh == allocFrom[j]..last[j]
           found == [id \in Ids |-> IF id \notin low[j]..(low[j] + count[j] - 1) THEN 0
                                    ELSE IF id \in fresh THEN minted[id] + 1 ELSE store[id]]
<1>0. /\ pc[j] = "minted" /\ j \in Jobs /\ txHolder' \subseteq txHolder
      /\ pc'[j] \in {"staged", "done"} /\ (j \in txHolder' => pc'[j] = "staged")
      /\ UNCHANGED <<creds, store, wire, given, used, allocFrom[j]>>
      /\ staged'[j] = [id \in Ids |-> IF id \in fresh THEN minted[id] + 1 ELSE 0]
      /\ bundle'[j] = found
  BY DEF Stage, TypeOK, TypeJobs, Jobs
<1>1. \A i \in Jobs \ {j} : SameJob(i)
  BY DEF Stage, SameJob, TypeOK, TypeJobs
<1> HIDE DEF fresh, found
<1>2. \A g \in given : g[3] \in Receipts => g[3] # j /\ SameJob(g[3])
  BY <1>0, <1>1 DEF KeptOut, GivenOnce, Jobs
<1>6. pc'[Upload] \in {"undo", "query"} => pc[Upload] = pc'[Upload] /\ UNCHANGED bundle[Upload]
  BY <1>0, <1>1 DEF SameJob, Jobs
<1>7. txHolder' \subseteq {j}
  BY <1>0, Alone DEF Skips, InTx
<1>3. Minting'
  <2>1. ASSUME j \in txHolder', NEW id \in Ids, staged'[j][id] # 0
        PROVE  allocFrom[j] <= id /\ id < allocTo'[j]
    <3>1. id \in fresh
      BY <1>0, <2>1
    <3>2. last'[j] < allocTo'[j] /\ last'[j] = last[j]
      BY <1>0, <2>1 DEF Stage, Skips, Ranges, RangeOf, InTx, Staged, TypeOK, TypeJobs
    <3> QED BY <1>0, <3>1, <3>2 DEF fresh, TypeOK, TypeJobs, Ids
  <2> QED BY <1>0, <1>6, <1>7, <2>1 DEF KeptOut, Minting
<1>4. Leaving'
  <2>1. ASSUME NEW id \in Ids
        PROVE  found[id] = 0 \/ store[id] = found[id] \/ staged'[j][id] = found[id]
    BY <1>0 DEF found
  <2> QED BY <1>0, <1>2, <1>6, <1>7, <2>1 DEF KeptOut, Leaving, Kept, SameJob
<1>5. GivenOnce'
  <2>1. low'[j] = low[j]
    BY DEF Stage
  <2> QED BY <1>0, <1>2, <1>7, <2>1 DEF KeptOut, GivenOnce, SameJob
<1> QED BY <1>3, <1>4, <1>5 DEF KeptOut

LEMMA EmitAllocHeld ==
  ASSUME TypeOK, TypeOK', Skips, Skips', KeptOut, NEW j \in Jobs, EmitAlloc(j)
  PROVE  KeptOut'
<1> USE DEF EmitAlloc, Larger, Goto, Release, worldVars, jobVars, creds
<1>1. j \in Jobs /\ \A i \in Jobs \ {j} : SameJob(i)
  BY DEF SameJob, Jobs, TypeOK, TypeJobs
<1>0. /\ pc[j] = "staged" /\ pc'[j] \in {"send", "commit"} /\ UNCHANGED txHolder
      /\ allocTo[j] <= nextPreKeyId' /\ nextPreKeyId <= nextPreKeyId'
  BY <1>1 DEF TypeOK, TypeJobs, TypeStore
<1>2. \A g \in given : g[3] \in Receipts => g[3] # j /\ SameJob(g[3])
  BY <1>0, <1>1 DEF KeptOut, GivenOnce, Jobs
<1>6. pc'[Upload] \in {"undo", "query"} => pc[Upload] = pc'[Upload] /\ UNCHANGED bundle[Upload]
  BY <1>0, <1>1 DEF SameJob, Jobs
<1>7. txHolder = {j}
  BY <1>0, Alone DEF Skips, InTx
<1>3. Minting'
  <2>1. \A id \in Ids : id < nextPreKeyId => id < nextPreKeyId'
    BY <1>0 DEF TypeOK, TypeStore, Ids
  <2> QED BY <1>0, <1>6, <1>7, <2>1 DEF KeptOut, Minting, Staged, InTx
<1>4. Leaving'
  BY <1>0, <1>2, <1>6, <1>7 DEF KeptOut, Leaving, Kept, SameJob, Staged, InTx
<1>5. GivenOnce'
  BY <1>0, <1>2, <1>7 DEF KeptOut, GivenOnce, SameJob
<1> QED BY <1>3, <1>4, <1>5 DEF KeptOut

LEMMA SendReceiptHeld ==
  ASSUME TypeOK, TypeOK', Skips, Skips', KeptOut, NEW j \in Receipts, SendReceipt(j)
  PROVE  KeptOut'
<1> USE DEF SendReceipt, KeysOf, Goto, Release, worldVars, jobVars, creds
<1>1. j \in Jobs /\ \A i \in Jobs \ {j} : SameJob(i)
  BY DEF SameJob, Jobs, TypeOK, TypeJobs
<1>0. pc[j] = "send" /\ pc'[j] = "sent" /\ UNCHANGED txHolder
  BY <1>1 DEF TypeOK, TypeJobs
<1>2. \A g \in given : g[3] \in Receipts => g[3] # j /\ SameJob(g[3])
  BY <1>0, <1>1 DEF KeptOut, GivenOnce, Jobs
<1>6. UNCHANGED pc[Upload]
  BY <1>1, PreKeysAssumption DEF SameJob, Jobs, PreKeysAssumption
<1>7. txHolder = {j}
  BY <1>0, <1>1, Alone DEF Skips, InTx
<1>8. \A g \in given' \ given : g[3] = j /\ g[1] \in Ids /\ g[1] = low[j]
        /\ g[2] = bundle[j][g[1]] /\ g[2] # 0
                                /\ g = <<low[j], bundle[j][low[j]], j>>
  BY <1>0 DEF Skips, Takes, Taken
<1>3. Minting'
  BY <1>0, <1>6, <1>7 DEF KeptOut, Minting, Staged, InTx
<1>4. Leaving'
  <2>1. \A g \in given : g[2] # 0 /\ (Kept(g[1], g[2])' \/ (g[3] \in Receipts
          /\ pc'[g[3]] \in {"sent", "commit"}
                                                         /\ staged'[g[3]][g[1]] = g[2]))
    BY <1>2 DEF KeptOut, Leaving, Kept, SameJob
  <2>2. \A g \in given' \ given : Kept(g[1], g[2])' \/ staged[j][g[1]] = g[2]
    BY <1>0, <1>7, <1>8 DEF KeptOut, Leaving, Kept, Staged, InTx
  <2> QED BY <1>0, <1>6, <1>7, <1>8, <2>1, <2>2 DEF KeptOut, Leaving, Kept, Staged, InTx
<1>5. GivenOnce'
  <2>1. \A g \in given : g[3] \in Receipts => g[1] < low[j]
    BY <1>2, <1>7 DEF KeptOut, GivenOnce
  <2>2. \A g \in given, h \in given' \ given : g[3] \in Receipts => g[1] # h[1]
    BY <1>1, <1>8, <2>1 DEF TypeOK, TypeJobs
  <2>3. \A g, h \in given' : g[3] \in Receipts /\ h[3] \in Receipts /\ g[1] = h[1]
          /\ g[2] = h[2] => g = h
    BY <1>8, <2>2 DEF KeptOut, GivenOnce
  <2>4. \A r \in txHolder' \cap Receipts : \A g \in given' : g[3] \in Receipts \ {r}
          => g[1] < low'[r]
    BY <1>7, <1>8, <2>1
  <2>5. \A g \in given' : g[3] \in Receipts =>
          /\ pc'[g[3]] \in {"sent", "commit", "done"} /\ g[1] = low'[g[3]]
          /\ pc'[g[3]] # "sent" => g[1] < firstUnuploadedPreKeyId'
    BY <1>0, <1>2, <1>8 DEF KeptOut, GivenOnce, SameJob
  <2> QED BY <2>3, <2>4, <2>5 DEF GivenOnce
<1> QED BY <1>3, <1>4, <1>5 DEF KeptOut

LEMMA CommitReceiptHeld ==
  ASSUME TypeOK, TypeOK', Skips, Skips', KeptOut, NEW j \in Receipts, CommitReceipt(j)
  PROVE  KeptOut'
<1> USE DEF CommitReceipt, Larger, Goto, Release, worldVars, jobVars, creds
<1>1. j \in Jobs /\ \A i \in Jobs \ {j} : SameJob(i)
  BY DEF SameJob, Jobs, TypeOK, TypeJobs
<1>0. pc[j] = "sent" /\ pc'[j] = "commit" /\ UNCHANGED txHolder
  BY <1>1 DEF TypeOK, TypeJobs
<1>2. \A g \in given : g[3] \in Receipts => g[3] = j \/ SameJob(g[3])
  BY <1>1 DEF Jobs
<1>6. UNCHANGED pc[Upload]
  BY <1>1, PreKeysAssumption DEF SameJob, Jobs, PreKeysAssumption
<1>7. txHolder = {j}
  BY <1>0, <1>1, Alone DEF Skips, InTx
<1>8. firstUnuploadedPreKeyId <= firstUnuploadedPreKeyId' /\ low[j] < firstUnuploadedPreKeyId'
  <2>1. RangeOf(j) /\ count[j] = 1
    BY <1>0, <1>1 DEF Skips, Ranges, Mutex, InTx
  <2>2. low[j] < commitTo[j]
    BY <1>0, <1>1, <2>1 DEF RangeOf, Staged, InTx, TypeOK, TypeJobs
  <2> QED BY <1>1, <2>2 DEF TypeOK, TypeStore, TypeJobs
<1>3. Minting'
  BY <1>0, <1>6, <1>7 DEF KeptOut, Minting, Staged, InTx
<1>4. Leaving'
  BY <1>0, <1>2, <1>6, <1>7 DEF KeptOut, Leaving, Kept, SameJob, Staged, InTx
<1>5. GivenOnce'
  <2>1. \A g \in given : g[1] < firstUnuploadedPreKeyId => g[1] < firstUnuploadedPreKeyId'
    BY <1>8 DEF TypeOK, TypeStore, TypeWorld, Ids
  <2> QED BY <1>0, <1>2, <1>7, <1>8, <2>1 DEF KeptOut, GivenOnce, SameJob
<1> QED BY <1>3, <1>4, <1>5 DEF KeptOut

LEMMA CommitTxHeld ==
  ASSUME TypeOK, TypeOK', Skips, Skips', KeptOut, NEW j \in Jobs, CommitTx(j)
  PROVE  KeptOut'
<1> USE DEF CommitTx, Goto, Release, worldVars, jobVars, creds
<1>1. j \in Jobs /\ \A i \in Jobs \ {j} : SameJob(i)
  BY DEF SameJob, Jobs, TypeOK, TypeJobs
<1>0. /\ pc[j] = "commit" /\ txHolder' = {} /\ store' = Written(j, Ids)
      /\ pc'[j] = IF j = Upload THEN "query" ELSE "done"
      /\ UNCHANGED <<creds, given, wire, used, bundle, low>>
  BY <1>1 DEF TypeOK, TypeJobs
<1> HIDE DEF CommitTx
<1>7. txHolder = {j} /\ \A i \in Jobs \ {j} : pc[i] \notin InTx
  BY <1>0, Alone DEF Skips, InTx
<1>2. \A g \in given : g[3] \in Receipts => g[3] = j \/ (SameJob(g[3]) /\ pc[g[3]] = "done")
  BY <1>1, <1>7 DEF KeptOut, GivenOnce, Jobs, InTx
<1>8. \A id \in Ids : store'[id] = IF staged[j][id] # 0 THEN staged[j][id] ELSE store[id]
  BY <1>0 DEF Written
<1>9. ASSUME NEW id \in Ids, staged[j][id] # 0 PROVE store[id] = 0 /\ id < nextPreKeyId
  <2>1. /\ allocFrom[j] <= id /\ id < allocTo[j] /\ allocTo[j] <= nextPreKeyId
        /\ store[id] # 0 => id < allocFrom[j]
    BY <1>0, <1>7, <1>9 DEF KeptOut, Minting, Staged, InTx
  <2> QED BY <2>1 DEF TypeOK, TypeStore, TypeJobs, Ids
<1>10. ASSUME NEW id \in Ids, NEW p, p # 0, Kept(id, p) \/ staged[j][id] = p PROVE Kept(id, p)'
  BY <1>0, <1>8, <1>9, <1>10 DEF Kept
<1>3. Minting'
  <2>1. pc'[Upload] # "undo"
    BY <1>0, <1>1 DEF KeptOut, Minting, SameJob, Jobs
  <2> QED BY <1>0, <1>8, <1>9, <2>1 DEF KeptOut, Minting
<1>4. Leaving'
  <2>1. \A g \in given : g[2] # 0 /\ Kept(g[1], g[2])'
    BY <1>0, <1>2, <1>10 DEF KeptOut, Leaving, TypeOK, TypeWorld
  <2>2. \A i \in 1..Len(wire) : \A id \in Ids : wire[i][id] # 0 => Kept(id, wire[i][id])'
    BY <1>0, <1>10 DEF KeptOut, Leaving
  <2>3. (pc[Upload] = "query" => \A id \in Ids : bundle[Upload][id] # 0
          => Kept(id, bundle[Upload][id]))'
    <3>1. CASE j = Upload
      <4>1. \A id \in Ids : bundle[j][id] # 0
              => Kept(id, bundle[j][id]) \/ staged[j][id] = bundle[j][id]
        BY <1>0, <1>7 DEF KeptOut, Leaving, Staged, InTx
      <4> QED BY <1>0, <1>10, <3>1, <4>1
    <3>2. CASE j # Upload
      <4>1. pc'[Upload] = "query" => \A id \in Ids : bundle[Upload][id] # 0
              => Kept(id, bundle[Upload][id])
        BY <1>1, <3>2 DEF KeptOut, Leaving, SameJob, Jobs
      <4> QED BY <1>0, <1>10, <4>1
    <3> QED BY <3>1, <3>2
  <2> QED BY <1>0, <2>1, <2>2, <2>3 DEF Leaving
<1>5. GivenOnce'
  BY <1>0, <1>2, PreKeysAssumption DEF PreKeysAssumption, KeptOut, GivenOnce, SameJob
<1> QED BY <1>3, <1>4, <1>5 DEF KeptOut

LEMMA SendQueryHeld ==
  ASSUME TypeOK, TypeOK', Skips, Skips', KeptOut, SendQuery
  PROVE  KeptOut'
<1> USE DEF SendQuery, Goto, Release, worldVars, jobVars, creds
<1>1. Upload \in Jobs /\ \A i \in Jobs \ {Upload} : SameJob(i)
  BY DEF SameJob, Jobs, TypeOK, TypeJobs
<1>0. pc[Upload] = "query" /\ pc'[Upload] = "waiting" /\ Upload \notin Receipts
        /\ Upload \notin txHolder
  BY <1>1, PreKeysAssumption DEF Skips, Mutex, InTx, TypeOK, TypeJobs, PreKeysAssumption
<1>2. \A i \in Receipts \cup txHolder : SameJob(i)
  BY <1>0, <1>1 DEF Jobs, TypeOK, TypeJobs
<1>3. Minting'
  BY <1>0, <1>2 DEF KeptOut, Minting, SameJob
<1>4. Leaving'
  <2>1. \A i \in 1..Len(wire') : (i \in 1..Len(wire)
          /\ wire'[i] = wire[i]) \/ wire'[i] = bundle[Upload]
    BY <1>1 DEF TypeOK, TypeWorld, TypeJobs
  <2> QED BY <1>0, <1>2, <2>1 DEF KeptOut, Leaving, Kept, SameJob
<1>5. GivenOnce'
  BY <1>0, <1>2 DEF KeptOut, GivenOnce, SameJob
<1> QED BY <1>3, <1>4, <1>5 DEF KeptOut

LEMMA ServerAcceptsHeld ==
  ASSUME TypeOK, TypeOK', Skips, Skips', KeptOut, ServerAccepts
  PROVE  KeptOut'
<1> USE DEF ServerAccepts, Answer, KeysOf, Goto, Release, worldVars, jobVars, creds
<1>1. Upload \in Jobs /\ \A i \in Jobs \ {Upload} : SameJob(i)
  BY DEF SameJob, Jobs, TypeOK, TypeJobs
<1>0. /\ Upload \notin Receipts /\ pc'[Upload] \in {pc[Upload], "accepted"}
      /\ (pc'[Upload] # pc[Upload] => Upload \notin txHolder)
  BY <1>1, PreKeysAssumption DEF Skips, Mutex, InTx, TypeOK, TypeJobs, PreKeysAssumption
<1>2. \A i \in Receipts \cup txHolder : SameJob(i)
  BY <1>0, <1>1 DEF SameJob, Jobs, TypeOK, TypeJobs
<1>6. \A g \in given' \ given : g[3] = Upload /\ g[1] \in Ids /\ g[2] = Head(wire)[g[1]] /\ g[2] # 0
  OBVIOUS
<1>7. \A g \in given' \ given : Kept(g[1], g[2])
  <2>1. Head(wire) = wire[1] /\ 1 \in 1..Len(wire)
    BY DEF TypeOK, TypeWorld
  <2> QED BY <1>6, <2>1 DEF KeptOut, Leaving
<1>3. Minting'
  BY <1>0, <1>2 DEF KeptOut, Minting, SameJob
<1>4. Leaving'
  <2>1. \A i \in 1..Len(wire') : \A id \in Ids : wire'[i][id] # 0 => Kept(id, wire'[i][id])
    BY TailElements DEF KeptOut, Leaving, TypeOK, TypeWorld
  <2>2. \A g \in given' : g[2] # 0 /\ (Kept(g[1], g[2]) \/ (g[3] \in Receipts
          /\ pc[g[3]] \in {"sent", "commit"}
                                                         /\ staged[g[3]][g[1]] = g[2]))
    BY <1>6, <1>7 DEF KeptOut, Leaving
  <2> QED BY <1>0, <1>2, <2>1, <2>2 DEF KeptOut, Leaving, Kept, SameJob
<1>5. GivenOnce'
  BY <1>0, <1>2, <1>6 DEF KeptOut, GivenOnce, SameJob
<1> QED BY <1>3, <1>4, <1>5 DEF KeptOut

LEMMA UseKeyHeld ==
  ASSUME TypeOK, TypeOK', Skips, Skips', KeptOut, UseKey
  PROVE  KeptOut'
<1> USE DEF Goto, Release, worldVars, jobVars, creds
<1>1. PICK g \in given : /\ txHolder = {} /\ store[g[1]] = g[2]
                        /\ store' = [store EXCEPT ![g[1]] = 0] /\ used' = used \cup {<<g[1], g[2]>>}
  BY DEF UseKey
<1>2. /\ UNCHANGED <<creds, txHolder, jobVars, wire, given>>
      /\ \A id \in Ids : store'[id] # 0 => store[id] # 0
      /\ \A id \in Ids, p \in Nat : Kept(id, p) => Kept(id, p)'
  BY <1>1 DEF UseKey, Kept, TypeOK, TypeStore, TypeWorld, Pairs
<1>3. Minting'
  BY <1>1, <1>2 DEF KeptOut, Minting
<1>4. Leaving'
  <2>1. \A h \in given : Kept(h[1], h[2]) => Kept(h[1], h[2])'
    BY <1>2 DEF TypeOK, TypeWorld
  <2>2. \A i \in 1..Len(wire) : \A id \in Ids : Kept(id, wire[i][id]) => Kept(id, wire[i][id])'
    BY <1>2 DEF TypeOK, TypeWorld, Pairs
  <2>3. \A id \in Ids : Kept(id, bundle[Upload][id]) => Kept(id, bundle[Upload][id])'
    BY <1>2 DEF TypeOK, TypeJobs, Pairs, Jobs
  <2> QED BY <1>1, <1>2, <2>1, <2>2, <2>3 DEF KeptOut, Leaving
<1>5. GivenOnce'
  BY <1>1, <1>2 DEF KeptOut, GivenOnce
<1> QED BY <1>3, <1>4, <1>5 DEF KeptOut

LEMMA InitHeld == Init => KeptOut
BY PreKeysAssumption DEF Init, KeptOut, Minting, Leaving, GivenOnce, NoKeys, Jobs, PreKeysAssumption

LEMMA NextHeld == TypeOK /\ TypeOK' /\ Skips /\ Skips' /\ KeptOut /\ [Next]_vars
                    /\ [~Loses]_vars => KeptOut'
<1> SUFFICES ASSUME TypeOK, TypeOK', Skips, Skips', KeptOut, [Next]_vars, [~Loses]_vars
             PROVE  KeptOut'
  OBVIOUS
<1>0. CASE UNCHANGED vars
  BY <1>0 DEF vars, creds, jobVars, worldVars, KeptOut, Minting, Leaving, GivenOnce, Kept
<1>1. CASE PreKeyLow
  BY <1>1, QuietHeld, PreKeysAssumption DEF PreKeyLow, PreKeysAssumption
<1>2. CASE UploadIfRequired
  BY <1>2, QuietHeld, PreKeysAssumption DEF UploadIfRequired, PreKeysAssumption
<1>3. ASSUME ~UNCHANGED vars, NEW j \in Jobs, Step(j) PROVE KeptOut'
  BY <1>3, BeginTxHeld, StageHeld, EmitAllocHeld, CommitTxHeld DEF Step, Loses
<1>4. CASE \E r \in Receipts : ReceiptStep(r)
  BY <1>4, QuietHeld, SendReceiptHeld, CommitReceiptHeld DEF ReceiptStep
<1>5. CASE UploadStep
  BY <1>5, SendQueryHeld, QuietHeld
     DEF UploadStep, UndoAlloc, KeptOut, Minting
<1>6. CASE Server \/ UseKey
  BY <1>6, ServerAcceptsHeld, ServerRejectsHeld, UseKeyHeld DEF Server
<1>7. CASE SaveCreds
  BY <1>7 DEF SaveCreds, creds, jobVars, worldVars, KeptOut, Minting, Leaving, GivenOnce, Kept
<1>8. CASE Crash
  BY <1>0, <1>8 DEF Loses
<1> QED BY <1>0, <1>1, <1>2, <1>3, <1>4, <1>5, <1>6, <1>7, <1>8 DEF Next

\* A key that left the client is there when the message that names it comes,
\* and no two retry receipts carry the same one, as long as no process dies
\* and no commit of a transaction exhausts its retries.
THEOREM PreKeysOutAreHeld == Spec /\ [][~Loses]_vars => []KeysOutAreHeld
<1>1. TypeOK /\ Skips /\ KeptOut => KeysOutAreHeld
  <2> SUFFICES ASSUME TypeOK, Skips, KeptOut PROVE KeysOutAreHeld
    OBVIOUS
  <2>1. \A r \in Receipts : pc[r] \in {"sent", "commit"} => r \in txHolder
    BY DEF Skips, Mutex, InTx, Jobs
  <2> QED BY <2>1 DEF KeptOut, Leaving, GivenOnce, Kept, KeysOutAreHeld, InOpenTx
<1> QED BY <1>1, InitTypes, NextTypes, InitSkips, NextSkips, InitHeld, NextHeld, PTL DEF Spec
=============================================================================
