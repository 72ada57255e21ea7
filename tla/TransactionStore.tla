--------------------------- MODULE TransactionStore ---------------------------
(***************************************************************************)
(* addTransactionCapability over makeCacheableSignalKeyStore over a key     *)
(* store (lib/Utils/auth-utils.js), with the pre-key rules of               *)
(* lib/Utils/pre-key-manager.js.                                            *)
(*                                                                         *)
(* A call is one invocation of transaction(work).  work may read, write,    *)
(* call transaction() again and dispose the store; the calls a call makes   *)
(* are the ones Parent names, and it may await them in any order.  The      *)
(* AsyncLocalStorage of a frame is context[c]: the call whose staging area  *)
(* the frame sees, or None.  A stored value is a number, 0 is "no value".   *)
(***************************************************************************)
EXTENDS Integers

CONSTANTS
  Calls, None,
  Parent,            \* the call that makes a call, None for the outermost ones
  Keys, PreKeys,     \* store keys; the ones of type pre-key
  Stored,            \* keys an earlier process has stored a value for
  TxKeys,            \* keys the work of transactions touches
  ReadOutside,       \* keys also read outside every transaction
  WrittenOutside,    \* keys also written outside every transaction
  MayDispose,        \* the socket may end
  MaxCommitRetries,  \* maxCommitRetries
  MaxFailures,       \* bound on store writes that fail
  MaxWrites          \* bound on values written

ASSUME TransactionStoreAssumption ==
  /\ None \notin Calls /\ Parent \in [Calls -> Calls \cup {None}]
  /\ PreKeys \subseteq Keys /\ Stored \subseteq Keys /\ TxKeys \subseteq Keys
  /\ ReadOutside \subseteq Keys /\ WrittenOutside \subseteq Keys
  /\ MayDispose \in BOOLEAN
  /\ MaxCommitRetries \in Nat \ {0} /\ MaxFailures \in Nat /\ MaxWrites \in Nat \ {0}

\* Not read or not staged; not in the cache.
Unset == -1
Values == 0..MaxWrites

VARIABLES
  disk, cache,      \* the key store; the NodeCache in front of it
  fills,            \* per key, the value a read outside transactions will fill the cache with
  outWrite,         \* writes outside transactions between cache and store
  writes,           \* values written so far
  pc,
  context,          \* txStorage.getStore() of the frame of a call
  view, staged,     \* ctx.cache; ctx.mutations
  seen,             \* what the reads of a context have found
  fetched,          \* a read waiting to come back: key, value, context, whether it fills the cache
  attempt, failures,
  holder,           \* the owner of txMutex
  disposed, disposal

stores == <<disk, cache, fills, outWrite, writes>>
ctxs   == <<view, seen, staged>>
locks  == <<holder, disposed, disposal>>
vars == <<stores, pc, context, ctxs, fetched, attempt, failures, locks>>

Disposal == "disposal"
NoFetch == [key |-> None, value |-> 0, ctx |-> None, fills |-> FALSE]
Empty == [k \in Keys |-> Unset]

Init ==
  /\ disk = [k \in Keys |-> IF k \in Stored THEN 1 ELSE 0] /\ cache = Empty
  /\ fills = Empty /\ outWrite = Empty /\ writes = 1
  /\ pc = [c \in Calls |-> "idle"] /\ context = [c \in Calls |-> None]
  /\ view = [c \in Calls |-> Empty]
  /\ seen = [c \in Calls |-> Empty] /\ staged = [c \in Calls |-> Empty]
  /\ fetched = [c \in Calls |-> NoFetch]
  /\ attempt = [c \in Calls |-> 0] /\ failures = 0
  /\ holder = None /\ disposed = FALSE /\ disposal = "idle"

Goto(c, l) == pc' = [pc EXCEPT ![c] = l]

-----------------------------------------------------------------------------
(* transaction()                                                           *)

\* run(): a fresh context, visible to the frame.
Enter(c) ==
  /\ Goto(c, "working")
  /\ context' = [context EXCEPT ![c] = c]

Visible(c) == IF Parent[c] = None THEN None ELSE context[Parent[c]]

\* Mutant: a call that sees no context queues, disposed or not.
CallQueues(c) ==
  /\ pc[c] = "idle"
  /\ Parent[c] # None => pc[Parent[c]] = "working"
  /\ IF Visible(c) # None
     THEN Goto(c, "working") /\ context' = [context EXCEPT ![c] = Visible(c)]
     ELSE Goto(c, "queued") /\ UNCHANGED context
  /\ UNCHANGED <<stores, ctxs, attempt, fetched, failures, locks>>

\* A nested call reuses the context it sees.  One that sees none queues on the
\* mutex, or runs inline once the store is disposed.
Call(c) ==
  /\ pc[c] = "idle"
  /\ Parent[c] # None => pc[Parent[c]] = "working"
  /\ \/ Visible(c) # None /\ Goto(c, "working") /\ context' = [context EXCEPT ![c] = Visible(c)]
     \/ Visible(c) = None /\ disposed /\ Enter(c)
     \/ Visible(c) = None /\ ~disposed /\ Goto(c, "queued") /\ UNCHANGED context
  /\ UNCHANGED <<stores, ctxs, attempt, fetched, failures, locks>>

\* Mutant: a mutex per key type lets two transactions run side by side.
AcquireAnyway(c) ==
  /\ pc[c] = "queued"
  /\ holder' = c /\ Enter(c)
  /\ UNCHANGED <<stores, ctxs, attempt, fetched, failures, disposed, disposal>>

Acquire(c) ==
  /\ pc[c] = "queued" /\ holder = None
  /\ holder' = c /\ Enter(c)
  /\ UNCHANGED <<stores, ctxs, attempt, fetched, failures, disposed, disposal>>

\* A call owns the context that run() made for it; a nested one that reuses an
\* outer context has none.  Its own ctx is a local variable of run(), so it is
\* still committed after disable() took it from the frame.
Settle(c) ==
  /\ Goto(c, "settled")
  /\ context' = [context EXCEPT ![c] = None]
  /\ holder' = IF holder = c THEN None ELSE holder
  /\ view' = [view EXCEPT ![c] = Empty]
  /\ seen' = [seen EXCEPT ![c] = Empty] /\ staged' = [staged EXCEPT ![c] = Empty]
  /\ attempt' = [attempt EXCEPT ![c] = 0]

Mutated(c) == {k \in Keys : staged[c][k] # Unset}

\* work() awaits the calls it made and everything that runs in its context.
Awaited(c) ==
  \A d \in Calls : Parent[d] = c \/ (d # c /\ context[d] = c) => pc[d] \in {"idle", "settled"}

\* work() returned: commitWithRetry, which has nothing to do for an empty
\* context.  A nested call leaves its mutations to the call that owns them.
Return(c) ==
  /\ pc[c] = "working" /\ Awaited(c)
  /\ IF Mutated(c) = {}
     THEN Settle(c)
     ELSE Goto(c, "committing") /\ UNCHANGED <<context, holder, ctxs, attempt>>
  /\ UNCHANGED <<stores, fetched, failures, disposed, disposal>>

\* work() threw: the staged mutations are dropped with the context.
Throw(c) ==
  /\ pc[c] = "working" /\ Awaited(c)
  /\ Settle(c)
  /\ UNCHANGED <<stores, fetched, failures, disposed, disposal>>

-----------------------------------------------------------------------------
(* get() and set() of the work of a transaction.                           *)

\* ctx.cache first, then the cache, then the store.  ctx.cache does not hold a
\* missing value: it would be looked up again (once per context here, a bound).
Read(c, k) ==
  /\ pc[c] = "working" /\ context[c] # None /\ k \in TxKeys
  /\ view[context[c]][k] = Unset /\ seen[context[c]][k] = Unset
  /\ Goto(c, "fetching")
  /\ fetched' = [fetched EXCEPT ![c] =
                   [key |-> k, value |-> IF cache[k] # Unset THEN cache[k] ELSE disk[k],
                    ctx |-> context[c], fills |-> cache[k] = Unset]]
  /\ UNCHANGED <<stores, context, ctxs, attempt, failures, locks>>

\* A missing value is not cached, a found one is.
Filled(k, v) == cache' = IF v = 0 THEN cache ELSE [cache EXCEPT ![k] = v]

\* Object.assign: what was found goes over what another frame of the context
\* has staged meanwhile, in ctx.cache and not in ctx.mutations.
Fetched(c) ==
  /\ pc[c] = "fetching" /\ Goto(c, "working")
  /\ IF fetched[c].fills THEN Filled(fetched[c].key, fetched[c].value) ELSE UNCHANGED cache
  /\ seen' = [seen EXCEPT ![fetched[c].ctx][fetched[c].key] = fetched[c].value]
  /\ view' = IF fetched[c].fills /\ fetched[c].value = 0 THEN view
             ELSE [view EXCEPT ![fetched[c].ctx][fetched[c].key] = fetched[c].value]
  /\ fetched' = [fetched EXCEPT ![c] = NoFetch]
  /\ UNCHANGED <<disk, fills, outWrite, writes, context, staged, attempt, failures, locks>>

Stage(c, k, v) ==
  /\ staged' = [staged EXCEPT ![context[c]][k] = v]
  /\ view' = [view EXCEPT ![context[c]][k] = v]
  /\ UNCHANGED <<pc, context, seen, fetched, attempt, failures, locks>>

Write(c, k) ==
  /\ pc[c] = "working" /\ context[c] # None /\ k \in TxKeys
  /\ writes < MaxWrites /\ writes' = writes + 1
  /\ Stage(c, k, writes')
  /\ UNCHANGED <<disk, cache, fills, outWrite>>

\* Deleting a pre-key that ctx.cache does not hold is skipped.
Delete(c, k) ==
  /\ pc[c] = "working" /\ context[c] # None /\ k \in TxKeys
  /\ k \in PreKeys => view[context[c]][k] \notin {Unset, 0}
  /\ Stage(c, k, 0)
  /\ UNCHANGED stores

-----------------------------------------------------------------------------
(* commitWithRetry: the cache is written before the store.                 *)

\* Mutant: the cache is not told.
CommitNoCache(c) ==
  /\ pc[c] = "committing" /\ Goto(c, "storing")
  /\ UNCHANGED <<stores, context, ctxs, fetched, attempt, failures, locks>>

CommitCache(c) ==
  /\ pc[c] = "committing" /\ Goto(c, "storing")
  /\ cache' = [k \in Keys |-> IF k \in Mutated(c) THEN staged[c][k] ELSE cache[k]]
  /\ UNCHANGED <<disk, fills, outWrite, writes, context, ctxs, fetched, attempt, failures, locks>>

CommitStore(c) ==
  /\ pc[c] = "storing"
  /\ disk' = [k \in Keys |-> IF k \in Mutated(c) THEN staged[c][k] ELSE disk[k]]
  /\ Settle(c)
  /\ UNCHANGED <<cache, fills, outWrite, writes, fetched, failures, disposed, disposal>>

\* Mutant: the attempts are counted down from zero.
StoreFailsCountsDown(c) ==
  /\ pc[c] = "storing" /\ failures < MaxFailures /\ failures' = failures + 1
  /\ \E done \in SUBSET Mutated(c) :
       disk' = [k \in Keys |-> IF k \in done THEN staged[c][k] ELSE disk[k]]
  /\ Goto(c, "committing") /\ attempt' = [attempt EXCEPT ![c] = attempt[c] - 1]
  /\ UNCHANGED <<cache, fills, outWrite, writes, context, holder, ctxs, fetched, disposed, disposal>>

\* The store writes some of the keys and rejects; after the last attempt the
\* transaction does too.
StoreFails(c) ==
  /\ pc[c] = "storing" /\ failures < MaxFailures /\ failures' = failures + 1
  /\ \E done \in SUBSET Mutated(c) :
       disk' = [k \in Keys |-> IF k \in done THEN staged[c][k] ELSE disk[k]]
  /\ IF attempt[c] + 1 < MaxCommitRetries
     THEN /\ Goto(c, "committing") /\ attempt' = [attempt EXCEPT ![c] = attempt[c] + 1]
          /\ UNCHANGED <<context, holder, ctxs>>
     ELSE Settle(c)
  /\ UNCHANGED <<cache, fills, outWrite, writes, fetched, disposed, disposal>>

-----------------------------------------------------------------------------
(* Reads and writes that see no context.                                   *)

\* A frame that lost its context to disable() goes past its own staging area.
Stripped == \E c \in Calls : pc[c] = "working" /\ context[c] = None

OutsideRead(k) ==
  /\ k \in ReadOutside \/ (Stripped /\ k \in TxKeys)
  /\ cache[k] = Unset /\ disk[k] # 0 /\ fills[k] = Unset  \* one at a time, a bound
  /\ fills' = [fills EXCEPT ![k] = disk[k]]
  /\ UNCHANGED <<disk, cache, outWrite, writes, pc, context, ctxs, fetched, attempt, failures, locks>>

OutsideFill(k) ==
  /\ fills[k] # Unset /\ fills' = [fills EXCEPT ![k] = Unset] /\ Filled(k, fills[k])
  /\ UNCHANGED <<disk, outWrite, writes, pc, context, ctxs, fetched, attempt, failures, locks>>

\* The queue of a type has concurrency 1.
OutsideWrite(k) ==
  /\ k \in WrittenOutside \/ (Stripped /\ k \in TxKeys)
  /\ outWrite[k] = Unset
  /\ writes < MaxWrites /\ writes' = writes + 1
  /\ cache' = [cache EXCEPT ![k] = writes'] /\ outWrite' = [outWrite EXCEPT ![k] = writes']
  /\ UNCHANGED <<disk, fills, pc, context, ctxs, fetched, attempt, failures, locks>>

OutsideStored(k) ==
  /\ outWrite[k] # Unset
  /\ disk' = [disk EXCEPT ![k] = outWrite[k]] /\ outWrite' = [outWrite EXCEPT ![k] = Unset]
  /\ UNCHANGED <<cache, fills, writes, pc, context, ctxs, fetched, attempt, failures, locks>>

\* stdTTL, maxKeys.
Expire(k) ==
  /\ cache[k] # Unset /\ cache' = [cache EXCEPT ![k] = Unset]
  /\ UNCHANGED <<disk, fills, outWrite, writes, pc, context, ctxs, fetched, attempt, failures, locks>>

-----------------------------------------------------------------------------
(* disposeTransactionStorage(), which end() calls once                     *)

\* AsyncLocalStorage.disable() is instance-wide.
Disable == context' = [c \in Calls |-> None]

DisposeInside(c) ==
  /\ MayDispose /\ ~disposed /\ pc[c] = "working" /\ context[c] # None
  /\ disposed' = TRUE /\ Disable
  /\ UNCHANGED <<stores, pc, ctxs, fetched, attempt, failures, holder, disposal>>

DisposeOutside ==
  /\ MayDispose /\ ~disposed /\ disposal' = "queued" /\ disposed' = TRUE
  /\ UNCHANGED <<stores, pc, context, ctxs, fetched, attempt, failures, holder>>

DisposeQuiet ==
  /\ disposal = "queued" /\ holder = None /\ disposal' = "done" /\ Disable
  /\ UNCHANGED <<stores, pc, ctxs, fetched, attempt, failures, holder, disposed>>

Work(c) == \E k \in Keys : Read(c, k) \/ Write(c, k) \/ Delete(c, k)
Commit(c) == CommitCache(c) \/ CommitStore(c) \/ StoreFails(c)
Outside(k) == OutsideRead(k) \/ OutsideFill(k) \/ OutsideWrite(k) \/ OutsideStored(k) \/ Expire(k)

Next ==
  \/ \E c \in Calls : Call(c) \/ Acquire(c) \/ Return(c) \/ Throw(c)
  \/ \E c \in Calls : Work(c) \/ Fetched(c) \/ Commit(c) \/ DisposeInside(c)
  \/ \E k \in Keys : Outside(k)
  \/ DisposeOutside \/ DisposeQuiet

Spec == Init /\ [][Next]_vars

\* The event loop completes I/O and resumes frames; the mutex is a FIFO queue,
\* so whoever waits for it gets it if it is released again and again.  That the
\* work of a transaction returns or throws is assumed of its caller: a relay
\* that waits for a lock of its own may not (Connection, Crossed).
Proceed(c) == Return(c) \/ Throw(c) \/ Fetched(c) \/ Commit(c)

Fairness == SF_vars(DisposeQuiet) /\ \A c \in Calls : WF_vars(Proceed(c)) /\ SF_vars(Acquire(c))

FairSpec == Spec /\ Fairness

-----------------------------------------------------------------------------
ValuesOrUnset == Values \cup {Unset}
Fetches ==
  [key : Keys \cup {None}, value : Values, ctx : Calls \cup {None}, fills : BOOLEAN]

TypeOK ==
  /\ disk \in [Keys -> Values] /\ cache \in [Keys -> ValuesOrUnset]
  /\ fills \in [Keys -> ValuesOrUnset] /\ outWrite \in [Keys -> ValuesOrUnset]
  /\ writes \in Values
  /\ pc \in [Calls -> {"idle", "queued", "working", "fetching", "committing", "storing", "settled"}]
  /\ context \in [Calls -> Calls \cup {None}]
  /\ view \in [Calls -> [Keys -> ValuesOrUnset]]
  /\ seen \in [Calls -> [Keys -> ValuesOrUnset]] /\ staged \in [Calls -> [Keys -> ValuesOrUnset]]
  /\ fetched \in [Calls -> Fetches]
  /\ attempt \in [Calls -> Nat] /\ failures \in 0..MaxFailures
  /\ holder \in Calls \cup {None} /\ disposed \in BOOLEAN
  /\ disposal \in {"idle", "queued", "done"}

\* The mutex is owned by a transaction that runs or commits, never by one that
\* is over: runExclusive releases it however the transaction ends.
OwnerRuns == holder # None => pc[holder] \in {"working", "fetching", "committing", "storing"}

\* Keys that are only touched in transactions.
Owned == TxKeys \ (ReadOutside \cup WrittenOutside)

\* "exactly one per store": until disposal, what a transaction has read of a
\* key that is only touched in transactions is what the store holds, up to its
\* own commit; so no commit overwrites an update its transaction has not seen.
ReadsStayTrue ==
  ~disposed =>
    \A c \in Calls, k \in Owned :
      seen[c][k] # Unset =>
        \/ disk[k] = seen[c][k]
        \/ pc[c] \in {"committing", "storing"} /\ disk[k] = staged[c][k]

\* The cache never disagrees with the store about such a key, except between
\* the two writes of a commit.
CacheAgrees ==
  ~disposed =>
    \A k \in Owned :
      cache[k] \notin {Unset, disk[k]} =>
        \E c \in Calls : pc[c] \in {"committing", "storing"} /\ cache[k] = staged[c][k]

\* Every call of transaction() settles and the store gets quiet, wherever the
\* disposal comes from and however calls are nested.
Settles ==
  /\ \A c \in Calls : pc[c] = "queued" ~> pc[c] = "settled"
  /\ disposal = "queued" ~> disposal = "done"
=============================================================================
