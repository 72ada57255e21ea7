------------------------ MODULE TransactionStoreProofs ------------------------
(***************************************************************************)
(* Proofs about TransactionStore, for every set of calls and keys: its      *)
(* types, that the mutex is owned by a transaction that runs, and that      *)
(* transactions behave as if run one after the other.                       *)
(***************************************************************************)
EXTENDS TransactionStore, TLAPS

Busy == {"working", "fetching", "committing", "storing"}

-----------------------------------------------------------------------------
(* Types, in three parts.                                                  *)

TypeStores ==
  /\ disk \in [Keys -> Values] /\ cache \in [Keys -> ValuesOrUnset]
  /\ fills \in [Keys -> ValuesOrUnset] /\ outWrite \in [Keys -> ValuesOrUnset]
  /\ writes \in Values

TypeCalls ==
  /\ pc \in [Calls -> Busy \cup {"idle", "queued", "settled"}]
  /\ context \in [Calls -> Calls \cup {None}]
  /\ view \in [Calls -> [Keys -> ValuesOrUnset]]
  /\ seen \in [Calls -> [Keys -> ValuesOrUnset]] /\ staged \in [Calls -> [Keys -> ValuesOrUnset]]
  /\ fetched \in [Calls -> Fetches]
  /\ attempt \in [Calls -> Nat]

TypeLocks ==
  /\ failures \in 0..MaxFailures
  /\ holder \in Calls \cup {None} /\ disposed \in BOOLEAN
  /\ disposal \in {"idle", "queued", "done"}

\* A fetching frame knows what it fetches and for which context.
TypeFetches == \A c \in Calls : pc[c] = "fetching" => fetched[c].key \in Keys
  /\ fetched[c].ctx \in Calls

Types == TypeStores /\ TypeCalls /\ TypeLocks /\ TypeFetches

LEMMA TypesGiveTypeOK == Types => TypeOK
  BY DEF Types, TypeStores, TypeCalls, TypeLocks, TypeOK, Busy

LEMMA PutIsTyped ==
  ASSUME NEW f \in [Calls -> [Keys -> ValuesOrUnset]], NEW x \in Calls, NEW k \in Keys,
         NEW v \in ValuesOrUnset
  PROVE  [f EXCEPT ![x][k] = v] \in [Calls -> [Keys -> ValuesOrUnset]]
  OBVIOUS

LEMMA InitTypes == Init => Types
  <1> USE TransactionStoreAssumption DEF TransactionStoreAssumption
  <1> SUFFICES ASSUME Init PROVE Types
    OBVIOUS
  <1>1. TypeStores
    BY DEF Init, TypeStores, Empty, Values, ValuesOrUnset, Unset
  <1>2. TypeCalls
    BY DEF Init, TypeCalls, Empty, NoFetch, Fetches, Values, ValuesOrUnset, Unset, Busy
  <1>3. TypeLocks
    <2>1. failures \in 0..MaxFailures
      BY DEF Init
    <2>2. holder \in Calls \cup {None} /\ disposed \in BOOLEAN
            /\ disposal \in {"idle", "queued", "done"}
      BY Zenon DEF Init
    <2> QED BY <2>1, <2>2 DEF TypeLocks
  <1>4. TypeFetches
    BY DEF Init, TypeFetches
  <1> QED BY <1>1, <1>2, <1>3, <1>4 DEF Types

LEMMA NextTypes == Types /\ [Next]_vars => Types'
  <1> USE TransactionStoreAssumption DEF TransactionStoreAssumption
  <1> SUFFICES ASSUME Types, [Next]_vars PROVE Types'
    OBVIOUS
  <1> USE DEF Types
  <1>0. CASE UNCHANGED vars
    BY <1>0 DEF vars, stores, ctxs, locks, TypeStores, TypeCalls, TypeLocks, TypeFetches
  <1>1. ASSUME NEW c \in Calls, Call(c) PROVE Types'
    <2>1. Visible(c) \in Calls \cup {None}
      BY DEF Visible, TypeCalls
    <2>2. TypeStores' /\ TypeLocks'
      BY <1>1 DEF Call, stores, locks, TypeStores, TypeLocks
    <2>3. TypeCalls'
      <3>1. context' \in [Calls -> Calls \cup {None}]
        BY <1>1, <2>1 DEF Call, Enter, TypeCalls
      <3>2. pc' \in [Calls -> Busy \cup {"idle", "queued", "settled"}]
        BY <1>1 DEF Call, Enter, Goto, TypeCalls, Busy
      <3> QED BY <1>1, <3>1, <3>2 DEF Call, ctxs, TypeCalls
    <2>4. TypeFetches'
      BY <1>1 DEF Call, Enter, Goto, TypeCalls, TypeFetches
    <2> QED BY <2>2, <2>3, <2>4
  <1>2. ASSUME NEW c \in Calls, Acquire(c) PROVE Types'
    BY <1>2 DEF Acquire, Enter, Goto, stores, ctxs, TypeStores, TypeCalls, TypeLocks, TypeFetches,
        Busy
  <1>3. ASSUME NEW c \in Calls, Settle(c), UNCHANGED <<fetched, disposed, disposal>>, TypeStores',
               failures' \in 0..MaxFailures
        PROVE Types'
    <2>1. Empty \in [Keys -> ValuesOrUnset]
      BY DEF Empty, ValuesOrUnset, Unset
    <2>2. TypeCalls' /\ TypeFetches'
      BY <1>3, <2>1 DEF Settle, Goto, TypeCalls, TypeFetches, Busy
    <2>3. TypeLocks'
      BY <1>3 DEF Settle, TypeLocks
    <2> QED BY <1>3, <2>2, <2>3
  <1>4. ASSUME NEW c \in Calls, Return(c) \/ Throw(c) PROVE Types'
    <2>1. TypeStores' /\ failures' \in 0..MaxFailures
      BY <1>4 DEF Return, Throw, stores, TypeStores, TypeLocks
    <2>2. CASE Settle(c)
      BY <1>3, <1>4, <2>1, <2>2 DEF Return, Throw
    <2>3. CASE ~Settle(c)
      BY <1>4, <2>1, <2>3 DEF Return, Throw, Goto, ctxs, TypeCalls, TypeLocks, TypeFetches, Busy
    <2> QED BY <2>2, <2>3
  <1>5. ASSUME NEW c \in Calls, NEW k \in Keys, Read(c, k) PROVE Types'
    <2>1. context[c] \in Calls
      BY <1>5 DEF Read, TypeCalls
    <2>2. TypeStores' /\ TypeLocks'
      BY <1>5 DEF Read, stores, locks, TypeStores, TypeLocks
    <2>3. [key |-> k, value |-> IF cache[k] # Unset THEN cache[k] ELSE disk[k],
           ctx |-> context[c], fills |-> cache[k] = Unset] \in Fetches
      <3>1. (IF cache[k] # Unset THEN cache[k] ELSE disk[k]) \in Values
        BY DEF TypeStores, ValuesOrUnset
      <3> QED BY <2>1, <3>1 DEF Fetches
    <2>5. TypeCalls'
      <3>1. pc' \in [Calls -> Busy \cup {"idle", "queued", "settled"}]
        BY <1>5 DEF Read, Goto, TypeCalls, Busy
      <3>2. fetched' \in [Calls -> Fetches]
        BY <1>5, <2>3 DEF Read, TypeCalls
      <3> QED BY <1>5, <3>1, <3>2 DEF Read, ctxs, TypeCalls
    <2>6. TypeFetches'
      BY <1>5, <2>1 DEF Read, Goto, TypeCalls, TypeFetches
    <2> QED BY <2>2, <2>5, <2>6
  <1>6. ASSUME NEW c \in Calls, Fetched(c) PROVE Types'
    <2>1. fetched[c].key \in Keys /\ fetched[c].ctx \in Calls /\ fetched[c].value \in Values
      BY <1>6 DEF Fetched, TypeCalls, TypeFetches, Fetches
    <2>2. TypeStores'
      BY <1>6, <2>1 DEF Fetched, Filled, TypeStores, ValuesOrUnset
    <2>3. NoFetch \in Fetches
      BY DEF NoFetch, Fetches, Values
    <2>4. seen' \in [Calls -> [Keys -> ValuesOrUnset]]
      BY <1>6, <2>1, PutIsTyped DEF Fetched, TypeCalls, ValuesOrUnset
    <2>7. view' \in [Calls -> [Keys -> ValuesOrUnset]]
      BY <1>6, <2>1, PutIsTyped DEF Fetched, TypeCalls, ValuesOrUnset
    <2>5. TypeCalls' /\ TypeFetches'
      BY <1>6, <2>3, <2>4, <2>7 DEF Fetched, Goto, TypeCalls, TypeFetches, Busy
    <2>6. TypeLocks'
      BY <1>6 DEF Fetched, locks, TypeLocks
    <2> QED BY <2>2, <2>5, <2>6
  <1>7. ASSUME NEW c \in Calls, NEW k \in Keys, Write(c, k) \/ Delete(c, k) PROVE Types'
    <2>1. context[c] \in Calls
      BY <1>7 DEF Write, Delete, TypeCalls
    <2>2. writes' \in Values /\ 0 \in Values
      BY <1>7 DEF Write, Delete, stores, TypeStores, Values
    <2>3. TypeStores' /\ TypeLocks'
      BY <1>7, <2>2 DEF Write, Delete, Stage, stores, locks, TypeStores, TypeLocks
    <2>5. staged' \in [Calls -> [Keys -> ValuesOrUnset]] /\ view' \in [Calls -> [Keys -> ValuesOrUnset]]
      <3>1. PICK v \in Values : /\ staged' = [staged EXCEPT ![context[c]][k] = v]
                                /\ view' = [view EXCEPT ![context[c]][k] = v]
        BY <1>7, <2>2 DEF Write, Delete, Stage
      <3>2. v \in ValuesOrUnset /\ staged \in [Calls -> [Keys -> ValuesOrUnset]]
              /\ view \in [Calls -> [Keys -> ValuesOrUnset]]
        BY DEF TypeCalls, ValuesOrUnset
      <3> QED BY <2>1, <3>1, <3>2, PutIsTyped
    <2>4. TypeCalls' /\ TypeFetches'
      BY <1>7, <2>5 DEF Write, Delete, Stage, TypeCalls, TypeFetches
    <2> QED BY <2>3, <2>4
  <1>8. ASSUME NEW c \in Calls, CommitCache(c) PROVE Types'
    BY <1>8 DEF CommitCache, Goto, Mutated, ctxs, locks, TypeStores, TypeCalls, TypeLocks,
        TypeFetches, Busy
  <1>9. ASSUME NEW done \in SUBSET Keys, NEW c \in Calls, \A k \in done : staged[c][k] # Unset
        PROVE [k \in Keys |-> IF k \in done THEN staged[c][k] ELSE disk[k]] \in [Keys -> Values]
    BY <1>9 DEF TypeStores, TypeCalls, ValuesOrUnset
  <1>10. ASSUME NEW c \in Calls, CommitStore(c) PROVE Types'
    <2>0. Mutated(c) \in SUBSET Keys /\ \A k \in Mutated(c) : staged[c][k] # Unset
      BY DEF Mutated
    <2>1. disk' \in [Keys -> Values]
      BY <1>9, <1>10, <2>0 DEF CommitStore
    <2>2. TypeStores' /\ failures' \in 0..MaxFailures
      BY <1>10, <2>1 DEF CommitStore, TypeStores, TypeLocks
    <2> QED BY <1>3, <1>10, <2>2 DEF CommitStore
  <1>11. ASSUME NEW c \in Calls, StoreFails(c) PROVE Types'
    <2>0. Mutated(c) \in SUBSET Keys /\ \A k \in Mutated(c) : staged[c][k] # Unset
      BY DEF Mutated
    <2>1. disk' \in [Keys -> Values]
      <3>1. PICK done \in SUBSET Mutated(c) :
               disk' = [k \in Keys |-> IF k \in done THEN staged[c][k] ELSE disk[k]]
        BY <1>11 DEF StoreFails
      <3>2. done \in SUBSET Keys /\ \A k \in done : staged[c][k] # Unset
        BY <2>0
      <3> QED BY <1>9, <3>1, <3>2
    <2>2. TypeStores' /\ failures' \in 0..MaxFailures
      BY <1>11, <2>1 DEF StoreFails, TypeStores, TypeLocks
    <2>3. CASE Settle(c)
      BY <1>3, <1>11, <2>2, <2>3 DEF StoreFails
    <2>4. CASE ~Settle(c)
      <3>0. /\ pc' = [pc EXCEPT ![c] = "committing"]
                 /\ attempt' = [attempt EXCEPT ![c] = attempt[c] + 1]
            /\ UNCHANGED <<context, holder, view, seen, staged, fetched>>
        BY <1>11, <2>4 DEF StoreFails, Goto, ctxs
      <3>1. TypeCalls' /\ TypeFetches'
        BY <3>0 DEF TypeCalls, TypeFetches, Busy
      <3>2. TypeLocks'
        BY <1>11, <2>2, <2>4 DEF StoreFails, TypeLocks
      <3> QED BY <2>2, <3>1, <3>2
    <2> QED BY <2>3, <2>4
  <1>12. ASSUME NEW k \in Keys, Outside(k) PROVE Types'
    <2>1. TypeCalls' /\ TypeLocks' /\ TypeFetches'
      BY <1>12 DEF Outside, OutsideRead, OutsideFill, OutsideWrite, OutsideStored, Expire,
                   ctxs, locks, TypeCalls, TypeLocks, TypeFetches
    <2>2. TypeStores'
      BY <1>12 DEF Outside, OutsideRead, OutsideFill, OutsideWrite, OutsideStored, Expire, Filled,
                   TypeStores, Values, ValuesOrUnset, Unset
    <2> QED BY <2>1, <2>2
  <1>13. ASSUME (\E c \in Calls : DisposeInside(c)) \/ DisposeOutside \/ DisposeQuiet PROVE Types'
    BY <1>13 DEF DisposeInside, DisposeOutside, DisposeQuiet, Disable, stores, ctxs,
                 TypeStores, TypeCalls, TypeLocks, TypeFetches
  <1> QED
    BY <1>0, <1>1, <1>2, <1>4, <1>5, <1>6, <1>7, <1>8, <1>10, <1>11, <1>12, <1>13 DEF Next, Work,
        Commit

\* Every variable keeps its type in every behaviour.
THEOREM TransactionStoreTypeOK == Spec => []TypeOK
  <1>1. Types => TypeOK
    BY TypesGiveTypeOK
  <1> QED BY InitTypes, NextTypes, <1>1, PTL DEF Spec

-----------------------------------------------------------------------------
(* The mutex.                                                              *)

\* A step of c leaves the mutex with another owner alone, and lets go of it
\* when it takes c out of work.
LEMMA OwnStep ==
  ASSUME NEW c \in Calls, Types, OwnerRuns,
         \E l \in Busy \cup {"idle", "queued", "settled"} : Goto(c, l),
         holder' \in {holder, None, c}, holder' = c => pc'[c] \in Busy
  PROVE  OwnerRuns'
  <1>1. ASSUME holder' # None PROVE pc'[holder'] \in Busy
    <2>1. CASE holder' = c
      BY <2>1
    <2>2. CASE holder' # c
      <3>1. holder' = holder /\ holder \in Calls
        BY <1>1, <2>2 DEF Types, TypeLocks
      <3>2. pc'[holder] = pc[holder]
        BY <2>2, <3>1 DEF Goto, Types, TypeCalls
      <3> QED BY <1>1, <3>1, <3>2 DEF OwnerRuns, Busy
    <2> QED BY <2>1, <2>2
  <1> QED BY <1>1 DEF OwnerRuns, Busy

LEMMA NextOwnerRuns == Types /\ OwnerRuns /\ [Next]_vars => OwnerRuns'
  <1> USE TransactionStoreAssumption DEF TransactionStoreAssumption
  <1> SUFFICES ASSUME Types, OwnerRuns, [Next]_vars PROVE OwnerRuns'
    OBVIOUS
  <1> DEFINE Steps(c) == \E l \in Busy \cup {"idle", "queued", "settled"} : Goto(c, l)
             Keeps(c) == holder' \in {holder, None, c} /\ (holder' = c => pc'[c] \in Busy)
  <1>1. ASSUME UNCHANGED <<pc, holder>> PROVE OwnerRuns'
    BY <1>1 DEF OwnerRuns
  <1>2. ASSUME NEW c \in Calls, NEW l \in Busy, Goto(c, l), holder' = holder \/ holder' = c
        PROVE Steps(c) /\ Keeps(c)
    BY <1>2 DEF Goto, Types, TypeCalls, Busy
  <1>3. ASSUME NEW c \in Calls, Settle(c) PROVE Steps(c) /\ Keeps(c)
    BY <1>3 DEF Settle, Busy
  <1>4. ASSUME NEW c \in Calls, Call(c) PROVE Steps(c) /\ Keeps(c)
    <2>1. holder' = holder /\ holder # c
      BY <1>4 DEF Call, locks, OwnerRuns
    <2> QED BY <1>4, <2>1 DEF Call, Enter, Busy
  <1>5. ASSUME NEW c \in Calls, Acquire(c) PROVE Steps(c) /\ Keeps(c)
    BY <1>2, <1>5 DEF Acquire, Enter, Busy
  <1>6. ASSUME NEW c \in Calls, Return(c) \/ Throw(c) \/ CommitStore(c) \/ StoreFails(c)
        PROVE Steps(c) /\ Keeps(c)
    BY <1>2, <1>3, <1>6 DEF Return, Throw, CommitStore, StoreFails, Busy
  <1>7. ASSUME NEW c \in Calls, Fetched(c) \/ CommitCache(c) PROVE Steps(c) /\ Keeps(c)
    BY <1>2, <1>7 DEF Fetched, CommitCache, locks, Busy
  <1>8. ASSUME NEW c \in Calls, Work(c) PROVE UNCHANGED <<pc, holder>> \/ (Steps(c) /\ Keeps(c))
    BY <1>2, <1>8 DEF Work, Read, Write, Delete, Stage, locks, Busy
  <1>9. ASSUME UNCHANGED vars \/ (\E k \in Keys : Outside(k)) \/ (\E c \in Calls : DisposeInside(c))
                 \/ DisposeOutside \/ DisposeQuiet
        PROVE UNCHANGED <<pc, holder>>
    BY <1>9 DEF vars, locks, Outside, OutsideRead, OutsideFill, OutsideWrite, OutsideStored, Expire,
                DisposeInside, DisposeOutside, DisposeQuiet
  <1>10. (\E c \in Calls : Steps(c) /\ Keeps(c)) \/ UNCHANGED <<pc, holder>>
    BY <1>4, <1>5, <1>6, <1>7, <1>8, <1>9 DEF Next, Commit
  <1> QED BY <1>1, <1>10, OwnStep

\* runExclusive() gives the mutex back however its transaction ends: it is
\* never owned by a call that is over, waits or was not made.
THEOREM TransactionStoreOwnerRuns == Spec => []OwnerRuns
  <1>1. Init => OwnerRuns
    BY DEF Init, OwnerRuns
  <1> QED BY <1>1, InitTypes, NextTypes, NextOwnerRuns, PTL DEF Spec

-----------------------------------------------------------------------------
(* One transaction at a time.                                              *)

Committing == {"committing", "storing"}

\* Until disposal, everything that runs does so in the context of the call
\* that owns the mutex, all that was read or staged is in that context, and
\* nothing else runs while it commits.
OneRuns ==
  /\ holder # None => pc[holder] \in Busy
  /\ \A c \in Calls : IF pc[c] \in Busy THEN holder # None /\ context[c] = holder
                      ELSE context[c] = None
  /\ \A c \in Calls \ {holder} : seen[c] = Empty /\ staged[c] = Empty /\ pc[c] \notin Committing
  /\ \A c \in Calls : pc[c] = "fetching" => fetched[c].ctx = holder
  /\ holder # None /\ pc[holder] \in Committing => \A c \in Calls \ {holder} : pc[c] \notin Busy

Commits(k) == holder # None /\ pc[holder] \in Committing /\ staged[holder][k] # Unset

\* Of an owned key nothing is on its way from or to the outside, and what is
\* fetched, cached or was read is what the store has, or what the commit under
\* way is writing.
AgreedOn(k) ==
  /\ fills[k] = Unset /\ outWrite[k] = Unset
  /\ \A c \in Calls : pc[c] = "fetching" /\ fetched[c].key = k => fetched[c].value = disk[k]
  /\ cache[k] \in {Unset, disk[k]} \/ (Commits(k) /\ cache[k] = staged[holder][k])
  /\ Commits(k) /\ pc[holder] = "storing" => cache[k] \in {Unset, staged[holder][k]}
  /\ holder # None /\ seen[holder][k] # Unset =>
       disk[k] = seen[holder][k] \/ (Commits(k) /\ disk[k] = staged[holder][k])

Agreed == \A k \in Owned : AgreedOn(k)

Serial == (disposal = "queued" => disposed) /\ (~disposed => OneRuns /\ Agreed)

\* The last attempt of a commit fails: the transaction is rejected and what it
\* has written stays.
GivesUp == \E c \in Calls : StoreFails(c) /\ attempt[c] + 1 >= MaxCommitRetries

LEMMA InitSerial == Init => Serial
  <1> SUFFICES ASSUME Init PROVE Serial
    OBVIOUS
  <1>1. OneRuns
    BY DEF Init, OneRuns, Busy, Committing
  <1>2. Agreed
    BY TransactionStoreAssumption
       DEF Init, Agreed, AgreedOn, Commits, Owned, Empty, Unset, TransactionStoreAssumption
  <1> QED BY <1>1, <1>2 DEF Init, Serial

\* A call begins or gets the mutex.
LEMMA BeginSerial ==
  ASSUME Types, OneRuns, Agreed, ~disposed, NEW c \in Calls, Call(c) \/ Acquire(c)
  PROVE  OneRuns' /\ Agreed'
  <1> USE TransactionStoreAssumption DEF TransactionStoreAssumption
  <1>1. CASE Call(c)
    <2>1. Visible(c) \in {None, holder} /\ (Visible(c) # None => pc[holder] \notin Committing)
      BY <1>1 DEF Call, Visible, OneRuns, Busy, Committing, Types, TypeCalls, TypeLocks
    <2>2. c # holder
      BY <1>1 DEF Call, OneRuns, Busy
    <2>3. OneRuns'
      <3>1. /\ UNCHANGED <<seen, staged, fetched, holder>>
            /\ pc[c] = "idle" /\ holder # c
            /\ \/ /\ pc' = [pc EXCEPT ![c] = "working"]
                  /\ holder # None /\ pc[holder] \notin Committing
                  /\ context' = [context EXCEPT ![c] = holder]
               \/ pc' = [pc EXCEPT ![c] = "queued"] /\ UNCHANGED context
        BY <1>1, <2>1, <2>2 DEF Call, Goto, ctxs, locks
      <3>2. pc \in [Calls -> Busy \cup {"idle", "queued", "settled"}]
              /\ context \in [Calls -> Calls \cup {None}] /\ holder \in Calls \cup {None}
        BY DEF Types, TypeCalls, TypeLocks
      <3>3. holder # None => pc'[holder] = pc[holder]
        BY <3>1, <3>2
      <3>4. \A d \in Calls : IF pc'[d] \in Busy THEN holder' # None /\ context'[d] = holder'
                            ELSE context'[d] = None
        BY <3>1, <3>2 DEF OneRuns, Busy
      <3>5. \A d \in Calls \ {holder'} : seen'[d] = Empty /\ staged'[d] = Empty /\ pc'[d] \notin Committing
        BY <3>1, <3>2 DEF OneRuns, Committing
      <3>6. \A d \in Calls : pc'[d] = "fetching" => fetched'[d].ctx = holder'
        BY <3>1, <3>2 DEF OneRuns
      <3>7. holder' # None /\ pc'[holder'] \in Committing => \A d \in Calls \ {holder'} : pc'[d] \notin Busy
        BY <3>1, <3>2, <3>3 DEF OneRuns, Busy
      <3> QED BY <3>1, <3>3, <3>4, <3>5, <3>6, <3>7 DEF OneRuns
    <2>4. Agreed'
      BY <1>1, <2>2 DEF Call, Goto, ctxs, locks, stores, Agreed, AgreedOn, Commits, Types,
          TypeCalls, TypeLocks
    <2> QED BY <2>3, <2>4
  <1>2. CASE Acquire(c)
    <2>1. OneRuns'
      BY <1>2 DEF Acquire, Enter, Goto, ctxs, OneRuns, Busy, Committing, Types, TypeCalls
    <2>2. seen[c] = Empty
      BY <1>2 DEF Acquire, OneRuns
    <2>3. Agreed'
      BY <1>2, <2>2 DEF Acquire, Enter, Goto, ctxs, stores, Agreed, AgreedOn, Commits, Committing,
          Owned, Empty,
           Types, TypeCalls, Unset
    <2> QED BY <2>1, <2>3
  <1> QED BY <1>1, <1>2

\* A call that nobody waits for ends; what it wrote is the store's.
LEMMA SettleSerial ==
  ASSUME Types, OneRuns, NEW c \in Calls, Settle(c), UNCHANGED fetched, pc[c] \in Busy,
         c = holder => \A d \in Calls \ {c} : pc[d] \notin Busy
  PROVE  OneRuns'
  <1> USE TransactionStoreAssumption DEF TransactionStoreAssumption
  <1>1. CASE c = holder
    BY <1>1 DEF Settle, Goto, OneRuns, Busy, Committing, Types, TypeCalls
  <1>2. CASE c # holder
    BY <1>2 DEF Settle, Goto, OneRuns, Busy, Committing, Types, TypeCalls, TypeLocks
  <1> QED BY <1>1, <1>2

\* The work of a call returns or throws.
LEMMA EndSerial ==
  ASSUME Types, OneRuns, Agreed, ~disposed, NEW c \in Calls, Return(c) \/ Throw(c)
  PROVE  OneRuns' /\ Agreed'
  <1> USE TransactionStoreAssumption DEF TransactionStoreAssumption
  <1>1. pc[c] = "working" /\ pc[c] \in Busy /\ holder # None /\ context[c] = holder
    BY DEF Return, Throw, OneRuns, Busy
  <1>2. c = holder => \A d \in Calls \ {c} : pc[d] \notin Busy
    BY DEF Return, Throw, Awaited, OneRuns, Busy
  <1>3. UNCHANGED <<stores, fetched>>
    BY DEF Return, Throw
  <1>4. CASE Settle(c)
    <2>1. OneRuns'
      BY <1>1, <1>2, <1>3, <1>4, SettleSerial
    <2>2. ASSUME c = holder PROVE Agreed'
      BY <1>1, <1>2, <1>3, <1>4, <2>2 DEF Settle, Goto, stores, Agreed, AgreedOn, Commits,
          Committing, Busy, Types, TypeCalls
    <2>3. ASSUME c # holder PROVE Agreed'
      BY <1>1, <1>3, <1>4, <2>3 DEF Settle, Goto, stores, Agreed, AgreedOn, Commits, Committing,
          Types, TypeCalls, TypeLocks
    <2> QED BY <2>1, <2>2, <2>3
  <1>5. CASE ~Settle(c)
    <2>1. Goto(c, "committing") /\ UNCHANGED <<context, holder, ctxs, attempt>> /\ Mutated(c) # {}
      BY <1>5 DEF Return, Throw
    <2>2. c = holder
      BY <2>1 DEF Mutated, OneRuns, Empty, Unset
    <2>3. OneRuns'
      BY <1>1, <1>2, <1>3, <2>1, <2>2 DEF Goto, ctxs, OneRuns, Busy, Committing, Types, TypeCalls
    <2>4. Agreed'
      BY <1>1, <1>2, <1>3, <2>1, <2>2 DEF Goto, ctxs, stores, Agreed, AgreedOn, Commits,
          Committing, Busy, Types, TypeCalls
    <2> QED BY <2>3, <2>4
  <1> QED BY <1>4, <1>5

\* The work reads, writes and deletes.
LEMMA WorkSerial ==
  ASSUME Types, OneRuns, Agreed, ~disposed, NEW c \in Calls, Work(c) \/ Fetched(c)
  PROVE  OneRuns' /\ Agreed'
  <1> USE TransactionStoreAssumption DEF TransactionStoreAssumption
  <1>1. pc[c] \in {"working", "fetching"} /\ holder \in Calls /\ context[c] = holder
    BY DEF Work, Read, Write, Delete, Fetched, OneRuns, Busy, Types, TypeLocks
  <1>2. pc[holder] \notin Committing
    BY <1>1 DEF OneRuns, Busy, Committing
  <1>3. ASSUME NEW k \in Keys, Read(c, k) PROVE OneRuns' /\ Agreed'
    <2>1. UNCHANGED <<stores, context, staged, holder>>
            /\ \A d \in Calls \ {holder} : seen'[d] = seen[d]
      BY <1>1, <1>3 DEF Read, ctxs, locks, Types, TypeCalls
    <2> DEFINE found == IF cache[k] # Unset THEN cache[k] ELSE disk[k]
    <2>2. /\ pc[c] = "working" /\ pc' = [pc EXCEPT ![c] = "fetching"] /\ UNCHANGED seen
          /\ fetched' = [fetched EXCEPT ![c] =
               [key |-> k, value |-> found, ctx |-> holder, fills |-> cache[k] = Unset]]
      BY <1>1, <1>3 DEF Read, Goto, ctxs
    <2>3. k \in Owned => found = disk[k]
      BY <1>2 DEF Agreed, AgreedOn, Commits
    <2> HIDE DEF found
    <2>4. OneRuns'
      BY <1>1, <1>2, <2>1, <2>2 DEF OneRuns, Busy, Committing, Types, TypeCalls
    <2>5. Agreed'
      BY <1>1, <1>2, <2>1, <2>2, <2>3 DEF stores, Agreed, AgreedOn, Commits, Committing, Types,
          TypeCalls
    <2> QED BY <2>4, <2>5
  <1>4. ASSUME NEW k \in Keys, Write(c, k) \/ Delete(c, k) PROVE OneRuns' /\ Agreed'
    <2>1. OneRuns'
      BY <1>1, <1>2, <1>4 DEF Write, Delete, Stage, locks, OneRuns, Busy, Committing, Types,
          TypeCalls
    <2>2. UNCHANGED <<disk, cache, fills, outWrite, pc, holder, seen, fetched>>
      BY <1>4 DEF Write, Delete, Stage, locks, stores
    <2>3. Agreed'
      BY <1>2, <2>2 DEF Agreed, AgreedOn, Commits
    <2> QED BY <2>1, <2>3
  <1>5. ASSUME Fetched(c) PROVE OneRuns' /\ Agreed'
    <2>1. fetched[c].ctx = holder /\ fetched[c].key \in Keys
      BY <1>5 DEF Fetched, OneRuns, Types, TypeFetches
    <2>2. OneRuns'
      BY <1>1, <1>2, <1>5, <2>1 DEF Fetched, Goto, locks, OneRuns, Busy, Committing, Types,
          TypeCalls
    <2>3. ASSUME NEW k \in Owned PROVE AgreedOn(k)'
      <3>1. k \in Keys /\ AgreedOn(k) /\ (k = fetched[c].key => fetched[c].value = disk[k])
        BY <1>5 DEF Agreed, AgreedOn, Fetched, Owned
      <3>2. cache'[k] \in {Unset, disk[k]}
        BY <1>2, <1>5, <2>1, <3>1 DEF Fetched, Filled, AgreedOn, Commits, Types, TypeStores
      <3>3. seen'[holder][k] \in {seen[holder][k], disk[k]}
        BY <1>1, <1>5, <2>1, <3>1 DEF Fetched, Types, TypeCalls
      <3> QED
        BY <1>1, <1>2, <1>5, <3>1, <3>2, <3>3 DEF Fetched, Goto, locks, AgreedOn, Commits,
            Committing, Types, TypeCalls
    <2> QED BY <2>2, <2>3 DEF Agreed, Owned
  <1> QED BY <1>3, <1>4, <1>5 DEF Work

\* The steps of a commit that does not give up.
LEMMA CommitSerial ==
  ASSUME Types, OneRuns, Agreed, ~disposed, NEW c \in Calls, Commit(c), ~GivesUp
  PROVE  OneRuns' /\ Agreed'
  <1> USE TransactionStoreAssumption DEF TransactionStoreAssumption
  <1>1. c = holder /\ pc[c] \in Committing /\ pc[c] \in Busy
          /\ \A d \in Calls \ {c} : pc[d] \notin Busy
    BY DEF Commit, CommitCache, CommitStore, StoreFails, OneRuns, Busy, Committing
  <1>2. CASE CommitCache(c)
    <2>1. OneRuns'
      BY <1>1, <1>2 DEF CommitCache, Goto, ctxs, locks, OneRuns, Busy, Committing, Types, TypeCalls
    <2>2. Agreed'
      BY <1>1, <1>2 DEF CommitCache, Goto, ctxs, locks, Agreed, AgreedOn, Owned, Commits,
          Committing, Mutated, Busy,
           Types, TypeCalls
    <2> QED BY <2>1, <2>2
  <1>3. CASE CommitStore(c)
    <2>1. Settle(c) /\ UNCHANGED <<cache, fills, outWrite, fetched>>
      BY <1>3 DEF CommitStore
    <2>2. OneRuns'
      BY <1>1, <2>1, SettleSerial
    <2>3. Agreed'
      BY <1>1, <1>3, <2>1 DEF CommitStore, Settle, Goto, Agreed, AgreedOn, Owned, Commits,
          Committing, Mutated, Busy,
           Types, TypeCalls
    <2> QED BY <2>2, <2>3
  <1>4. CASE StoreFails(c)
    <2>1. attempt[c] + 1 < MaxCommitRetries
      BY <1>4 DEF GivesUp, Types, TypeCalls
    <2>2. Goto(c, "committing") /\ UNCHANGED <<context, holder, ctxs, cache, fills, outWrite, fetched>>
      BY <1>4, <2>1 DEF StoreFails
    <2>3. PICK done \in SUBSET Mutated(c) :
             disk' = [k \in Keys |-> IF k \in done THEN staged[c][k] ELSE disk[k]]
      BY <1>4 DEF StoreFails
    <2>4. OneRuns'
      BY <1>1, <2>2 DEF Goto, ctxs, OneRuns, Busy, Committing, Types, TypeCalls
    <2>5. Agreed'
      BY <1>1, <1>4, <2>2, <2>3 DEF StoreFails, Goto, ctxs, Agreed, AgreedOn, Owned, Commits,
          Committing, Mutated, Busy,
           Types, TypeCalls
    <2> QED BY <2>4, <2>5
  <1> QED BY <1>2, <1>3, <1>4 DEF Commit

\* Nobody has lost its context, so what happens outside leaves owned keys alone.
LEMMA OutsideSerial ==
  ASSUME Types, OneRuns, Agreed, ~disposed, NEW k \in Keys, Outside(k)
  PROVE  OneRuns' /\ Agreed'
  <1> USE TransactionStoreAssumption DEF TransactionStoreAssumption
  <1>1. ~Stripped
    BY DEF Stripped, OneRuns, Busy
  <1>2. UNCHANGED <<pc, context, seen, staged, fetched, holder>>
    BY DEF Outside, OutsideRead, OutsideFill, OutsideWrite, OutsideStored, Expire, ctxs, locks
  <1>3. OneRuns'
    BY <1>2 DEF OneRuns
  <1>4. k \in Owned => Expire(k)
    BY <1>1 DEF Outside, OutsideRead, OutsideFill, OutsideWrite, OutsideStored, Agreed, AgreedOn,
        Owned
  <1>5. ASSUME NEW i \in Owned PROVE AgreedOn(i)'
    <2>1. i \in Keys /\ AgreedOn(i)
      BY DEF Agreed, Owned
    <2>2. UNCHANGED <<disk[i], fills[i], outWrite[i]>> /\ cache'[i] \in {cache[i], Unset}
      BY <1>4, <2>1 DEF Outside, OutsideRead, OutsideFill, OutsideWrite, OutsideStored, Expire,
          Filled, Types, TypeStores
    <2> QED BY <1>2, <2>1, <2>2 DEF AgreedOn, Commits
  <1> QED BY <1>3, <1>5 DEF Agreed, Owned

LEMMA NextSerial == Types /\ Serial /\ [Next]_vars /\ [~GivesUp]_vars => Serial'
  <1> SUFFICES ASSUME Types, Serial, [Next]_vars, [~GivesUp]_vars PROVE Serial'
    OBVIOUS
  <1> USE DEF Serial
  <1>0. CASE UNCHANGED vars
    BY <1>0 DEF vars, stores, ctxs, locks, OneRuns, Agreed, AgreedOn, Commits
  <1>1. CASE disposed
    BY <1>1 DEF Next, vars, locks, Call, Acquire, Return, Throw, Work, Read, Write, Delete, Stage,
        Fetched,
         Commit, CommitCache, CommitStore, StoreFails, DisposeInside, DisposeOutside, DisposeQuiet,
         Outside, OutsideRead, OutsideFill, OutsideWrite, OutsideStored, Expire
  <1>2. ASSUME ~disposed, NEW c \in Calls, Call(c) \/ Acquire(c) PROVE Serial'
    BY <1>2, BeginSerial DEF Call, Acquire, locks
  <1>3. ASSUME ~disposed, NEW c \in Calls, Return(c) \/ Throw(c) PROVE Serial'
    BY <1>3, EndSerial DEF Return, Throw
  <1>4. ASSUME ~disposed, NEW c \in Calls, Work(c) \/ Fetched(c) PROVE Serial'
    BY <1>4, WorkSerial DEF Work, Read, Write, Delete, Stage, Fetched, locks
  <1>5. ASSUME ~disposed, ~UNCHANGED vars, NEW c \in Calls, Commit(c) PROVE Serial'
    BY <1>5, CommitSerial DEF Commit, CommitCache, CommitStore, StoreFails, locks
  <1>6. ASSUME ~disposed, NEW k \in Keys, Outside(k) PROVE Serial'
    BY <1>6, OutsideSerial DEF Outside, OutsideRead, OutsideFill, OutsideWrite, OutsideStored,
        Expire, locks
  <1>7. ASSUME ~disposed,
               (\E c \in Calls : DisposeInside(c)) \/ DisposeOutside \/ DisposeQuiet PROVE Serial'
    BY <1>7 DEF DisposeInside, DisposeOutside, DisposeQuiet
  <1> QED
    BY <1>0, <1>1, <1>2, <1>3, <1>4, <1>5, <1>6, <1>7 DEF Next

\* What Serial says of the two properties.
LEMMA SerialReads ==
  ASSUME Types, Serial
  PROVE  ReadsStayTrue /\ CacheAgrees
  <1>1. ASSUME ~disposed, NEW c \in Calls, NEW k \in Owned, seen[c][k] # Unset
        PROVE \/ disk[k] = seen[c][k]
              \/ pc[c] \in {"committing", "storing"} /\ disk[k] = staged[c][k]
    <2>1. k \in Keys
      BY TransactionStoreAssumption DEF Owned, TransactionStoreAssumption
    <2>2. c = holder
      BY <1>1, <2>1 DEF Serial, OneRuns, Empty
    <2>3. AgreedOn(k) /\ holder # None
      BY <1>1, <2>2, TransactionStoreAssumption DEF Serial, Agreed, TransactionStoreAssumption
    <2> QED BY <1>1, <2>2, <2>3 DEF AgreedOn, Commits, Committing
  <1>2. CacheAgrees
    BY DEF Types, TypeLocks, Serial, Agreed, AgreedOn, Commits, Committing, CacheAgrees
  <1> QED BY <1>1, <1>2 DEF ReadsStayTrue

\* As long as no commit gives up, transactions are serial on the keys that are
\* only touched in transactions: however calls are nested, fail and retry, and
\* whatever is read and written outside of them, none commits over an update
\* it has not seen.
THEOREM TransactionStoreReadsStayTrue == Spec /\ [][~GivesUp]_vars => []ReadsStayTrue
  <1>1. Types /\ Serial => ReadsStayTrue
    BY SerialReads
  <1> QED BY <1>1, InitTypes, NextTypes, InitSerial, NextSerial, PTL DEF Spec

\* Under the same condition no read of the cache misses what a transaction has
\* written.
THEOREM TransactionStoreCacheAgrees == Spec /\ [][~GivesUp]_vars => []CacheAgrees
  <1>1. Types /\ Serial => CacheAgrees
    BY SerialReads
  <1> QED BY <1>1, InitTypes, NextTypes, InitSerial, NextSerial, PTL DEF Spec
=============================================================================
