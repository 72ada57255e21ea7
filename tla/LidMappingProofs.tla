-------------------------- MODULE LidMappingProofs --------------------------
(***************************************************************************)
(* Proofs about LidMapping, for every set of users, devices, announcements *)
(* and talkers: the types, who holds the locks of alt addresses, and, when *)
(* no PN is announced with two LIDs, that no session is at two addresses   *)
(* and none loses a step of its ratchet.                                   *)
(***************************************************************************)
EXTENDS LidMapping, TLAPS

\* A mapping only holds pairs that were announced.
Linked ==
  /\ \A p \in PNs : /\ fwd[p] # None => <<p, fwd[p]>> \in Announced
                    /\ cfwd[p] # None => <<p, cfwd[p]>> \in Announced
  /\ \A l \in LIDs : /\ rev[l] # None => <<rev[l], l>> \in Announced
                     /\ crev[l] # None => <<crev[l], l>> \in Announced

\* An announcement that is dealt with has its pair, and what a lookup brought
\* was announced too.
JobShape ==
  \A j \in Jobs : job[j].pc \notin {"idle", "done"} =>
    /\ <<job[j].pn, job[j].lid>> \in Announced
    /\ At(j, "looked") /\ job[j].seen # None => <<job[j].seen, job[j].lid>> \in Announced
    /\ At(j, "checked") /\ job[j].seen # None => <<job[j].pn, job[j].seen>> \in Announced

\* Traffic that holds the mutex has loaded from somewhere.
LoadShape ==
  owner = Traffic =>
    /\ load.pn \in PNs /\ load.device \in Devices /\ load.home \in PNs \cup LIDs
    /\ load.mapped # None => <<load.pn, load.mapped>> \in Announced

Shape == TypeOK /\ Linked /\ JobShape /\ LoadShape

-----------------------------------------------------------------------------
(* The types, and the shape of what is stored and announced.               *)

LEMMA Named ==
  ASSUME NEW p, NEW l, <<p, l>> \in Announced
  PROVE  p \in PNs /\ l \in LIDs /\ p # None /\ l # None
  BY LidMappingAssumption DEF LidMappingAssumption

LEMMA BlankType == ASSUME NEW pc \in Labels PROVE Blank(pc) \in JobRecords
  BY DEF Blank, JobRecords, Kinds, NoSession, Sessions

LEMMA InitShape == Init => Shape
  <1> SUFFICES ASSUME Init PROVE Shape
    OBVIOUS
  <1>1. TypeStore
    BY DEF Init, TypeStore, NoSession, Sessions
  <1>2. TypeJobs
    BY BlankType DEF Init, TypeJobs, Labels
  <1>3. TypeTraffic
    BY LidMappingAssumption DEF LidMappingAssumption, Init, TypeTraffic, Idle, NoSession, Sessions
  <1>4. Linked
    BY DEF Init, Linked
  <1>5. JobShape
    BY DEF Init, Blank, JobShape
  <1>6. LoadShape
    BY LidMappingAssumption DEF LidMappingAssumption, Init, LoadShape
  <1> QED BY <1>1, <1>2, <1>3, <1>4, <1>5, <1>6 DEF TypeOK, Shape

JobsOK == job \in [Jobs -> JobRecords] /\ locked \subseteq PNs \cup LIDs /\ JobShape

LEMMA Finished ==
  ASSUME Shape, NEW j \in Jobs, Finish(j)
  PROVE  /\ JobsOK' /\ job'[j] = Blank("done")
         /\ \A i \in Jobs : i # j => job'[i] = job[i]
  <1>1. job' = [job EXCEPT ![j] = Blank("done")]
    BY DEF Finish
  <1>2. Blank("done") \in JobRecords
    BY BlankType DEF Labels
  <1>3. job \in [Jobs -> JobRecords] /\ locked \subseteq PNs \cup LIDs
    BY DEF Shape, TypeOK, TypeJobs
  <1>4. job' \in [Jobs -> JobRecords] /\ job'[j] = Blank("done")
        /\ \A i \in Jobs : i # j => job'[i] = job[i]
    BY <1>1, <1>2, <1>3
  <1>5. locked' \subseteq PNs \cup LIDs
    BY <1>3 DEF Finish
  <1>6. JobShape'
    BY <1>4 DEF Shape, JobShape, At, Blank
  <1> QED BY <1>4, <1>5, <1>6 DEF JobsOK

LEMMA Gone ==
  ASSUME Shape, NEW j \in Jobs, NEW label \in Labels, Goto(j, label),
         job[j].pc \notin {"idle", "done"}, label \notin {"looked", "checked"}
  PROVE  /\ JobsOK' /\ job'[j] = [job[j] EXCEPT !.pc = label]
         /\ \A i \in Jobs : i # j => job'[i] = job[i]
  <1>1. job' = [job EXCEPT ![j].pc = label] /\ locked' = locked
    BY DEF Goto
  <1>2. job \in [Jobs -> JobRecords] /\ locked \subseteq PNs \cup LIDs
    BY DEF Shape, TypeOK, TypeJobs
  <1>3. /\ job' \in [Jobs -> JobRecords] /\ job'[j] = [job[j] EXCEPT !.pc = label]
        /\ \A i \in Jobs : i # j => job'[i] = job[i]
    BY <1>1, <1>2 DEF JobRecords
  <1>4. job'[j].pn = job[j].pn /\ job'[j].lid = job[j].lid /\ job'[j].pc = label
    BY <1>2, <1>3 DEF JobRecords
  <1>5. JobShape'
    BY <1>3, <1>4 DEF Shape, JobShape, At
  <1> QED BY <1>1, <1>2, <1>3, <1>5 DEF JobsOK

\* A step that leaves the announcements alone.
LEMMA SameJobs == ASSUME Shape, job' = job, locked' = locked PROVE JobsOK'
  BY DEF Shape, TypeOK, TypeJobs, JobShape, JobsOK, At

\* mappingCache is set to an announced pair.
LEMMA CachedLinked ==
  ASSUME Shape, NEW p, NEW l, <<p, l>> \in Announced, Cache(p, l), fwd' = fwd, rev' = rev
  PROVE  /\ cfwd' \in [PNs -> LIDs \cup {None}] /\ crev' \in [LIDs -> PNs \cup {None}] /\ Linked'
  <1>1. p \in PNs /\ l \in LIDs
    BY Named
  <1>2. cfwd \in [PNs -> LIDs \cup {None}] /\ crev \in [LIDs -> PNs \cup {None}]
    BY DEF Shape, TypeOK, TypeStore
  <1>3. cfwd' = [cfwd EXCEPT ![p] = l] /\ crev' = [crev EXCEPT ![l] = p]
    BY DEF Cache
  <1>4. cfwd' \in [PNs -> LIDs \cup {None}] /\ crev' \in [LIDs -> PNs \cup {None}]
    BY <1>1, <1>2, <1>3
  <1>5. /\ \A q \in PNs : cfwd'[q] = IF q = p THEN l ELSE cfwd[q]
        /\ \A k \in LIDs : crev'[k] = IF k = l THEN p ELSE crev[k]
    BY <1>2, <1>3
  <1>6. Linked'
    BY <1>5 DEF Shape, Linked
  <1> QED BY <1>4, <1>6

\* Entries of an announced pair are written to the store, both or one.
LEMMA PairLinked ==
  ASSUME Shape, NEW p, NEW l, <<p, l>> \in Announced, cfwd' = cfwd, crev' = crev,
         fwd' \in {fwd, [fwd EXCEPT ![p] = l]}, rev' \in {rev, [rev EXCEPT ![l] = p]}
  PROVE  /\ fwd' \in [PNs -> LIDs \cup {None}] /\ rev' \in [LIDs -> PNs \cup {None}] /\ Linked'
  <1>1. p \in PNs /\ l \in LIDs
    BY Named
  <1>2. fwd \in [PNs -> LIDs \cup {None}] /\ rev \in [LIDs -> PNs \cup {None}]
    BY DEF Shape, TypeOK, TypeStore
  <1>3. fwd' \in [PNs -> LIDs \cup {None}] /\ rev' \in [LIDs -> PNs \cup {None}]
    BY <1>1, <1>2
  <1>4. /\ \A q \in PNs : fwd'[q] = fwd[q] \/ (q = p /\ fwd'[q] = l)
        /\ \A k \in LIDs : rev'[k] = rev[k] \/ (k = l /\ rev'[k] = p)
    BY <1>2
  <1>5. Linked'
    BY <1>4 DEF Shape, Linked
  <1> QED BY <1>3, <1>5

LEMMA SameLinked ==
  ASSUME Shape, fwd' = fwd, rev' = rev, cfwd' = cfwd, crev' = crev
  PROVE  /\ fwd' \in [PNs -> LIDs \cup {None}] /\ rev' \in [LIDs -> PNs \cup {None}]
         /\ cfwd' \in [PNs -> LIDs \cup {None}] /\ crev' \in [LIDs -> PNs \cup {None}] /\ Linked'
  BY DEF Shape, TypeOK, TypeStore, Linked

\* The rest of what a step may do to the types.
LEMMA Whole ==
  ASSUME Shape, JobsOK', Linked',
         fwd' \in [PNs -> LIDs \cup {None}], rev' \in [LIDs -> PNs \cup {None}],
         cfwd' \in [PNs -> LIDs \cup {None}], crev' \in [LIDs -> PNs \cup {None}],
         deviceList' \in [PNs -> SUBSET Devices], session' \in [Addresses -> Sessions],
         migrated' \subseteq PNs \X Devices, owner' \in {None, Traffic} \cup Jobs,
         \/ load' = load /\ (owner' = owner \/ owner' # Traffic)
         \/ load' = Idle /\ owner' = None,
         fresh' \in 0..MaxSessions, failures' \in 0..MaxFailures, restarts' \in 0..MaxRestarts
  PROVE  Shape'
  <1>1. Idle \in [pn : PNs \cup {None}, device : Devices \cup {None},
                  home : PNs \cup LIDs \cup {None}, record : Sessions, mapped : LIDs \cup {None}]
    BY DEF Idle, NoSession, Sessions
  <1>2. TypeTraffic'
    BY <1>1 DEF Shape, TypeOK, TypeTraffic
  <1>3. TypeStore' /\ TypeJobs'
    BY DEF TypeStore, TypeJobs, JobsOK
  <1>4. LoadShape'
    BY LidMappingAssumption DEF LidMappingAssumption, Shape, LoadShape
  <1> QED BY <1>2, <1>3, <1>4 DEF Shape, TypeOK, JobsOK
\* A step of the mappings and the announcements only.
LEMMA Plain ==
  ASSUME Shape, JobsOK', Linked',
         fwd' \in [PNs -> LIDs \cup {None}], rev' \in [LIDs -> PNs \cup {None}],
         cfwd' \in [PNs -> LIDs \cup {None}], crev' \in [LIDs -> PNs \cup {None}],
         UNCHANGED <<deviceList, session, migrated, owner, load, bounds>>
  PROVE  Shape'
  <1>1. /\ deviceList' \in [PNs -> SUBSET Devices] /\ session' \in [Addresses -> Sessions]
        /\ migrated' \subseteq PNs \X Devices
    BY DEF Shape, TypeOK, TypeStore
  <1>2. /\ owner' \in {None, Traffic} \cup Jobs /\ owner' = owner /\ load' = load
        /\ fresh' \in 0..MaxSessions /\ failures' \in 0..MaxFailures /\ restarts' \in 0..MaxRestarts
    BY DEF bounds, Shape, TypeOK, TypeJobs, TypeTraffic
  <1> QED BY <1>1, <1>2, Whole

LEMMA StartShape == ASSUME Shape, NEW j \in Jobs, Start(j) PROVE Shape'
  <1>1. PICK k \in Kinds, a \in Announced, d \in Devices :
          job' = [job EXCEPT ![j] =
                    [Blank(IF k \in {"altLid", "altPn"} THEN "lock" ELSE "check") EXCEPT
                       !.kind = k, !.pn = a[1], !.lid = a[2], !.devs = {d}]]
    BY DEF Start
  <1>2. PICK pc \in {"lock", "check"} :
          job' = [job EXCEPT ![j] = [Blank(pc) EXCEPT !.kind = k, !.pn = a[1], !.lid = a[2],
                                                      !.devs = {d}]]
    BY <1>1
  <1> DEFINE new == [Blank(pc) EXCEPT !.kind = k, !.pn = a[1], !.lid = a[2], !.devs = {d}]
  <1>3. a[1] \in PNs /\ a[2] \in LIDs /\ <<a[1], a[2]>> \in Announced
    BY LidMappingAssumption DEF LidMappingAssumption
  <1>4. Blank(pc) \in JobRecords
    BY BlankType DEF Labels
  <1>5. new \in JobRecords /\ new.pc = pc /\ new.pn = a[1] /\ new.lid = a[2]
    BY <1>3, <1>4 DEF JobRecords, Blank
  <1>6. job \in [Jobs -> JobRecords] /\ locked' = locked /\ locked \subseteq PNs \cup LIDs
    BY DEF Start, Shape, TypeOK, TypeJobs
  <1> HIDE DEF new
  <1>7. job' = [job EXCEPT ![j] = new]
    BY <1>2 DEF new
  <1>8. JobShape'
    BY <1>3, <1>5, <1>6, <1>7 DEF Shape, JobShape, At
  <1>9. JobsOK'
    BY <1>5, <1>6, <1>7, <1>8 DEF JobsOK
  <1> QED BY <1>9, SameLinked, Plain DEF Start, store, cache

LEMMA LockShape == ASSUME Shape, NEW j \in Jobs, Lock(j) PROVE Shape'
  <1>1. PICK label \in {"look", "check"} : job' = [job EXCEPT ![j].pc = label]
    BY DEF Lock
  <1>2. job[j].pc = "lock" /\ locked' = locked \cup {Alt(j)}
    BY DEF Lock, At
  <1>3. <<job[j].pn, job[j].lid>> \in Announced
    BY <1>2 DEF Shape, JobShape
  <1>4. Alt(j) \in PNs \cup LIDs
    BY <1>3, Named DEF Alt
  <1>5. job \in [Jobs -> JobRecords] /\ locked \subseteq PNs \cup LIDs
    BY DEF Shape, TypeOK, TypeJobs
  <1>6. /\ job' \in [Jobs -> JobRecords] /\ job'[j] = [job[j] EXCEPT !.pc = label]
        /\ \A i \in Jobs : i # j => job'[i] = job[i]
    BY <1>1, <1>5 DEF JobRecords, Labels
  <1>7. job'[j].pn = job[j].pn /\ job'[j].lid = job[j].lid /\ job'[j].pc = label
    BY <1>5, <1>6 DEF JobRecords
  <1>8. JobShape'
    BY <1>3, <1>6, <1>7 DEF Shape, JobShape, At
  <1>9. JobsOK'
    BY <1>2, <1>4, <1>5, <1>6, <1>8 DEF JobsOK
  <1> QED BY <1>9, SameLinked, Plain DEF Lock, store, cache

\* An answer of the store is kept while the cache is filled from it.
LEMMA Seen ==
  ASSUME Shape, NEW j \in Jobs, NEW label \in {"looked", "checked"}, NEW seen \in PNs \cup LIDs \cup {None},
         job[j].pc \notin {"idle", "done"}, locked' = locked,
         job' = [job EXCEPT ![j].pc = label, ![j].seen = seen],
         label = "looked" /\ seen # None => <<seen, job[j].lid>> \in Announced,
         label = "checked" /\ seen # None => <<job[j].pn, seen>> \in Announced
  PROVE  JobsOK'
  <1>1. job \in [Jobs -> JobRecords] /\ locked' \subseteq PNs \cup LIDs
    BY DEF Shape, TypeOK, TypeJobs
  <1>2. /\ job' \in [Jobs -> JobRecords]
        /\ job'[j] = [job[j] EXCEPT !.pc = label, !.seen = seen]
        /\ \A i \in Jobs : i # j => job'[i] = job[i]
    <2> DEFINE new == [job[j] EXCEPT !.pc = label, !.seen = seen]
    <2>1. label \in Labels
      BY DEF Labels
    <2>2. new \in JobRecords
      BY <1>1, <2>1 DEF JobRecords
    <2>3. job'[j] = new /\ \A i \in Jobs : i # j => job'[i] = job[i]
      BY <1>1
    <2>4. job' = [i \in Jobs |-> job'[i]]
      BY <1>1
    <2> QED BY <1>1, <2>2, <2>3, <2>4
  <1>3. /\ job'[j].pn = job[j].pn /\ job'[j].lid = job[j].lid /\ job'[j].pc = label
        /\ job'[j].seen = seen
    BY <1>1, <1>2 DEF JobRecords
  <1>4. JobShape'
    BY <1>2, <1>3 DEF Shape, JobShape, At
  <1> QED BY <1>1, <1>2, <1>4 DEF JobsOK

LEMMA DecideOK ==
  ASSUME Shape, NEW j \in Jobs, NEW known, Decide(j, known), job[j].pc \notin {"idle", "done"}
  PROVE  JobsOK'
  BY Finished, Gone DEF Decide, Labels

LEMMA AfterStoreOK ==
  ASSUME Shape, NEW j \in Jobs, AfterStore(j), job[j].pc \notin {"idle", "done"}
  PROVE  JobsOK'
  <1>1. Finish(j) \/ Goto(j, "list") \/ Goto(j, "migrate")
    BY DEF AfterStore
  <1> QED BY <1>1, Finished, Gone DEF Labels

LEMMA CompareOK ==
  ASSUME Shape, NEW j \in Jobs, NEW existing, Compare(j, existing), job[j].pc \notin {"idle", "done"}
  PROVE  JobsOK'
  BY AfterStoreOK, Gone DEF Compare, Labels

LEMMA LookShape == ASSUME Shape, NEW j \in Jobs, Look(j) \/ Looked(j) PROVE Shape'
  <1>1. job[j].pc \in {"look", "looked"}
    BY DEF Look, Looked, At
  <1>2. <<job[j].pn, job[j].lid>> \in Announced /\ job[j].lid \in LIDs
    BY <1>1, Named DEF Shape, JobShape
  <1>3. CASE Look(j)
    <2>1. CASE Decide(j, crev[job[j].lid])
      <3>1. JobsOK'
        BY <1>1, <2>1, DecideOK
      <3> QED BY <1>3, <3>1, SameLinked, Plain DEF Look, store, cache
    <2>2. CASE job' = [job EXCEPT ![j].pc = "looked", ![j].seen = rev[job[j].lid]] /\ locked' = locked
      <3>1. rev[job[j].lid] \in PNs \cup LIDs \cup {None}
        BY <1>2 DEF Shape, TypeOK, TypeStore
      <3>2. rev[job[j].lid] # None => <<rev[job[j].lid], job[j].lid>> \in Announced
        BY <1>2 DEF Shape, Linked
      <3>3. JobsOK'
        BY <1>1, <2>2, <3>1, <3>2, Seen
      <3> QED BY <1>3, <3>3, SameLinked, Plain DEF Look, store, cache
    <2> QED BY <1>3, <2>1, <2>2 DEF Look
  <1>4. CASE Looked(j)
    <2>1. JobsOK'
      BY <1>1, <1>4, DecideOK DEF Looked
    <2>2. fwd' = fwd /\ rev' = rev /\ UNCHANGED <<deviceList, session, migrated, owner, load, bounds>>
      BY <1>4 DEF Looked, store
    <2>3. CASE cfwd' = cfwd /\ crev' = crev
      BY <2>1, <2>2, <2>3, SameLinked, Plain
    <2>4. CASE job[j].seen # None /\ Cache(job[j].seen, job[j].lid)
      <3>1. <<job[j].seen, job[j].lid>> \in Announced
        BY <1>4, <2>4 DEF Looked, At, Shape, JobShape
      <3>2. /\ cfwd' \in [PNs -> LIDs \cup {None}] /\ crev' \in [LIDs -> PNs \cup {None}] /\ Linked'
        BY <2>2, <2>4, <3>1, CachedLinked
      <3>3. fwd' \in [PNs -> LIDs \cup {None}] /\ rev' \in [LIDs -> PNs \cup {None}]
        BY <2>2 DEF Shape, TypeOK, TypeStore
      <3> QED BY <2>1, <2>2, <3>2, <3>3, Plain
    <2> QED BY <1>4, <2>3, <2>4 DEF Looked, cache
  <1> QED BY <1>3, <1>4

LEMMA CheckShape == ASSUME Shape, NEW j \in Jobs, Check(j) \/ Checked(j) PROVE Shape'
  <1>1. job[j].pc \in {"check", "checked"}
    BY DEF Check, Checked, At
  <1>2. <<job[j].pn, job[j].lid>> \in Announced /\ job[j].pn \in PNs
    BY <1>1, Named DEF Shape, JobShape
  <1>3. CASE Check(j)
    <2>1. CASE Compare(j, cfwd[job[j].pn])
      <3>1. JobsOK'
        BY <1>1, <2>1, CompareOK
      <3> QED BY <1>3, <3>1, SameLinked, Plain DEF Check, store, cache
    <2>2. CASE job' = [job EXCEPT ![j].pc = "checked", ![j].seen = fwd[job[j].pn]] /\ locked' = locked
      <3>1. fwd[job[j].pn] \in PNs \cup LIDs \cup {None}
        BY <1>2 DEF Shape, TypeOK, TypeStore
      <3>2. fwd[job[j].pn] # None => <<job[j].pn, fwd[job[j].pn]>> \in Announced
        BY <1>2 DEF Shape, Linked
      <3>3. JobsOK'
        BY <1>1, <2>2, <3>1, <3>2, Seen
      <3> QED BY <1>3, <3>3, SameLinked, Plain DEF Check, store, cache
    <2> QED BY <1>3, <2>1, <2>2 DEF Check
  <1>4. CASE Checked(j)
    <2>1. JobsOK'
      BY <1>1, <1>4, CompareOK DEF Checked
    <2>2. fwd' = fwd /\ rev' = rev /\ UNCHANGED <<deviceList, session, migrated, owner, load, bounds>>
      BY <1>4 DEF Checked, store
    <2>3. CASE cfwd' = cfwd /\ crev' = crev
      BY <2>1, <2>2, <2>3, SameLinked, Plain
    <2>4. CASE job[j].seen # None /\ Cache(job[j].pn, job[j].seen)
      <3>1. <<job[j].pn, job[j].seen>> \in Announced
        BY <1>4, <2>4 DEF Checked, At, Shape, JobShape
      <3>2. /\ cfwd' \in [PNs -> LIDs \cup {None}] /\ crev' \in [LIDs -> PNs \cup {None}] /\ Linked'
        BY <2>2, <2>4, <3>1, CachedLinked
      <3>3. fwd' \in [PNs -> LIDs \cup {None}] /\ rev' \in [LIDs -> PNs \cup {None}]
        BY <2>2 DEF Shape, TypeOK, TypeStore
      <3> QED BY <2>1, <2>2, <3>2, <3>3, Plain
    <2> QED BY <1>4, <2>3, <2>4 DEF Checked, cache
  <1> QED BY <1>3, <1>4

LEMMA WriteShape ==
  ASSUME Shape, NEW j \in Jobs, Write(j) \/ WriteFails(j) \/ UpdateCache(j) PROVE Shape'
  <1>1. job[j].pc \in {"write", "written"}
    BY DEF Write, WriteFails, UpdateCache, At
  <1>2. <<job[j].pn, job[j].lid>> \in Announced
    BY <1>1 DEF Shape, JobShape
  <1>3. CASE Write(j)
    <2>1. JobsOK'
      BY <1>1, <1>3, Gone DEF Write, Labels
    <2>2. /\ fwd' \in [PNs -> LIDs \cup {None}] /\ rev' \in [LIDs -> PNs \cup {None}] /\ Linked'
      BY <1>2, <1>3, PairLinked DEF Write, Pair, cache
    <2>3. cfwd' \in [PNs -> LIDs \cup {None}] /\ crev' \in [LIDs -> PNs \cup {None}]
      BY <1>3 DEF Write, cache, Shape, TypeOK, TypeStore
    <2> QED BY <1>3, <2>1, <2>2, <2>3, Plain DEF Write
  <1>4. CASE UpdateCache(j)
    <2>1. JobsOK'
      BY <1>1, <1>4, AfterStoreOK DEF UpdateCache
    <2>2. fwd' = fwd /\ rev' = rev
      BY <1>4 DEF UpdateCache, store
    <2>3. /\ cfwd' \in [PNs -> LIDs \cup {None}] /\ crev' \in [LIDs -> PNs \cup {None}] /\ Linked'
      BY <1>2, <1>4, <2>2, CachedLinked DEF UpdateCache
    <2>4. fwd' \in [PNs -> LIDs \cup {None}] /\ rev' \in [LIDs -> PNs \cup {None}]
      BY <2>2 DEF Shape, TypeOK, TypeStore
    <2> QED BY <1>4, <2>1, <2>3, <2>4, Plain DEF UpdateCache
  <1>5. CASE WriteFails(j)
    <2>1. JobsOK'
      BY <1>5, Finished DEF WriteFails
    <2>2. /\ fwd' \in [PNs -> LIDs \cup {None}] /\ rev' \in [LIDs -> PNs \cup {None}] /\ Linked'
      BY <1>2, <1>5, PairLinked DEF WriteFails, cache
    <2>3. /\ cfwd' \in [PNs -> LIDs \cup {None}] /\ crev' \in [LIDs -> PNs \cup {None}]
          /\ deviceList' \in [PNs -> SUBSET Devices] /\ session' \in [Addresses -> Sessions]
          /\ migrated' \subseteq PNs \X Devices
      BY <1>5 DEF WriteFails, cache, Shape, TypeOK, TypeStore
    <2>4. /\ owner' = owner /\ owner' \in {None, Traffic} \cup Jobs /\ load' = load
          /\ fresh' \in 0..MaxSessions /\ restarts' \in 0..MaxRestarts
      BY <1>5 DEF WriteFails, Shape, TypeOK, TypeJobs, TypeTraffic
    <2>5. failures' \in 0..MaxFailures
      BY <1>5, LidMappingAssumption DEF LidMappingAssumption, WriteFails, Shape, TypeOK, TypeTraffic
    <2> QED BY <2>1, <2>2, <2>3, <2>4, <2>5, Whole
  <1> QED BY <1>3, <1>4, <1>5
LEMMA OwnListShape == ASSUME Shape, NEW j \in Jobs, OwnList(j) PROVE Shape'
  <1>1. JobsOK'
    BY Gone DEF OwnList, At, Labels
  <1>2. deviceList' \in [PNs -> SUBSET Devices]
    BY LidMappingAssumption DEF LidMappingAssumption, OwnList, Shape, TypeOK, TypeStore
  <1>3. session' \in [Addresses -> Sessions] /\ migrated' \subseteq PNs \X Devices
    BY DEF OwnList, Shape, TypeOK, TypeStore
  <1>4. /\ owner' \in {None, Traffic} \cup Jobs /\ owner' = owner /\ load' = load
        /\ fresh' \in 0..MaxSessions /\ failures' \in 0..MaxFailures /\ restarts' \in 0..MaxRestarts
    BY DEF OwnList, bounds, Shape, TypeOK, TypeJobs, TypeTraffic
  <1>5. fwd' = fwd /\ rev' = rev /\ cfwd' = cfwd /\ crev' = crev
    BY DEF OwnList, store, cache
  <1> QED BY <1>1, <1>2, <1>3, <1>4, <1>5, SameLinked, Whole

\* A job goes on with other devices.
LEMMA Narrowed ==
  ASSUME Shape, NEW j \in Jobs, NEW label \in {"discover", "move"}, NEW devs \in SUBSET Devices,
         job[j].pc \notin {"idle", "done"}, locked' = locked,
         job' = [job EXCEPT ![j].pc = label, ![j].devs = devs]
  PROVE  JobsOK'
  <1> DEFINE new == [job[j] EXCEPT !.pc = label, !.devs = devs]
  <1>1. job \in [Jobs -> JobRecords] /\ locked' \subseteq PNs \cup LIDs
    BY DEF Shape, TypeOK, TypeJobs
  <1>2. label \in Labels
    BY DEF Labels
  <1>3. new \in JobRecords /\ new.pn = job[j].pn /\ new.lid = job[j].lid /\ new.pc = label
    BY <1>1, <1>2 DEF JobRecords
  <1>4. job'[j] = new /\ \A i \in Jobs : i # j => job'[i] = job[i]
    BY <1>1
  <1>5. job' = [i \in Jobs |-> job'[i]]
    BY <1>1
  <1>6. job' \in [Jobs -> JobRecords]
    BY <1>1, <1>3, <1>4, <1>5
  <1>7. JobShape'
    BY <1>3, <1>4 DEF Shape, JobShape, At
  <1> QED BY <1>1, <1>6, <1>7 DEF JobsOK

LEMMA MigrateShape == ASSUME Shape, NEW j \in Jobs, MigrateDevices(j) \/ Discover(j) PROVE Shape'
  <1>1. job[j].pc \in {"migrate", "discover"} /\ job[j].devs \in SUBSET Devices
    BY DEF MigrateDevices, Discover, At, Shape, TypeOK, TypeJobs, JobRecords
  <1>2. <<job[j].pn, job[j].lid>> \in Announced /\ job[j].pn \in PNs
    BY <1>1, Named DEF Shape, JobShape
  <1>3. JobsOK'
    <2>1. CASE MigrateDevices(j)
      <3> DEFINE devs == {d \in job[j].devs \cup deviceList[job[j].pn] : <<job[j].pn, d>> \notin migrated}
      <3>1. devs \in SUBSET Devices
        BY <1>1, <1>2 DEF Shape, TypeOK, TypeStore
      <3>2. \/ Finish(j)
            \/ job' = [job EXCEPT ![j].pc = "discover", ![j].devs = devs] /\ locked' = locked
        BY <2>1 DEF MigrateDevices
      <3> HIDE DEF devs
      <3> QED BY <1>1, <3>1, <3>2, Finished, Narrowed
    <2>2. CASE Discover(j)
      <3> DEFINE devs == {d \in job[j].devs : session[<<job[j].pn, d>>] # NoSession}
      <3>1. devs \in SUBSET Devices
        BY <1>1
      <3>2. job' = [job EXCEPT ![j].pc = "move", ![j].devs = devs] /\ locked' = locked
        BY <2>2 DEF Discover
      <3> HIDE DEF devs
      <3> QED BY <1>1, <3>1, <3>2, Narrowed
    <2> QED BY <2>1, <2>2
  <1> QED BY <1>3, SameLinked, Plain DEF MigrateDevices, Discover, store, cache

\* The copies that the transaction of a move reads.
LEMMA Copied ==
  ASSUME Shape, NEW j \in Jobs, BeginMove(j)
  PROVE  /\ JobsOK' /\ job[j].pc = "move" /\ job[j].pn \in PNs
         /\ job'[j] = [job[j] EXCEPT !.pc = "moving",
                                     !.copies = [d \in Devices |-> session[<<job[j].pn, d>>]]]
         /\ \A i \in Jobs : i # j => job'[i] = job[i]
  <1> DEFINE copies == [d \in Devices |-> session[<<job[j].pn, d>>]]
             new == [job[j] EXCEPT !.pc = "moving", !.copies = copies]
  <1>1. job[j].pc = "move"
    BY DEF BeginMove, At
  <1>2. <<job[j].pn, job[j].lid>> \in Announced /\ job[j].pn \in PNs
    BY <1>1, Named DEF Shape, JobShape
  <1>3. copies \in [Devices -> Sessions]
    BY <1>2 DEF Shape, TypeOK, TypeStore, Addresses
  <1>4. job \in [Jobs -> JobRecords] /\ locked' \subseteq PNs \cup LIDs
    BY DEF BeginMove, Shape, TypeOK, TypeJobs
  <1>5. job' = [job EXCEPT ![j].pc = "moving", ![j].copies = copies]
    BY DEF BeginMove
  <1> HIDE DEF copies
  <1>6. new \in JobRecords /\ new.pn = job[j].pn /\ new.lid = job[j].lid /\ new.pc = "moving"
    BY <1>3, <1>4 DEF JobRecords, Labels
  <1>7. job'[j] = new /\ \A i \in Jobs : i # j => job'[i] = job[i]
    BY <1>4, <1>5
  <1>8. job' = [i \in Jobs |-> job'[i]]
    BY <1>4, <1>5
  <1>9. job' \in [Jobs -> JobRecords]
    BY <1>4, <1>6, <1>7, <1>8
  <1>10. JobShape'
    BY <1>2, <1>6, <1>7 DEF Shape, JobShape, At
  <1> QED BY <1>1, <1>2, <1>4, <1>7, <1>9, <1>10 DEF JobsOK, copies

LEMMA BeginMoveShape == ASSUME Shape, NEW j \in Jobs, BeginMove(j) PROVE Shape'
  <1>1. JobsOK'
    BY Copied
  <1>2. /\ deviceList' \in [PNs -> SUBSET Devices] /\ session' \in [Addresses -> Sessions]
        /\ migrated' \subseteq PNs \X Devices
    BY DEF BeginMove, Shape, TypeOK, TypeStore
  <1>3. /\ owner' = j /\ owner' # Traffic /\ load' = load
        /\ fresh' \in 0..MaxSessions /\ failures' \in 0..MaxFailures /\ restarts' \in 0..MaxRestarts
    BY LidMappingAssumption DEF LidMappingAssumption, BeginMove, bounds, Shape, TypeOK, TypeTraffic
  <1>4. fwd' = fwd /\ rev' = rev /\ cfwd' = cfwd /\ crev' = crev
    BY DEF BeginMove, store, cache
  <1> QED BY <1>1, <1>2, <1>3, <1>4, SameLinked, Whole

\* The records after writes of a move have their type.
LEMMA MoveType ==
  ASSUME Shape, NEW j \in Jobs, NEW toLid \in SUBSET Devices, NEW fromPn \in SUBSET Devices
  PROVE  Move(j, toLid, fromPn) \in [Addresses -> Sessions]
  <1>1. job[j].copies \in [Devices -> Sessions] /\ session \in [Addresses -> Sessions]
    BY DEF Shape, TypeOK, TypeJobs, JobRecords, TypeStore
  <1>2. NoSession \in Sessions
    BY DEF NoSession, Sessions
  <1> QED BY <1>1, <1>2 DEF Move

LEMMA CommitMoveShape ==
  ASSUME Shape, NEW j \in Jobs, CommitMove(j) \/ CommitMoveFails(j) PROVE Shape'
  <1>1. job[j].pc = "moving" /\ Moved(j) \in SUBSET Devices
    BY DEF CommitMove, CommitMoveFails, At, Moved, Shape, TypeOK, TypeJobs, JobRecords
  <1>2. job[j].pn \in PNs
    BY <1>1, Named DEF Shape, JobShape
  <1>3. JobsOK'
    BY Finished DEF CommitMove, CommitMoveFails
  <1>4. session' \in [Addresses -> Sessions]
    BY <1>1, MoveType DEF CommitMove, CommitMoveFails
  <1>5. migrated' \subseteq PNs \X Devices
    BY <1>1, <1>2 DEF CommitMove, CommitMoveFails, Mark, Shape, TypeOK, TypeStore
  <1>6. deviceList' \in [PNs -> SUBSET Devices]
    BY DEF CommitMove, CommitMoveFails, Shape, TypeOK, TypeStore
  <1>7. /\ owner' = None /\ owner' # Traffic /\ load' = load
        /\ fresh' \in 0..MaxSessions /\ restarts' \in 0..MaxRestarts
    BY LidMappingAssumption DEF LidMappingAssumption, CommitMove, CommitMoveFails, bounds, Shape,
       TypeOK, TypeTraffic
  <1>8. failures' \in 0..MaxFailures
    BY LidMappingAssumption DEF LidMappingAssumption, CommitMove, CommitMoveFails, bounds, Shape,
       TypeOK, TypeTraffic
  <1>9. fwd' = fwd /\ rev' = rev /\ cfwd' = cfwd /\ crev' = crev
    BY DEF CommitMove, CommitMoveFails, store, cache
  <1> QED BY <1>3, <1>4, <1>5, <1>6, <1>7, <1>8, <1>9, SameLinked, Whole

\* What a mapping, or the server, makes of an address was announced.
LEMMA HomeType ==
  ASSUME Shape, NEW p \in PNs
  PROVE  /\ Known(p) \in LIDs \cup {None} /\ (Known(p) # None => <<p, Known(p)>> \in Announced)
         /\ \A l \in LIDs \cup {None} : Home(p, l) \in PNs \cup LIDs
  BY DEF Known, Home, Shape, TypeOK, TypeStore, Linked

LEMMA LoadShapes ==
  ASSUME Shape, NEW p \in Talkers, NEW d \in Devices, Load(p, d) PROVE Shape'
  <1>1. p \in PNs
    BY LidMappingAssumption DEF LidMappingAssumption
  <1>2. PICK answer \in {None} \cup LIDs :
          LET l == IF Known(p) # None THEN Known(p) ELSE answer
          IN  /\ answer # None => Known(p) = None /\ <<p, answer>> \in Announced
              /\ load' = [pn |-> p, device |-> d, home |-> Home(p, l),
                          record |-> session[<<Home(p, l), d>>], mapped |-> answer]
              /\ IF l # None /\ cfwd[p] = None THEN Cache(p, l) ELSE UNCHANGED cache
    BY DEF Load
  <1> DEFINE l == IF Known(p) # None THEN Known(p) ELSE answer
  <1>3. l \in LIDs \cup {None} /\ (l # None => <<p, l>> \in Announced) /\ Home(p, l) \in PNs \cup LIDs
    BY <1>1, <1>2, HomeType
  <1>4. /\ load' = [pn |-> p, device |-> d, home |-> Home(p, l),
                    record |-> session[<<Home(p, l), d>>], mapped |-> answer]
        /\ (l # None /\ Cache(p, l)) \/ UNCHANGED cache
        /\ answer # None => <<p, answer>> \in Announced
    BY <1>2
  <1> HIDE DEF l
  <1>5. fwd' = fwd /\ rev' = rev
    BY DEF Load, store
  <1>6. /\ cfwd' \in [PNs -> LIDs \cup {None}] /\ crev' \in [LIDs -> PNs \cup {None}] /\ Linked'
    <2>1. CASE l # None /\ Cache(p, l)
      BY <1>3, <1>5, <2>1, CachedLinked
    <2>2. CASE UNCHANGED cache
      BY <1>5, <2>2, SameLinked DEF cache
    <2> QED BY <1>4, <2>1, <2>2
  <1>7. session[<<Home(p, l), d>>] \in Sessions
    BY <1>3 DEF Shape, TypeOK, TypeStore, Addresses
  <1>8. /\ load'.pn = p /\ load'.device = d /\ load'.home = Home(p, l) /\ load'.mapped = answer
        /\ load' \in [pn : PNs \cup {None}, device : Devices \cup {None},
                      home : PNs \cup LIDs \cup {None}, record : Sessions, mapped : LIDs \cup {None}]
    BY <1>1, <1>3, <1>4, <1>7
  <1>9. LoadShape'
    BY <1>1, <1>3, <1>4, <1>8 DEF LoadShape
  <1>10. TypeTraffic'
    BY <1>8 DEF Load, bounds, Shape, TypeOK, TypeTraffic
  <1>11. TypeStore'
    BY <1>5, <1>6 DEF Load, Shape, TypeOK, TypeStore
  <1>12. owner' = Traffic /\ JobsOK'
    BY SameJobs DEF Load
  <1>13. TypeJobs'
    BY <1>12 DEF TypeJobs, JobsOK
  <1> QED BY <1>6, <1>9, <1>10, <1>11, <1>12, <1>13 DEF Shape, TypeOK, JobsOK

LEMMA StoreShape ==
  ASSUME Shape, owner = Traffic, NEW r \in Sessions, Store(r), fresh' \in 0..MaxSessions
  PROVE  Shape'
  <1>1. JobsOK'
    BY SameJobs DEF Store
  <1>2. session' \in [Addresses -> Sessions]
    BY DEF Store, Shape, TypeOK, TypeStore
  <1>3. /\ cfwd' \in [PNs -> LIDs \cup {None}] /\ crev' \in [LIDs -> PNs \cup {None}]
        /\ deviceList' \in [PNs -> SUBSET Devices] /\ migrated' \subseteq PNs \X Devices
    BY DEF Store, cache, Shape, TypeOK, TypeStore
  <1>4. /\ owner' = None /\ load' = Idle /\ failures' \in 0..MaxFailures /\ restarts' \in 0..MaxRestarts
    BY DEF Store, Shape, TypeOK, TypeTraffic
  <1>5. fwd' \in [PNs -> LIDs \cup {None}] /\ rev' \in [LIDs -> PNs \cup {None}] /\ Linked'
    <2>1. CASE load.mapped = None
      <3>1. fwd' = fwd /\ rev' = rev /\ cfwd' = cfwd /\ crev' = crev
        BY <2>1 DEF Store, store, cache
      <3> QED BY <3>1, SameLinked
    <2>2. CASE load.mapped # None
      BY <2>2, PairLinked DEF Store, cache, Shape, LoadShape
    <2> QED BY <2>1, <2>2
  <1> QED BY <1>1, <1>2, <1>3, <1>4, <1>5, Whole

LEMMA RatchetShape == ASSUME Shape, Ratchet \/ Establish PROVE Shape'
  <1>1. CASE Ratchet
    <2>1. load.record.id \in Nat /\ load.record.step \in Nat
      BY DEF Shape, TypeOK, TypeTraffic, Sessions
    <2>2. Session(load.record.id, load.record.step + 1) \in Sessions
      BY <2>1 DEF Session, Sessions
    <2>3. fresh' \in 0..MaxSessions
      BY <1>1 DEF Ratchet, Shape, TypeOK, TypeTraffic
    <2> QED BY <1>1, <2>2, <2>3, StoreShape DEF Ratchet
  <1>2. CASE Establish
    <2>1. fresh \in 0..MaxSessions /\ MaxSessions \in Nat
      BY LidMappingAssumption DEF LidMappingAssumption, Shape, TypeOK, TypeTraffic
    <2>2. fresh' \in 0..MaxSessions /\ fresh + 1 \in Nat
      BY <1>2, <2>1 DEF Establish
    <2>3. Session(fresh + 1, 1) \in Sessions
      BY <2>2 DEF Session, Sessions
    <2> QED BY <1>2, <2>2, <2>3, StoreShape DEF Establish
  <1> QED BY <1>1, <1>2

LEMMA OthersShape ==
  ASSUME Shape, \/ Throw
                \/ \E a \in Addresses : DeleteSession(a)
                \/ \E p \in Talkers : FlushDevices(p)
                \/ UNCHANGED vars
  PROVE  Shape'
  <1>1. fwd' = fwd /\ rev' = rev /\ cfwd' = cfwd /\ crev' = crev
    BY DEF Throw, DeleteSession, FlushDevices, vars, store, cache
  <1>2. JobsOK'
    BY SameJobs DEF Throw, DeleteSession, FlushDevices, vars
  <1>3. /\ fresh' \in 0..MaxSessions /\ failures' \in 0..MaxFailures /\ restarts' \in 0..MaxRestarts
    BY DEF Throw, DeleteSession, FlushDevices, vars, bounds, Shape, TypeOK, TypeTraffic
  <1>4. /\ owner' \in {None, Traffic} \cup Jobs
        /\ (load' = load /\ owner' = owner) \/ (load' = Idle /\ owner' = None)
    BY DEF Throw, DeleteSession, FlushDevices, vars, Shape, TypeOK, TypeJobs
  <1>5. session' \in [Addresses -> Sessions]
    BY DEF Throw, DeleteSession, FlushDevices, vars, Shape, TypeOK, TypeStore, NoSession, Sessions
  <1>6. deviceList' \in [PNs -> SUBSET Devices] /\ migrated' \subseteq PNs \X Devices
    BY DEF Throw, DeleteSession, FlushDevices, vars, Shape, TypeOK, TypeStore
  <1> QED BY <1>1, <1>2, <1>3, <1>4, <1>5, <1>6, SameLinked, Whole

LEMMA RestartShape == ASSUME Shape, Restart PROVE Shape'
  <1>1. \A j \in Jobs : job'[j] \in {job[j], Blank("done")} /\ (job'[j] = job[j] => job[j].pc \in {"idle", "done"})
    BY DEF Restart, At, Blank
  <1>2. job \in [Jobs -> JobRecords] /\ Blank("done") \in JobRecords
    BY BlankType DEF Labels, Shape, TypeOK, TypeJobs
  <1>3. job' \in [Jobs -> JobRecords] /\ locked' \subseteq PNs \cup LIDs
    BY <1>2 DEF Restart
  <1>4. \A j \in Jobs : job'[j].pc \in {"idle", "done"}
    BY <1>1 DEF Blank
  <1>5. JobsOK'
    BY <1>3, <1>4 DEF JobsOK, JobShape
  <1>6. cfwd' \in [PNs -> LIDs \cup {None}] /\ crev' \in [LIDs -> PNs \cup {None}]
    BY DEF Restart
  <1>7. /\ fwd' \in [PNs -> LIDs \cup {None}] /\ rev' \in [LIDs -> PNs \cup {None}]
        /\ deviceList' \in [PNs -> SUBSET Devices] /\ session' \in [Addresses -> Sessions]
    BY DEF Restart, store, Shape, TypeOK, TypeStore
  <1>8. Linked'
    BY DEF Restart, store, Shape, Linked
  <1>9. /\ migrated' \subseteq PNs \X Devices /\ owner' = None /\ load' = Idle
        /\ fresh' \in 0..MaxSessions /\ failures' \in 0..MaxFailures
    BY DEF Restart, Shape, TypeOK, TypeTraffic
  <1>10. restarts' \in 0..MaxRestarts
    BY LidMappingAssumption DEF LidMappingAssumption, Restart, Shape, TypeOK, TypeTraffic
  <1> QED BY <1>5, <1>6, <1>7, <1>8, <1>9, <1>10, Whole

LEMMA NextShape == Shape /\ [Next]_vars => Shape'
  <1> SUFFICES ASSUME Shape, [Next]_vars PROVE Shape'
    OBVIOUS
  <1>1. ASSUME NEW j \in Jobs, Start(j) \/ JobStep(j) PROVE Shape'
    BY <1>1, StartShape, LockShape, LookShape, CheckShape, WriteShape, OwnListShape, MigrateShape,
       BeginMoveShape, CommitMoveShape DEF JobStep, StoreStep, MigrateStep
  <1>2. ASSUME NEW p \in Talkers, NEW d \in Devices, Load(p, d) PROVE Shape'
    BY <1>2, LoadShapes
  <1>3. CASE Ratchet \/ Establish
    BY <1>3, RatchetShape
  <1>4. CASE \/ Throw
             \/ \E a \in Addresses : DeleteSession(a)
             \/ \E p \in Talkers : FlushDevices(p)
             \/ UNCHANGED vars
    BY <1>4, OthersShape
  <1>5. CASE Restart
    BY <1>5, RestartShape
  <1> QED BY <1>1, <1>2, <1>3, <1>4, <1>5 DEF Next

LEMMA AlwaysShape == Spec => []Shape
  BY InitShape, NextShape, PTL DEF Spec

\* Every variable keeps its type: whatever the mapping store, the migrations
\* and the ratchets do to one another, an announcement that is dealt with has
\* its pair and the store only maps pairs that were announced.
THEOREM LidMappingTypeOK == Spec => []TypeOK
  <1>1. Shape => TypeOK
    BY DEF Shape
  <1> QED BY <1>1, AlwaysShape, PTL
-----------------------------------------------------------------------------
(* The locks of alt addresses.                                             *)

\* The announcement is inside of its turn of lidMappingMutex.
Inside(j) == Locks(j) /\ job[j].pc \notin {"idle", "lock", "done"}

Turns ==
  /\ \A j \in Jobs : job[j].pc \in {"idle", "done"} => ~Locks(j)
  /\ \A j \in Jobs : job[j].pc = "lock" => Locks(j)
  /\ \A j \in Jobs : Inside(j) => Alt(j) \in locked
  /\ \A a \in locked : \E j \in Jobs : Inside(j) /\ Alt(j) = a
  /\ \A i, j \in Jobs : Inside(i) /\ Inside(j) /\ Alt(i) = Alt(j) => i = j

\* The announcement goes on, in its turn if it had one.
Onward(j) ==
  /\ locked' = locked
  /\ \A i \in Jobs : i # j => job'[i] = job[i]
  /\ job'[j].kind = job[j].kind /\ job'[j].pn = job[j].pn /\ job'[j].lid = job[j].lid
  /\ job[j].pc \notin {"idle", "lock", "done"} /\ job'[j].pc \notin {"idle", "lock", "done"}

LEMMA OnwardTurns == ASSUME Turns, NEW j \in Jobs, Onward(j) PROVE Turns'
  <1>1. \A i \in Jobs : /\ Alt(i)' = Alt(i) /\ Locks(i)' = Locks(i) /\ Inside(i)' = Inside(i)
                        /\ job'[i].pc \in {"idle", "lock", "done"} => job'[i].pc = job[i].pc
    BY DEF Onward, Alt, Locks, Inside
  <1>2. locked' = locked
    BY DEF Onward
  <1> QED BY <1>1, <1>2 DEF Turns

LEMMA FinishTurns == ASSUME Shape, Turns, NEW j \in Jobs, Finish(j), Inside(j) \/ ~Locks(j) PROVE Turns'
  <1>1. /\ job'[j] = Blank("done") /\ \A i \in Jobs : i # j => job'[i] = job[i]
    BY Finished
  <1>2. ~Locks(j)' /\ ~Inside(j)'
    BY <1>1 DEF Locks, Inside, Blank
  <1>3. \A i \in Jobs : i # j => /\ Alt(i)' = Alt(i) /\ Locks(i)' = Locks(i) /\ Inside(i)' = Inside(i)
                                 /\ job'[i].pc = job[i].pc
    BY <1>1 DEF Alt, Locks, Inside
  <1>4. locked' = IF Locks(j) THEN locked \ {Alt(j)} ELSE locked
    BY DEF Finish
  <1>5. ~Locks(j) => ~Inside(j)
    BY DEF Inside
  <1>6. \A i \in Jobs : Inside(i)' => Alt(i)' \in locked'
    BY <1>2, <1>3, <1>4, <1>5 DEF Turns
  <1>7. \A a \in locked' : \E i \in Jobs : Inside(i)' /\ Alt(i)' = a
    BY <1>2, <1>3, <1>4, <1>5 DEF Turns
  <1>8. \A i \in Jobs : /\ job'[i].pc \in {"idle", "done"} => ~Locks(i)'
                        /\ job'[i].pc = "lock" => Locks(i)'
    BY <1>1, <1>2, <1>3 DEF Turns, Blank
  <1>9. \A i, k \in Jobs : Inside(i)' /\ Inside(k)' /\ Alt(i)' = Alt(k)' => i = k
    BY <1>2, <1>3 DEF Turns
  <1> QED BY <1>6, <1>7, <1>8, <1>9 DEF Turns

LEMMA StartTurns == ASSUME Shape, Turns, NEW j \in Jobs, Start(j) PROVE Turns'
  <1>1. PICK k \in Kinds, a \in Announced, d \in Devices :
          job' = [job EXCEPT ![j] =
                    [Blank(IF k \in {"altLid", "altPn"} THEN "lock" ELSE "check") EXCEPT
                       !.kind = k, !.pn = a[1], !.lid = a[2], !.devs = {d}]]
    BY DEF Start
  <1>2. job[j].pc = "idle" /\ locked' = locked /\ job \in [Jobs -> JobRecords]
    BY DEF Start, At, Shape, TypeOK, TypeJobs
  <1>3. /\ \A i \in Jobs : i # j => job'[i] = job[i]
        /\ job'[j].kind = k /\ job'[j].pc = IF k \in {"altLid", "altPn"} THEN "lock" ELSE "check"
    BY <1>1, <1>2 DEF Blank
  <1>4. /\ ~Inside(j) /\ ~Inside(j)' /\ job'[j].pc \notin {"idle", "done"}
        /\ job'[j].pc = "lock" => Locks(j)'
    BY <1>2, <1>3 DEF Inside, Locks
  <1>5. \A i \in Jobs : i # j => /\ Alt(i)' = Alt(i) /\ Locks(i)' = Locks(i) /\ Inside(i)' = Inside(i)
                                 /\ job'[i].pc = job[i].pc
    BY <1>3 DEF Alt, Locks, Inside
  <1> QED BY <1>2, <1>4, <1>5 DEF Turns

LEMMA LockTurns == ASSUME Shape, Turns, NEW j \in Jobs, Lock(j) PROVE Turns'
  <1>1. job \in [Jobs -> JobRecords]
    BY DEF Shape, TypeOK, TypeJobs
  <1>2. PICK label \in {"look", "check"} : job' = [job EXCEPT ![j].pc = label]
    BY DEF Lock
  <1>3. /\ job[j].pc = "lock" /\ Alt(j) \notin locked /\ locked' = locked \cup {Alt(j)}
        /\ \A i \in Jobs : i # j => job'[i] = job[i]
        /\ job'[j].kind = job[j].kind /\ job'[j].pn = job[j].pn /\ job'[j].lid = job[j].lid
        /\ job'[j].pc = label
    BY <1>1, <1>2 DEF Lock, At, JobRecords
  <1>4. ~Inside(j) /\ Alt(j)' = Alt(j) /\ Locks(j)' = Locks(j) /\ job'[j].pc \notin {"idle", "lock", "done"}
    BY <1>3 DEF Inside, Alt, Locks
  <1>5. \A i \in Jobs : i # j => /\ Alt(i)' = Alt(i) /\ Locks(i)' = Locks(i) /\ Inside(i)' = Inside(i)
                                 /\ job'[i].pc = job[i].pc
    BY <1>3 DEF Alt, Locks, Inside
  <1>6. Locks(j)
    BY <1>3 DEF Turns
  <1>7. Inside(j)'
    BY <1>4, <1>6 DEF Inside
  <1>8. \A i \in Jobs : Inside(i)' => Alt(i)' \in locked'
    BY <1>3, <1>4, <1>5 DEF Turns
  <1>9. \A a \in locked' : \E i \in Jobs : Inside(i)' /\ Alt(i)' = a
    BY <1>3, <1>4, <1>5, <1>7 DEF Turns
  <1>10. \A i \in Jobs : i # j /\ Inside(i)' => Alt(i)' # Alt(j)'
    BY <1>3, <1>4, <1>5 DEF Turns
  <1>11. \A i, k \in Jobs : Inside(i)' /\ Inside(k)' /\ Alt(i)' = Alt(k)' => i = k
    BY <1>5, <1>10 DEF Turns
  <1>12. \A i \in Jobs : /\ job'[i].pc \in {"idle", "done"} => ~Locks(i)'
                         /\ job'[i].pc = "lock" => Locks(i)'
    BY <1>4, <1>5 DEF Turns
  <1> QED BY <1>8, <1>9, <1>11, <1>12 DEF Turns

\* Every other step of an announcement goes on or ends it.
LEMMA StepTurns ==
  ASSUME Shape, Turns, NEW j \in Jobs,
         \/ Look(j) \/ Looked(j) \/ StoreStep(j) \/ MigrateStep(j)
  PROVE  Turns'
  <1>1. job[j].pc \notin {"idle", "lock", "done"}
    BY DEF Look, Looked, StoreStep, MigrateStep, Check, Checked, Write, WriteFails, UpdateCache,
           OwnList, MigrateDevices, Discover, BeginMove, CommitMove, CommitMoveFails, At
  <1>2. job \in [Jobs -> JobRecords]
    BY DEF Shape, TypeOK, TypeJobs
  <1>3. CASE Finish(j)
    BY <1>1, <1>3, FinishTurns DEF Inside
  <1>4. ASSUME NEW label \in Labels \ {"idle", "lock", "done"}, Goto(j, label) PROVE Onward(j)
    BY <1>1, <1>2, <1>4 DEF Goto, Onward, JobRecords
  <1>5. ASSUME NEW label \in Labels \ {"idle", "lock", "done"}, NEW seen, locked' = locked,
               job' = [job EXCEPT ![j].pc = label, ![j].seen = seen]
        PROVE  Onward(j)
    BY <1>1, <1>2, <1>5 DEF Onward, JobRecords
  <1>6. ASSUME NEW label \in Labels \ {"idle", "lock", "done"}, NEW devs, locked' = locked,
               job' = [job EXCEPT ![j].pc = label, ![j].devs = devs]
        PROVE  Onward(j)
    BY <1>1, <1>2, <1>6 DEF Onward, JobRecords
  <1>7. ASSUME NEW known, Decide(j, known) PROVE Finish(j) \/ Onward(j)
    BY <1>4, <1>7 DEF Decide, Labels
  <1>8. ASSUME AfterStore(j) PROVE Finish(j) \/ Onward(j)
    BY <1>4, <1>8 DEF AfterStore, Labels
  <1>9. ASSUME NEW existing, Compare(j, existing) PROVE Finish(j) \/ Onward(j)
    BY <1>4, <1>8, <1>9 DEF Compare, Labels
  <1>10. CASE Look(j) \/ Looked(j)
    <2>1. \/ Decide(j, crev[job[j].lid]) \/ Decide(j, job[j].seen)
          \/ job' = [job EXCEPT ![j].pc = "looked", ![j].seen = rev[job[j].lid]] /\ locked' = locked
      BY <1>10 DEF Look, Looked
    <2> QED BY <1>3, <1>5, <1>7, <2>1, OnwardTurns DEF Labels
  <1>11. CASE Check(j) \/ Checked(j)
    <2>1. \/ Compare(j, cfwd[job[j].pn]) \/ Compare(j, job[j].seen)
          \/ job' = [job EXCEPT ![j].pc = "checked", ![j].seen = fwd[job[j].pn]] /\ locked' = locked
      BY <1>11 DEF Check, Checked
    <2> QED BY <1>3, <1>5, <1>9, <2>1, OnwardTurns DEF Labels
  <1>12. CASE Write(j) \/ WriteFails(j) \/ UpdateCache(j) \/ OwnList(j)
    <2>1. Goto(j, "written") \/ Finish(j) \/ AfterStore(j) \/ Goto(j, "migrate")
      BY <1>12 DEF Write, WriteFails, UpdateCache, OwnList
    <2> QED BY <1>3, <1>4, <1>8, <2>1, OnwardTurns DEF Labels
  <1>13. CASE MigrateDevices(j) \/ Discover(j)
    <2>1. \/ Finish(j)
          \/ \E devs : /\ locked' = locked
                       /\ \/ job' = [job EXCEPT ![j].pc = "discover", ![j].devs = devs]
                          \/ job' = [job EXCEPT ![j].pc = "move", ![j].devs = devs]
      BY <1>13 DEF MigrateDevices, Discover
    <2> QED BY <1>3, <1>6, <2>1, OnwardTurns DEF Labels
  <1>14. CASE BeginMove(j)
    <2>1. /\ job'[j] = [job[j] EXCEPT !.pc = "moving",
                                      !.copies = [d \in Devices |-> session[<<job[j].pn, d>>]]]
          /\ \A i \in Jobs : i # j => job'[i] = job[i]
      BY <1>14, Copied
    <2>2. /\ job'[j].kind = job[j].kind /\ job'[j].pn = job[j].pn /\ job'[j].lid = job[j].lid
          /\ job'[j].pc = "moving"
      BY <1>2, <2>1 DEF JobRecords
    <2>3. Onward(j)
      BY <1>1, <1>14, <2>1, <2>2 DEF Onward, BeginMove
    <2> QED BY <2>3, OnwardTurns
  <1>15. CASE CommitMove(j) \/ CommitMoveFails(j)
    BY <1>3, <1>15 DEF CommitMove, CommitMoveFails
  <1> QED BY <1>10, <1>11, <1>12, <1>13, <1>14, <1>15 DEF StoreStep, MigrateStep

\* A step that leaves the announcements alone, or ends them all.
LEMMA OthersTurns ==
  ASSUME Turns, (job' = job /\ locked' = locked) \/ Restart PROVE Turns'
  <1>1. CASE job' = job /\ locked' = locked
    BY <1>1 DEF Turns, Inside, Locks, Alt
  <1>2. CASE Restart
    <2>1. locked' = {} /\ \A j \in Jobs : job'[j] \in {job[j], Blank("done")}
                         /\ job'[j].pc \in {"idle", "done"}
      BY <1>2 DEF Restart, At, Blank
    <2>2. \A j \in Jobs : ~Locks(j)' /\ ~Inside(j)' /\ job'[j].pc # "lock"
      BY <2>1 DEF Turns, Locks, Inside, Blank
    <2> QED BY <2>1, <2>2 DEF Turns
  <1> QED BY <1>1, <1>2

LEMMA InitTurns == Init => Turns
  BY DEF Init, Blank, Turns, Inside, Locks

LEMMA NextTurns == Shape /\ Turns /\ [Next]_vars => Turns'
  <1> SUFFICES ASSUME Shape, Turns, [Next]_vars PROVE Turns'
    OBVIOUS
  <1>1. ASSUME NEW j \in Jobs, Start(j) \/ JobStep(j) PROVE Turns'
    BY <1>1, StartTurns, LockTurns, StepTurns DEF JobStep
  <1>2. CASE job' = job /\ locked' = locked
    BY <1>2, OthersTurns
  <1>3. CASE Restart
    BY <1>3, OthersTurns
  <1>4. CASE \/ \E p \in Talkers, d \in Devices : Load(p, d)
             \/ Ratchet \/ Establish \/ Throw
             \/ \E a \in Addresses : DeleteSession(a)
             \/ \E p \in Talkers : FlushDevices(p)
             \/ UNCHANGED vars
    <2>1. job' = job /\ locked' = locked
      BY <1>4 DEF Load, Ratchet, Establish, Store, Throw, DeleteSession, FlushDevices, vars
    <2> QED BY <1>2, <2>1
  <1> QED BY <1>1, <1>3, <1>4 DEF Next

\* An alt address is only locked while one announcement that named it is dealt
\* with, and all others that name it wait: every return and throw of the
\* handler under lidMappingMutex releases it.
THEOREM LidMappingLockOwned == Spec => []LockOwned
  <1>1. Shape /\ Turns => LockOwned
    <2> SUFFICES ASSUME Turns, NEW a \in locked
                 PROVE  \E j \in Jobs :
                          /\ Locks(j) /\ Alt(j) = a /\ job[j].pc \notin {"idle", "lock", "done"}
                          /\ \A i \in Jobs : Locks(i) /\ Alt(i) = a /\ i # j => At(i, "lock")
      BY DEF LockOwned
    <2>1. PICK j \in Jobs : Inside(j) /\ Alt(j) = a
      BY DEF Turns
    <2>2. ASSUME NEW i \in Jobs, Locks(i), Alt(i) = a, i # j PROVE At(i, "lock")
      <3>1. ~Inside(i)
        BY <2>1, <2>2 DEF Turns
      <3>2. job[i].pc \notin {"idle", "done"}
        BY <2>2 DEF Turns
      <3> QED BY <2>2, <3>1, <3>2 DEF Inside, At
    <2> QED BY <2>1, <2>2 DEF Inside
  <1>2. Init => Shape /\ Turns
    BY InitShape, InitTurns
  <1>3. (Shape /\ Turns) /\ [Next]_vars => (Shape /\ Turns)'
    BY NextShape, NextTurns
  <1> QED BY <1>1, <1>2, <1>3, PTL DEF Spec
-----------------------------------------------------------------------------
(* Sessions: nothing is at two addresses, and nothing is lost.             *)

\* A PN is announced with one LID; a LID may change hands.
OneLid == \A a, b \in Announced : a[1] = b[1] => a[2] = b[2]

\* Whoever goes by a pair finds its PN mapped in the store.
Mapped ==
  /\ \A l \in LIDs : rev[l] # None => fwd[rev[l]] # None
  /\ \A j \in Jobs :
       /\ At(j, "looked") /\ job[j].seen # None => fwd[job[j].seen] # None
       /\ At(j, "checked") /\ job[j].seen # None => fwd[job[j].pn] # None
       /\ At(j, "written") => fwd[job[j].pn] # None

\* Traffic will store where it has loaded.
Steady == owner = Traffic => load.home = Home(load.pn, Known(load.pn))

\* The record is a session made before, and if it is stored then it is there.
Sole(addr, r) ==
  /\ r.id \in 1..fresh
  /\ \A a \in Addresses : session[a] # NoSession /\ session[a].id = r.id => a = addr /\ session[a] = r

\* The sessions that are stored, loaded, and copied by a move.
StoredOnce == \A a \in Addresses : session[a] # NoSession => Sole(a, session[a])

LoadedOnce ==
  owner = Traffic /\ load.record # NoSession => Sole(<<load.home, load.device>>, load.record)

CopiedOnce ==
  \A j \in Jobs : job[j].pc = "moving" =>
    /\ owner = j
    /\ \A d \in Moved(j) :
         /\ Sole(<<job[j].pn, d>>, job[j].copies[d])
         /\ \A e \in Moved(j) : job[j].copies[d].id = job[j].copies[e].id => d = e

Once == StoredOnce /\ LoadedOnce /\ CopiedOnce
Sound == failures = 0 => Mapped /\ Steady /\ Once

\* A step of an announcement other than those that write the store.
Lookup(j) ==
  \/ Start(j) \/ Lock(j) \/ Look(j) \/ Looked(j) \/ Check(j) \/ Checked(j) \/ UpdateCache(j)
  \/ OwnList(j) \/ MigrateDevices(j) \/ Discover(j)

\* What such a step makes of its job.
LEMMA LookupJob ==
  ASSUME Shape, NEW j \in Jobs, Lookup(j)
  PROVE  /\ \A i \in Jobs : i # j => job'[i] = job[i]
         /\ job'[j].pc \notin {"written", "moving"}
         /\ job'[j].pc = "looked" => job'[j].lid \in LIDs /\ job'[j].seen = rev[job'[j].lid]
         /\ job'[j].pc = "checked" => job'[j].seen = fwd[job'[j].pn]
  <1>1. job \in [Jobs -> JobRecords]
    BY DEF Shape, TypeOK, TypeJobs
  <1>2. CASE Start(j)
    <2>1. PICK k \in Kinds, a \in Announced, d \in Devices :
            job' = [job EXCEPT ![j] =
                      [Blank(IF k \in {"altLid", "altPn"} THEN "lock" ELSE "check") EXCEPT
                         !.kind = k, !.pn = a[1], !.lid = a[2], !.devs = {d}]]
      BY <1>2 DEF Start
    <2>2. job'[j].pc \in {"lock", "check"} /\ \A i \in Jobs : i # j => job'[i] = job[i]
      BY <1>1, <2>1 DEF Blank
    <2> QED BY <2>2
  <1>3. CASE \E label \in Labels \ {"written", "moving", "looked", "checked"} :
               job' = [job EXCEPT ![j].pc = label]
    BY <1>1, <1>3 DEF JobRecords
  <1>4. CASE Finish(j)
    BY <1>4, Finished DEF Blank
  <1>5. ASSUME NEW label, NEW devs, job' = [job EXCEPT ![j].pc = label, ![j].devs = devs],
               label \in {"discover", "move"}
        PROVE  /\ \A i \in Jobs : i # j => job'[i] = job[i]
               /\ job'[j].pc \in {"discover", "move"}
    BY <1>1, <1>5 DEF JobRecords
  <1>6. ASSUME NEW label \in {"looked", "checked"}, NEW seen,
               job' = [job EXCEPT ![j].pc = label, ![j].seen = seen]
        PROVE  /\ \A i \in Jobs : i # j => job'[i] = job[i]
               /\ job'[j].pc = label /\ job'[j].seen = seen
               /\ job'[j].lid = job[j].lid /\ job'[j].pn = job[j].pn
    BY <1>1, <1>6 DEF JobRecords
  <1>7. CASE Lock(j)
    BY <1>3, <1>7 DEF Lock, Labels
  <1>8. ASSUME NEW label \in Labels \ {"written", "moving", "looked", "checked"}, Goto(j, label)
        PROVE  \E k \in Labels \ {"written", "moving", "looked", "checked"} :
                 job' = [job EXCEPT ![j].pc = k]
    BY <1>8 DEF Goto
  <1>9. CASE Look(j) \/ Looked(j)
    <2>1. \/ Finish(j) \/ Goto(j, "check")
          \/ Look(j) /\ job' = [job EXCEPT ![j].pc = "looked", ![j].seen = rev[job[j].lid]]
      BY <1>9 DEF Look, Looked, Decide
    <2>2. Look(j) => job[j].lid \in LIDs
      BY Named DEF Look, At, Shape, JobShape
    <2>3. CASE Look(j) /\ job' = [job EXCEPT ![j].pc = "looked", ![j].seen = rev[job[j].lid]]
      BY <1>6, <2>2, <2>3
    <2> QED BY <1>3, <1>4, <1>8, <2>1, <2>3 DEF Labels
  <1>10. CASE Check(j) \/ Checked(j) \/ UpdateCache(j)
    <2>1. \/ Finish(j) \/ Goto(j, "list") \/ Goto(j, "migrate") \/ Goto(j, "write")
          \/ job' = [job EXCEPT ![j].pc = "checked", ![j].seen = fwd[job[j].pn]]
      BY <1>10 DEF Check, Checked, UpdateCache, Compare, AfterStore
    <2>2. CASE job' = [job EXCEPT ![j].pc = "checked", ![j].seen = fwd[job[j].pn]]
      BY <1>6, <2>2
    <2> QED BY <1>3, <1>4, <1>8, <2>1, <2>2 DEF Labels
  <1>11. CASE OwnList(j)
    BY <1>3, <1>8, <1>11 DEF OwnList, Labels
  <1>12. CASE MigrateDevices(j) \/ Discover(j)
    <2>1. \/ Finish(j)
          \/ \E devs : \/ job' = [job EXCEPT ![j].pc = "discover", ![j].devs = devs]
                       \/ job' = [job EXCEPT ![j].pc = "move", ![j].devs = devs]
      BY <1>12 DEF MigrateDevices, Discover
    <2> QED BY <1>4, <1>5, <2>1
  <1> QED BY <1>2, <1>7, <1>9, <1>10, <1>11, <1>12 DEF Lookup

\* What it makes of the rest: the cache may learn a pair whose PN is mapped.
LEMMA LookupRest ==
  ASSUME Shape, Mapped, NEW j \in Jobs, Lookup(j)
  PROVE  /\ fwd' = fwd /\ rev' = rev /\ session' = session /\ owner' = owner /\ load' = load
         /\ fresh' = fresh /\ failures' = failures
         /\ \/ cfwd' = cfwd
            \/ \E p, l : <<p, l>> \in Announced /\ Cache(p, l) /\ fwd[p] # None
  <1>1. /\ fwd' = fwd /\ rev' = rev /\ session' = session /\ owner' = owner /\ load' = load
        /\ fresh' = fresh /\ failures' = failures
    BY DEF Lookup, Start, Lock, Look, Looked, Check, Checked, UpdateCache, OwnList, MigrateDevices,
           Discover, store, bounds
  <1>2. \/ cfwd' = cfwd
        \/ Looked(j) /\ job[j].seen # None /\ Cache(job[j].seen, job[j].lid)
        \/ Checked(j) /\ job[j].seen # None /\ Cache(job[j].pn, job[j].seen)
        \/ UpdateCache(j) /\ Cache(job[j].pn, job[j].lid)
    BY DEF Lookup, Start, Lock, Look, Looked, Check, Checked, UpdateCache, OwnList, MigrateDevices,
           Discover, cache
  <1>3. CASE Looked(j) /\ job[j].seen # None /\ Cache(job[j].seen, job[j].lid)
    <2>1. <<job[j].seen, job[j].lid>> \in Announced /\ fwd[job[j].seen] # None
      BY <1>3 DEF Looked, At, Shape, JobShape, Mapped
    <2> QED BY <1>1, <1>3, <2>1
  <1>4. CASE Checked(j) /\ job[j].seen # None /\ Cache(job[j].pn, job[j].seen)
    <2>1. <<job[j].pn, job[j].seen>> \in Announced /\ fwd[job[j].pn] # None
      BY <1>4 DEF Checked, At, Shape, JobShape, Mapped
    <2> QED BY <1>1, <1>4, <2>1
  <1>5. CASE UpdateCache(j) /\ Cache(job[j].pn, job[j].lid)
    <2>1. <<job[j].pn, job[j].lid>> \in Announced /\ fwd[job[j].pn] # None
      BY <1>5 DEF UpdateCache, At, Shape, JobShape, Mapped
    <2> QED BY <1>1, <1>5, <2>1
  <1> QED BY <1>1, <1>2, <1>3, <1>4, <1>5
\* A step in which the store forgets no PN and no job comes by a pair.
LEMMA KeepMapped ==
  ASSUME Shape, Mapped, \A p \in PNs : fwd[p] # None => fwd'[p] # None,
         \A l \in LIDs : rev'[l] = rev[l] \/ (rev'[l] \in PNs /\ fwd'[rev'[l]] # None),
         \A j \in Jobs : job'[j].pc \in {"looked", "checked", "written"} => job'[j] = job[j]
  PROVE  Mapped'
  <1>1. \A l \in LIDs : rev'[l] # None => fwd'[rev'[l]] # None
    BY DEF Mapped, Shape, TypeOK, TypeStore
  <1>2. ASSUME NEW j \in Jobs, job'[j].pc \in {"looked", "checked", "written"}
        PROVE  /\ job'[j].pc = "looked" /\ job'[j].seen # None => fwd'[job'[j].seen] # None
               /\ job'[j].pc = "checked" /\ job'[j].seen # None => fwd'[job'[j].pn] # None
               /\ job'[j].pc = "written" => fwd'[job'[j].pn] # None
    <2>1. job'[j] = job[j]
      BY <1>2
    <2>2. job[j].pn \in PNs /\ (job[j].pc = "looked" /\ job[j].seen # None => job[j].seen \in PNs)
      BY <1>2, <2>1, Named DEF Shape, JobShape, At
    <2> QED BY <2>1, <2>2 DEF Mapped, At
  <1> QED BY <1>1, <1>2 DEF Mapped, At

LEMMA LookupMapped == ASSUME Shape, Mapped, NEW j \in Jobs, Lookup(j) PROVE Mapped'
  <1>1. fwd' = fwd /\ rev' = rev
    BY LookupRest
  <1>2. /\ \A i \in Jobs : i # j => job'[i] = job[i]
        /\ job'[j].pc # "written"
        /\ job'[j].pc = "looked" => job'[j].lid \in LIDs /\ job'[j].seen = rev[job'[j].lid]
        /\ job'[j].pc = "checked" => job'[j].seen = fwd[job'[j].pn]
    BY LookupJob
  <1>3. ASSUME NEW i \in Jobs
        PROVE  /\ job'[i].pc = "looked" /\ job'[i].seen # None => fwd[job'[i].seen] # None
               /\ job'[i].pc = "checked" /\ job'[i].seen # None => fwd[job'[i].pn] # None
               /\ job'[i].pc = "written" => fwd[job'[i].pn] # None
    <2>1. CASE i = j
      BY <1>2, <2>1 DEF Mapped
    <2>2. CASE i # j
      BY <1>2, <2>2 DEF Mapped, At
    <2> QED BY <2>1, <2>2
  <1> QED BY <1>1, <1>3 DEF Mapped, At

LEMMA WriteMapped == ASSUME Shape, Mapped, NEW j \in Jobs, Write(j) PROVE Mapped'
  <1>1. /\ job[j].pc = "write" /\ Goto(j, "written")
        /\ fwd' = [fwd EXCEPT ![job[j].pn] = job[j].lid] /\ rev' = [rev EXCEPT ![job[j].lid] = job[j].pn]
    BY DEF Write, At, Pair
  <1>2. /\ job[j].pn \in PNs /\ job[j].lid \in LIDs /\ job[j].lid # None
    BY <1>1, Named DEF Shape, JobShape
  <1>3. /\ \A p \in PNs : fwd'[p] = IF p = job[j].pn THEN job[j].lid ELSE fwd[p]
        /\ \A l \in LIDs : rev'[l] = IF l = job[j].lid THEN job[j].pn ELSE rev[l]
    BY <1>1 DEF Shape, TypeOK, TypeStore
  <1>4. /\ \A i \in Jobs : i # j => job'[i] = job[i]
        /\ job'[j].pn = job[j].pn /\ job'[j].pc = "written"
    BY <1>1 DEF Goto, Shape, TypeOK, TypeJobs, JobRecords
  <1>5. \A l \in LIDs : rev'[l] # None => fwd'[rev'[l]] # None
    BY <1>2, <1>3 DEF Mapped, Shape, TypeOK, TypeStore
  <1>6. ASSUME NEW i \in Jobs, i # j
        PROVE  /\ job'[i].pc = "looked" /\ job'[i].seen # None => fwd'[job'[i].seen] # None
               /\ job'[i].pc = "checked" /\ job'[i].seen # None => fwd'[job'[i].pn] # None
               /\ job'[i].pc = "written" => fwd'[job'[i].pn] # None
    <2>1. job'[i] = job[i]
      BY <1>4, <1>6
    <2>2. job[i].pc \in {"looked", "checked", "written"} =>
            job[i].pn \in PNs /\ (job[i].pc = "looked" /\ job[i].seen # None => job[i].seen \in PNs)
      BY Named DEF Shape, JobShape, At
    <2> QED BY <1>2, <1>3, <2>1, <2>2 DEF Mapped, At
  <1>7. fwd'[job'[j].pn] # None
    BY <1>2, <1>3, <1>4
  <1> QED BY <1>4, <1>5, <1>6, <1>7 DEF Mapped, At

\* Store and the moves, which bring no job to a pair.
LEMMA StoreMapped ==
  ASSUME Shape, Mapped, owner = Traffic, NEW r, Store(r) PROVE Mapped'
  <1>1. job' = job
    BY DEF Store
  <1>2. CASE load.mapped = None
    <2>1. fwd' = fwd /\ rev' = rev
      BY <1>2 DEF Store, store
    <2> QED BY <1>1, <2>1, KeepMapped
  <1>3. CASE load.mapped # None
    <2>1. load.pn \in PNs /\ load.mapped \in LIDs
      BY <1>3, Named DEF Shape, LoadShape
    <2>2. /\ fwd' = [fwd EXCEPT ![load.pn] = load.mapped]
          /\ rev' = [rev EXCEPT ![load.mapped] = load.pn]
      BY <1>3 DEF Store
    <2>3. /\ \A p \in PNs : fwd'[p] = IF p = load.pn THEN load.mapped ELSE fwd[p]
          /\ \A l \in LIDs : rev'[l] = IF l = load.mapped THEN load.pn ELSE rev[l]
      BY <2>2 DEF Shape, TypeOK, TypeStore
    <2> QED BY <1>1, <1>3, <2>1, <2>3, KeepMapped
  <1> QED BY <1>2, <1>3

\* A pair whose PN is mapped teaches the cache nothing new.
LEMMA KnownKept ==
  ASSUME Shape, OneLid, fwd' = fwd,
         \/ cfwd' = cfwd
         \/ \E p, l : <<p, l>> \in Announced /\ Cache(p, l) /\ fwd[p] # None,
         NEW q \in PNs
  PROVE  Known(q)' = Known(q)
  <1>1. CASE cfwd' = cfwd
    BY <1>1 DEF Known
  <1>2. CASE \E p, l : <<p, l>> \in Announced /\ Cache(p, l) /\ fwd[p] # None
    <2>1. PICK p, l : <<p, l>> \in Announced /\ Cache(p, l) /\ fwd[p] # None
      BY <1>2
    <2>2. p \in PNs /\ l # None
      BY <2>1, Named
    <2>3. cfwd'[q] = IF q = p THEN l ELSE cfwd[q]
      BY <2>1 DEF Cache, Shape, TypeOK, TypeStore
    <2>4. Known(p) # None /\ <<p, Known(p)>> \in Announced
      BY <2>1, <2>2 DEF Known, Shape, Linked
    <2>5. Known(p) = l
      <3>1. <<p, l>>[1] = <<p, Known(p)>>[1] => <<p, l>>[2] = <<p, Known(p)>>[2]
        BY <2>1, <2>4 DEF OneLid
      <3> QED BY <3>1
    <2> QED BY <2>2, <2>3, <2>5 DEF Known
  <1> QED BY <1>1, <1>2

LEMMA SameSteady ==
  ASSUME Shape, Steady, OneLid, fwd' = fwd, load' = load, owner' = Traffic => owner = Traffic,
         \/ cfwd' = cfwd
         \/ \E p, l : <<p, l>> \in Announced /\ Cache(p, l) /\ fwd[p] # None
  PROVE  Steady'
  <1> SUFFICES ASSUME owner' = Traffic PROVE (load.home = Home(load.pn, Known(load.pn)))'
    BY DEF Steady
  <1>1. PICK p \in PNs : p = load.pn
    BY DEF Shape, LoadShape
  <1>2. load.home = Home(p, Known(p))
    BY <1>1 DEF Steady
  <1>3. Known(p)' = Known(p)
    BY KnownKept
  <1>4. load'.pn = p /\ load'.home = Home(p, Known(p)')
    BY <1>1, <1>2, <1>3 DEF Home
  <1> QED BY <1>4 DEF Home, Known

LEMMA LoadSteady ==
  ASSUME Shape, NEW p \in Talkers, NEW d \in Devices, Load(p, d)
  PROVE  /\ Steady' /\ load'.home \in PNs \cup LIDs /\ load'.device = d
         /\ load'.record = session[<<load'.home, d>>]
  <1>1. p \in PNs
    BY LidMappingAssumption DEF LidMappingAssumption
  <1>2. PICK answer \in {None} \cup LIDs :
          LET l == IF Known(p) # None THEN Known(p) ELSE answer
          IN  /\ answer # None => Known(p) = None /\ <<p, answer>> \in Announced
              /\ load' = [pn |-> p, device |-> d, home |-> Home(p, l),
                          record |-> session[<<Home(p, l), d>>], mapped |-> answer]
              /\ IF l # None /\ cfwd[p] = None THEN Cache(p, l) ELSE UNCHANGED cache
    BY DEF Load
  <1> DEFINE l == IF Known(p) # None THEN Known(p) ELSE answer
  <1>3. /\ load'.pn = p /\ load'.device = d /\ load'.home = Home(p, l)
        /\ load'.record = session[<<Home(p, l), d>>]
    BY <1>2
  <1>4. Home(p, l) \in PNs \cup LIDs
    BY <1>1, <1>2, HomeType
  <1>5. fwd' = fwd
    BY DEF Load, store
  <1>6. Known(p)' = l
    <2>1. CASE l # None /\ cfwd[p] = None
      <3>1. Cache(p, l)
        BY <1>2, <2>1
      <3>2. cfwd'[p] = l
        BY <1>1, <3>1 DEF Cache, Shape, TypeOK, TypeStore
      <3> HIDE DEF l
      <3> QED BY <2>1, <3>2 DEF Known
    <2>2. CASE ~(l # None /\ cfwd[p] = None)
      <3>1. cfwd' = cfwd
        BY <1>2, <2>2 DEF cache
      <3>2. l = Known(p)
        BY <2>2 DEF Known
      <3> HIDE DEF l
      <3> QED BY <1>5, <3>1, <3>2 DEF Known
    <2> QED BY <2>1, <2>2
  <1> HIDE DEF l
  <1>7. load'.home = Home(p, Known(p)')
    BY <1>3, <1>6 DEF Home
  <1>8. (load.home = Home(load.pn, Known(load.pn)))'
    BY <1>3, <1>7 DEF Home, Known
  <1>9. Steady'
    BY <1>8 DEF Steady
  <1>10. load'.home \in PNs \cup LIDs /\ load'.device = d /\ load'.record = session[<<load'.home, d>>]
    BY <1>3, <1>4
  <1> QED BY <1>9, <1>10
\* What RatchetKept says of a step.
Kept ==
  \A a, b \in Addresses :
    session[a] # NoSession /\ session[a].id = session'[b].id => session'[b].step >= session[a].step

LEMMA Ids ==
  ASSUME Shape, NEW a \in Addresses
  PROVE  session[a].id \in Nat /\ session[a].step \in Nat /\ NoSession.id = 0
  BY DEF Shape, TypeOK, TypeStore, Sessions, NoSession

\* Nothing is lost where sessions are at most deleted.
LEMMA DeleteKept ==
  ASSUME Shape, StoredOnce, \A a \in Addresses : session'[a] \in {session[a], NoSession}
  PROVE  Kept
  <1> SUFFICES ASSUME NEW a \in Addresses, NEW b \in Addresses, session[a] # NoSession,
                      session[a].id = session'[b].id
               PROVE  session'[b].step >= session[a].step
    BY DEF Kept
  <1>1. Sole(a, session[a])
    BY DEF StoredOnce
  <1>2. session[a].id # 0
    BY <1>1 DEF Sole, Shape, TypeOK, TypeTraffic
  <1>3. session'[b] = session[b] /\ session[b] # NoSession
    BY <1>2, Ids
  <1>4. session'[b] = session[a]
    BY <1>1, <1>3 DEF Sole
  <1> QED BY <1>4, Ids

\* A step that at most deletes sessions.
LEMMA SameOnce ==
  ASSUME Shape, Once, \A a \in Addresses : session'[a] \in {session[a], NoSession}, fresh' = fresh,
         owner' = Traffic => owner = Traffic /\ load' = load,
         \A j \in Jobs : job'[j].pc = "moving" => job'[j] = job[j] /\ owner' = owner
  PROVE  Once' /\ Kept
  <1>1. ASSUME NEW a \in Addresses, session'[a] # NoSession
        PROVE  /\ session'[a].id \in 1..fresh'
               /\ \A b \in Addresses : session'[b] # NoSession /\ session'[b].id = session'[a].id =>
                    b = a /\ session'[b] = session'[a]
    <2>1. session'[a] = session[a]
      BY <1>1
    <2>2. Sole(a, session[a])
      BY <1>1, <2>1 DEF Once, StoredOnce
    <2> QED BY <2>1, <2>2 DEF Sole
  <1>2. StoredOnce'
    BY <1>1 DEF StoredOnce, Sole
  <1>3. LoadedOnce'
    <2> SUFFICES ASSUME owner' = Traffic, load'.record # NoSession
                 PROVE  Sole(<<load.home, load.device>>, load.record)'
      BY DEF LoadedOnce
    <2>1. load' = load /\ Sole(<<load.home, load.device>>, load.record)
      BY DEF Once, LoadedOnce
    <2> QED BY <2>1 DEF Sole
  <1>4. CopiedOnce'
    <2> SUFFICES ASSUME NEW j \in Jobs, job'[j].pc = "moving"
                 PROVE  /\ owner' = j
                        /\ \A d \in Moved(j)' :
                             /\ Sole(<<job[j].pn, d>>, job[j].copies[d])'
                             /\ \A e \in Moved(j)' : job'[j].copies[d].id = job'[j].copies[e].id => d = e
      BY DEF CopiedOnce
    <2>1. job'[j] = job[j] /\ owner' = owner /\ Moved(j)' = Moved(j)
      BY DEF Moved
    <2>2. /\ owner = j
          /\ \A d \in Moved(j) :
               /\ Sole(<<job[j].pn, d>>, job[j].copies[d])
               /\ \A e \in Moved(j) : job[j].copies[d].id = job[j].copies[e].id => d = e
      BY <2>1 DEF Once, CopiedOnce
    <2> QED BY <2>1, <2>2 DEF Sole
  <1>5. Kept
    BY DeleteKept DEF Once
  <1> QED BY <1>2, <1>3, <1>4, <1>5 DEF Once

\* Traffic loads, and a move copies, what is stored.
LEMMA LoadOnce ==
  ASSUME Shape, Once, NEW p \in Talkers, NEW d \in Devices, Load(p, d)
  PROVE  Once' /\ Kept
  <1>1. session' = session /\ fresh' = fresh /\ job' = job /\ owner = None /\ owner' = Traffic
    BY DEF Load, bounds
  <1>2. \A j \in Jobs : job[j].pc # "moving"
    BY <1>1, LidMappingAssumption DEF LidMappingAssumption, Once, CopiedOnce
  <1>3. StoredOnce' /\ CopiedOnce'
    BY <1>1, <1>2 DEF Once, StoredOnce, CopiedOnce, Sole
  <1>4. LoadedOnce'
    <2> SUFFICES ASSUME load'.record # NoSession
                 PROVE  Sole(<<load.home, load.device>>, load.record)'
      BY DEF LoadedOnce
    <2>1. PICK h \in PNs \cup LIDs : h = load'.home
      BY LoadSteady
    <2>2. load'.device = d /\ load'.record = session[<<h, d>>]
      BY <2>1, LoadSteady
    <2>3. <<h, d>> \in Addresses
      BY DEF Addresses
    <2>4. Sole(<<h, d>>, session[<<h, d>>])
      BY <2>2, <2>3 DEF Once, StoredOnce
    <2> QED BY <1>1, <2>1, <2>2, <2>4 DEF Sole
  <1>5. Kept
    BY <1>1, DeleteKept DEF Once
  <1> QED BY <1>3, <1>4, <1>5 DEF Once

LEMMA BeginMoveOnce ==
  ASSUME Shape, Once, NEW j \in Jobs, BeginMove(j) PROVE Once' /\ Kept
  <1>1. session' = session /\ fresh' = fresh /\ owner = None /\ owner' = j
    BY DEF BeginMove, bounds
  <1>2. \A i \in Jobs : job[i].pc # "moving"
    BY <1>1, LidMappingAssumption DEF LidMappingAssumption, Once, CopiedOnce
  <1>3. /\ job[j].pn \in PNs
        /\ job'[j] = [job[j] EXCEPT !.pc = "moving",
                                    !.copies = [d \in Devices |-> session[<<job[j].pn, d>>]]]
        /\ \A i \in Jobs : i # j => job'[i] = job[i]
    BY Copied
  <1>4. /\ job'[j].pn = job[j].pn /\ job'[j].devs = job[j].devs /\ job[j].devs \subseteq Devices
        /\ \A d \in Devices : job'[j].copies[d] = session[<<job[j].pn, d>>]
    BY <1>3 DEF Shape, TypeOK, TypeJobs, JobRecords
  <1>5. PICK p \in PNs : p = job[j].pn
    BY <1>3
  <1>6. \A d \in Moved(j)' : /\ d \in Devices /\ <<p, d>> \in Addresses
                             /\ job'[j].copies[d] = session[<<p, d>>]
                             /\ session[<<p, d>>] # NoSession
    BY <1>4, <1>5 DEF Moved, Addresses
  <1>7. \A d \in Moved(j)' : Sole(<<p, d>>, session[<<p, d>>])
    BY <1>6 DEF Once, StoredOnce
  <1>8. ASSUME NEW d \in Moved(j)', NEW e \in Moved(j)', job'[j].copies[d].id = job'[j].copies[e].id
        PROVE  d = e
    <2>1. session[<<p, e>>].id = session[<<p, d>>].id
      BY <1>6, <1>8
    <2>2. <<p, e>> = <<p, d>>
      BY <1>6, <1>7, <2>1 DEF Sole
    <2> QED BY <2>2
  <1>9. ASSUME NEW d \in Moved(j)' PROVE Sole(<<job[j].pn, d>>, job[j].copies[d])'
    BY <1>1, <1>4, <1>5, <1>6, <1>7 DEF Sole
  <1>10. CopiedOnce'
    BY <1>1, <1>2, <1>3, <1>8, <1>9 DEF CopiedOnce
  <1>11. StoredOnce'
    BY <1>1 DEF Once, StoredOnce, Sole
  <1>12. LoadedOnce'
    BY <1>1, LidMappingAssumption DEF LidMappingAssumption, LoadedOnce
  <1>13. Kept
    BY <1>1, DeleteKept DEF Once
  <1> QED BY <1>10, <1>11, <1>12, <1>13 DEF Once
\* A move puts its copies where they belong and empties where they came from.
LEMMA CommitMoveOnce ==
  ASSUME Shape, Once, NEW j \in Jobs, CommitMove(j) PROVE Once' /\ Kept
  <1>1. /\ job[j].pc = "moving" /\ owner' = None /\ fresh' = fresh
        /\ session' = Move(j, Moved(j), Moved(j))
    BY DEF CommitMove, At, bounds
  <1>2. /\ job[j].pn \in PNs /\ job[j].lid \in LIDs /\ job[j].pn # job[j].lid
    BY <1>1, Named, LidMappingAssumption DEF LidMappingAssumption, Shape, JobShape
  <1>3. PICK p \in PNs, l \in LIDs, copies \in [Devices -> Sessions], moved \in SUBSET Devices :
          /\ p = job[j].pn /\ l = job[j].lid /\ copies = job[j].copies /\ moved = Moved(j) /\ p # l
    <2>1. job[j].copies \in [Devices -> Sessions] /\ Moved(j) \in SUBSET Devices
      BY DEF Shape, TypeOK, TypeJobs, JobRecords, Moved
    <2> QED BY <1>2, <2>1, Zenon
  <1>4. /\ owner = j
        /\ \A d \in moved : /\ copies[d] # NoSession
                            /\ Sole(<<p, d>>, copies[d])
                            /\ \A e \in moved : copies[d].id = copies[e].id => d = e
    BY <1>1, <1>3 DEF Once, CopiedOnce, Moved
  <1>5. \A a \in Addresses :
          session'[a] = IF a[1] = l /\ a[2] \in moved THEN copies[a[2]]
                        ELSE IF a[1] = p /\ a[2] \in moved THEN NoSession
                        ELSE session[a]
    BY <1>1, <1>3 DEF Move
  \* Where a session now comes from.
  <1>6. ASSUME NEW a \in Addresses, session'[a] # NoSession
        PROVE  \/ \E d \in moved : a = <<l, d>> /\ session'[a] = copies[d]
               \/ session'[a] = session[a] /\ \A d \in moved : a # <<p, d>>
    <2>1. a = <<a[1], a[2]>>
      BY DEF Addresses
    <2> QED BY <1>5, <1>6, <2>1
  <1>7. ASSUME NEW a \in Addresses, session'[a] # NoSession, NEW b \in Addresses,
               session'[b] # NoSession, session'[b].id = session'[a].id
        PROVE  b = a /\ session'[b] = session'[a]
    <2>1. CASE \E d, e \in moved : /\ a = <<l, d>> /\ session'[a] = copies[d]
                                   /\ b = <<l, e>> /\ session'[b] = copies[e]
      BY <1>4, <1>7, <2>1
    <2>2. CASE \E d \in moved : /\ a = <<l, d>> /\ session'[a] = copies[d]
                                /\ session'[b] = session[b] /\ b # <<p, d>>
      BY <1>4, <1>7, <2>2 DEF Sole
    <2>3. CASE \E e \in moved : /\ b = <<l, e>> /\ session'[b] = copies[e]
                                /\ session'[a] = session[a] /\ a # <<p, e>>
      BY <1>4, <1>7, <2>3 DEF Sole
    <2>4. CASE session'[a] = session[a] /\ session'[b] = session[b]
      BY <1>7, <2>4 DEF Once, StoredOnce, Sole
    <2> QED BY <1>6, <1>7, <2>1, <2>2, <2>3, <2>4
  <1>8. ASSUME NEW a \in Addresses, session'[a] # NoSession PROVE session'[a].id \in 1..fresh'
    <2>1. CASE \E d \in moved : session'[a] = copies[d]
      BY <1>1, <1>4, <2>1 DEF Sole
    <2>2. CASE session'[a] = session[a]
      BY <1>1, <1>8, <2>2 DEF Once, StoredOnce, Sole
    <2> QED BY <1>6, <1>8, <2>1, <2>2
  <1>9. StoredOnce'
    BY <1>7, <1>8 DEF StoredOnce, Sole
  <1>10. job'[j].pc # "moving" /\ \A i \in Jobs : i # j => job'[i] = job[i]
    BY Finished DEF CommitMove, Blank
  <1>11. \A i \in Jobs : job'[i].pc # "moving"
    BY <1>4, <1>10 DEF Once, CopiedOnce
  <1>12. LoadedOnce' /\ CopiedOnce'
    BY <1>1, <1>11, LidMappingAssumption DEF LidMappingAssumption, LoadedOnce, CopiedOnce
  <1>13. Kept
    <2> SUFFICES ASSUME NEW a \in Addresses, NEW b \in Addresses, session[a] # NoSession,
                        session[a].id = session'[b].id
                 PROVE  session'[b].step >= session[a].step
      BY DEF Kept
    <2>1. Sole(a, session[a])
      BY DEF Once, StoredOnce
    <2>2. session[a].id # 0
      BY <2>1 DEF Sole, Shape, TypeOK, TypeTraffic
    <2>3. session'[b] # NoSession
      BY <2>2, Ids
    <2>4. CASE \E d \in moved : session'[b] = copies[d]
      <3>1. session[a] = session'[b]
        BY <1>4, <2>4 DEF Sole
      <3> QED BY <3>1, Ids
    <2>5. CASE session'[b] = session[b]
      <3>1. session[b] = session[a]
        BY <2>1, <2>3, <2>5 DEF Sole
      <3> QED BY <2>5, <3>1, Ids
    <2> QED BY <1>6, <2>3, <2>4, <2>5
  <1> QED BY <1>9, <1>12, <1>13 DEF Once

\* Traffic stores a session at the one address that may have it already, or a
\* new one.
LEMMA StoreOnce ==
  ASSUME Shape, Steady, Once, owner = Traffic, NEW r \in Sessions, Store(r), fresh' \in Nat,
         \/ /\ load.record # NoSession /\ r.id = load.record.id /\ r.step >= load.record.step
            /\ fresh' = fresh
         \/ r.id = fresh + 1 /\ fresh' = fresh + 1
  PROVE  Once' /\ Kept
  <1>1. owner' = None /\ job' = job
    BY DEF Store
  <1>2. PICK h \in Addresses : h = <<load.home, load.device>>
    BY DEF Shape, LoadShape, Addresses
  <1>3. session' = [session EXCEPT ![h] = r]
    BY <1>2 DEF Store, Steady
  <1>4. \A a \in Addresses : session'[a] = IF a = h THEN r ELSE session[a]
    BY <1>3 DEF Shape, TypeOK, TypeStore
  <1>5. fresh \in Nat
    BY DEF Shape, TypeOK, TypeTraffic
  \* What has the id of the new record is at its address, and is not ahead of it.
  <1>6. ASSUME NEW a \in Addresses, session[a] # NoSession, session[a].id = r.id
        PROVE  a = h /\ r.step >= session[a].step
    <2>1. session[a].id \in 1..fresh
      BY <1>6 DEF Once, StoredOnce, Sole
    <2>2. load.record # NoSession /\ r.id = load.record.id /\ r.step >= load.record.step
      BY <1>5, <1>6, <2>1
    <2>3. Sole(<<load.home, load.device>>, load.record)
      BY <2>2 DEF Once, LoadedOnce
    <2>4. a = h /\ session[a] = load.record
      BY <1>2, <1>6, <2>2, <2>3 DEF Sole
    <2> QED BY <2>2, <2>4
  <1>7. r.id \in 1..fresh'
    <2>1. CASE load.record # NoSession /\ r.id = load.record.id /\ fresh' = fresh
      BY <2>1 DEF Once, LoadedOnce, Sole
    <2>2. CASE r.id = fresh + 1 /\ fresh' = fresh + 1
      BY <1>5, <2>2
    <2> QED BY <2>1, <2>2
  <1>8. ASSUME NEW a \in Addresses, session'[a] # NoSession PROVE session'[a].id \in 1..fresh'
    <2>1. CASE a = h
      BY <1>4, <1>7, <2>1
    <2>2. CASE a # h
      <3>1. session'[a] = session[a] /\ session[a].id \in 1..fresh
        BY <1>4, <1>8, <2>2 DEF Once, StoredOnce, Sole
      <3> QED BY <1>5, <3>1
    <2> QED BY <2>1, <2>2
  <1>9. ASSUME NEW a \in Addresses, session'[a] # NoSession, NEW b \in Addresses,
               session'[b] # NoSession, session'[b].id = session'[a].id
        PROVE  b = a /\ session'[b] = session'[a]
    <2>1. CASE a = h /\ b # h
      BY <1>4, <1>6, <1>9, <2>1
    <2>2. CASE a # h /\ b = h
      BY <1>4, <1>6, <1>9, <2>2
    <2>3. CASE a # h /\ b # h
      BY <1>4, <1>9, <2>3 DEF Once, StoredOnce, Sole
    <2> QED BY <2>1, <2>2, <2>3
  <1>10. StoredOnce'
    BY <1>8, <1>9 DEF StoredOnce, Sole
  <1>11. \A i \in Jobs : job'[i].pc # "moving"
    BY <1>1, LidMappingAssumption DEF LidMappingAssumption, Once, CopiedOnce
  <1>12. LoadedOnce' /\ CopiedOnce'
    BY <1>1, <1>11, LidMappingAssumption DEF LidMappingAssumption, LoadedOnce, CopiedOnce
  <1>13. Kept
    <2> SUFFICES ASSUME NEW a \in Addresses, NEW b \in Addresses, session[a] # NoSession,
                        session[a].id = session'[b].id
                 PROVE  session'[b].step >= session[a].step
      BY DEF Kept
    <2>1. CASE b = h
      BY <1>4, <1>6, <2>1
    <2>2. CASE b # h
      <3>1. Sole(a, session[a]) /\ session'[b] = session[b]
        BY <1>4, <2>2 DEF Once, StoredOnce
      <3>2. session[a].id # 0
        BY <1>5, <3>1 DEF Sole
      <3>3. session[b] # NoSession
        BY <3>1, <3>2, Ids
      <3>4. session[b] = session[a]
        BY <3>1, <3>3 DEF Sole
      <3> QED BY <3>1, <3>4, Ids
    <2> QED BY <2>1, <2>2
  <1> QED BY <1>10, <1>12, <1>13 DEF Once
LEMMA InitSound == Init => Sound
  <1> SUFFICES ASSUME Init PROVE Mapped /\ Steady /\ Once
    BY DEF Sound
  <1>1. /\ \A j \in Jobs : job[j].pc = "idle"
        /\ owner = None /\ owner # Traffic
        /\ \A a \in Addresses : session[a] = NoSession
        /\ \A l \in LIDs : rev[l] = None
    BY LidMappingAssumption DEF LidMappingAssumption, Init, Blank
  <1> QED BY <1>1 DEF Mapped, Steady, Once, StoredOnce, LoadedOnce, CopiedOnce, At

\* One step of everybody, while every commit is whole.
LEMMA SoundStep ==
  ASSUME Shape, OneLid, Mapped, Steady, Once, [Next]_vars, failures' = 0
  PROVE  Mapped' /\ Steady' /\ Once' /\ Kept
  <1>1. ASSUME NEW j \in Jobs, Lookup(j) PROVE Mapped' /\ Steady' /\ Once' /\ Kept
    <2>1. Mapped'
      BY <1>1, LookupMapped
    <2>2. /\ fwd' = fwd /\ session' = session /\ owner' = owner /\ load' = load /\ fresh' = fresh
          /\ \/ cfwd' = cfwd
             \/ \E p, l : <<p, l>> \in Announced /\ Cache(p, l) /\ fwd[p] # None
      BY <1>1, LookupRest
    <2>3. Steady'
      BY <2>2, SameSteady
    <2>4. \A i \in Jobs : job'[i].pc = "moving" => job'[i] = job[i]
      BY <1>1, LookupJob
    <2> QED BY <2>1, <2>2, <2>3, <2>4, SameOnce
  <1>2. ASSUME NEW j \in Jobs, Write(j) PROVE Mapped' /\ Steady' /\ Once' /\ Kept
    <2>1. owner = None /\ owner' = owner /\ owner' # Traffic /\ session' = session /\ fresh' = fresh
      BY <1>2, LidMappingAssumption DEF LidMappingAssumption, Write, bounds
    <2>2. \A i \in Jobs : job'[i].pc = "moving" => job'[i] = job[i]
      BY <1>2 DEF Write, Goto, Shape, TypeOK, TypeJobs, JobRecords
    <2>3. Once' /\ Kept
      BY <2>1, <2>2, SameOnce
    <2> QED BY <1>2, <2>1, <2>3, WriteMapped DEF Steady
  <1>3. ASSUME NEW j \in Jobs, WriteFails(j) \/ CommitMoveFails(j) PROVE FALSE
    BY <1>3 DEF WriteFails, CommitMoveFails, Shape, TypeOK, TypeTraffic
  <1>4. ASSUME NEW j \in Jobs, BeginMove(j) PROVE Mapped' /\ Steady' /\ Once' /\ Kept
    <2>1. Once' /\ Kept
      BY <1>4, BeginMoveOnce
    <2>2. owner' # Traffic /\ fwd' = fwd /\ rev' = rev
      BY <1>4, LidMappingAssumption DEF LidMappingAssumption, BeginMove, store
    <2>3. \A i \in Jobs : job'[i].pc \in {"looked", "checked", "written"} => job'[i] = job[i]
      BY <1>4, Copied DEF Shape, TypeOK, TypeJobs, JobRecords
    <2> QED BY <2>1, <2>2, <2>3, KeepMapped DEF Steady
  <1>5. ASSUME NEW j \in Jobs, CommitMove(j) PROVE Mapped' /\ Steady' /\ Once' /\ Kept
    <2>1. Once' /\ Kept
      BY <1>5, CommitMoveOnce
    <2>2. owner' # Traffic /\ fwd' = fwd /\ rev' = rev
      BY <1>5, LidMappingAssumption DEF LidMappingAssumption, CommitMove, store
    <2>3. \A i \in Jobs : job'[i].pc \in {"looked", "checked", "written"} => job'[i] = job[i]
      BY <1>5, Finished DEF CommitMove, Blank
    <2> QED BY <2>1, <2>2, <2>3, KeepMapped DEF Steady
  <1>6. ASSUME NEW p \in Talkers, NEW d \in Devices, Load(p, d)
        PROVE  Mapped' /\ Steady' /\ Once' /\ Kept
    <2>1. fwd' = fwd /\ rev' = rev /\ job' = job
      BY <1>6 DEF Load, store
    <2> QED BY <1>6, <2>1, KeepMapped, LoadSteady, LoadOnce
  <1>7. ASSUME NEW r \in Sessions, owner = Traffic, Store(r), fresh' \in Nat,
               \/ /\ load.record # NoSession /\ r.id = load.record.id /\ r.step >= load.record.step
                  /\ fresh' = fresh
               \/ r.id = fresh + 1 /\ fresh' = fresh + 1
        PROVE  Mapped' /\ Steady' /\ Once' /\ Kept
    <2>1. owner' # Traffic
      BY <1>7, LidMappingAssumption DEF LidMappingAssumption, Store
    <2> QED BY <1>7, <2>1, StoreMapped, StoreOnce DEF Steady
  <1>8. CASE Ratchet
    <2> DEFINE r == Session(load.record.id, load.record.step + 1)
    <2>1. load.record.id \in Nat /\ load.record.step \in Nat /\ fresh \in Nat
      BY DEF Shape, TypeOK, TypeTraffic, Sessions
    <2>2. /\ r \in Sessions /\ r.id = load.record.id /\ r.step >= load.record.step
      BY <2>1 DEF Session, Sessions
    <2>3. owner = Traffic /\ load.record # NoSession /\ Store(r) /\ fresh' = fresh
      BY <1>8 DEF Ratchet
    <2> HIDE DEF r
    <2> QED BY <1>7, <2>1, <2>2, <2>3
  <1>9. CASE Establish
    <2> DEFINE r == Session(fresh + 1, 1)
    <2>1. fresh \in Nat
      BY DEF Shape, TypeOK, TypeTraffic
    <2>2. r \in Sessions /\ r.id = fresh + 1 /\ fresh + 1 \in Nat
      BY <2>1 DEF Session, Sessions
    <2>3. owner = Traffic /\ Store(r) /\ fresh' = fresh + 1
      BY <1>9 DEF Establish
    <2> HIDE DEF r
    <2> QED BY <1>7, <2>2, <2>3
  <1>10. CASE \/ Throw
              \/ \E a \in Addresses : DeleteSession(a)
              \/ \E p \in Talkers : FlushDevices(p)
              \/ UNCHANGED vars
    <2>1. /\ fwd' = fwd /\ rev' = rev /\ cfwd' = cfwd /\ job' = job /\ fresh' = fresh
          /\ (owner' = owner /\ load' = load) \/ (owner = Traffic /\ owner' = None)
      BY <1>10 DEF Throw, DeleteSession, FlushDevices, vars, store, cache, bounds
    <2>2. \A a \in Addresses : session'[a] \in {session[a], NoSession}
      BY <1>10 DEF Throw, DeleteSession, FlushDevices, vars, Shape, TypeOK, TypeStore
    <2>3. owner' = Traffic => owner = Traffic /\ load' = load
      BY <2>1, LidMappingAssumption DEF LidMappingAssumption
    <2>4. \A j \in Jobs : job'[j].pc = "moving" => job'[j] = job[j] /\ owner' = owner
      BY <2>1, LidMappingAssumption DEF LidMappingAssumption, Once, CopiedOnce
    <2>5. Once' /\ Kept
      BY <2>1, <2>2, <2>3, <2>4, SameOnce
    <2>6. Mapped'
      BY <2>1, KeepMapped
    <2>7. Steady'
      <3>1. CASE owner' = owner /\ load' = load
        BY <2>1, <3>1, SameSteady
      <3>2. CASE owner' = None
        BY <3>2, LidMappingAssumption DEF LidMappingAssumption, Steady
      <3> QED BY <2>1, <3>1, <3>2
    <2> QED BY <2>5, <2>6, <2>7
  <1>11. CASE Restart
    <2>1. /\ fwd' = fwd /\ rev' = rev /\ session' = session /\ owner' = None /\ fresh' = fresh
          /\ owner' # Traffic
      BY <1>11, LidMappingAssumption DEF LidMappingAssumption, Restart, store
    <2>2. \A j \in Jobs : job'[j].pc \in {"idle", "done"}
      BY <1>11 DEF Restart, At, Blank
    <2> QED BY <2>1, <2>2, KeepMapped, SameOnce DEF Steady
  <1> QED BY <1>1, <1>2, <1>3, <1>4, <1>5, <1>6, <1>8, <1>9, <1>10, <1>11
      DEF Next, JobStep, StoreStep, MigrateStep, Lookup

LEMMA FailuresStay ==
  ASSUME Shape, [Next]_vars, failures' = 0 PROVE failures = 0
  <1>1. failures' = failures \/ failures' = failures + 1
    BY DEF Next, JobStep, StoreStep, MigrateStep, Start, Lock, Look, Looked, Check, Checked, Write,
           WriteFails, UpdateCache, OwnList, MigrateDevices, Discover, BeginMove, CommitMove,
           CommitMoveFails, Load, Ratchet, Establish, Store, Throw, DeleteSession, FlushDevices,
           Restart, bounds, vars
  <1> QED BY <1>1 DEF Shape, TypeOK, TypeTraffic

LEMMA NextSound == OneLid /\ Shape /\ Sound /\ [Next]_vars => Sound' /\ (failures' = 0 => Kept)
  BY SoundStep, FailuresStay DEF Sound

\* With every PN announced with one LID and every commit whole, no session is
\* at two addresses, though decrypts and encrypts resolve an address twice and
\* migrations move sessions under them: storeSession, loadSession and
\* migrateSession of libsignal.js.
THEOREM LidMappingNoTwins == ASSUME OneLid PROVE Spec => []NoTwins
  <1>1. Shape /\ Sound => NoTwins
    <2> SUFFICES ASSUME Shape, Once, NEW a \in Addresses, NEW b \in Addresses,
                        session[a] # NoSession, session[a].id = session[b].id
                 PROVE  a = b
      BY DEF Sound, NoTwins
    <2>1. Sole(a, session[a])
      BY DEF Once, StoredOnce
    <2>2. session[b] # NoSession
      BY <2>1, Ids DEF Sole, Shape, TypeOK, TypeTraffic
    <2> QED BY <2>1, <2>2 DEF Sole
  <1>2. Init => Shape /\ Sound
    BY InitShape, InitSound
  <1>3. (Shape /\ Sound) /\ [Next]_vars => (Shape /\ Sound)'
    BY NextShape, NextSound
  <1> QED BY <1>1, <1>2, <1>3, PTL DEF Spec

\* Under the same conditions no step, of a ratchet, a migration or a deletion,
\* takes a session back to where it was.
THEOREM LidMappingRatchetKept == ASSUME OneLid PROVE Spec => RatchetKept
  <1>1. Init => Shape /\ Sound
    BY InitShape, InitSound
  <1>2. (Shape /\ Sound) /\ [Next]_vars => (Shape /\ Sound)'
    BY NextShape, NextSound
  <1>3. (Shape /\ Sound) /\ [Next]_vars =>
          [failures' = 0 =>
             \A a, b \in Addresses :
               session[a] # NoSession /\ session[a].id = session'[b].id =>
                 session'[b].step >= session[a].step]_vars
    BY NextSound DEF Kept
  <1> QED BY <1>1, <1>2, <1>3, PTL DEF Spec, RatchetKept
=============================================================================
