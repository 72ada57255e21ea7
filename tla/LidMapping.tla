----------------------------- MODULE LidMapping -----------------------------
(***************************************************************************)
(* Phone number (PN) and LID addresses of one user: the mapping store with *)
(* its cache (lib/Signal/lid-mapping.js), the migration of Signal sessions *)
(* from PN to LID addresses (lib/Signal/libsignal.js), those who announce  *)
(* pairs (handleMessage, decode-wa-message.js, process-message.js,         *)
(* socket.js, chats.js), and the decrypts and encrypts that resolve an     *)
(* address while they ratchet its session.                                 *)
(*                                                                         *)
(* A job is one announcement of a pair.  Traffic is whoever runs a         *)
(* transaction that ratchets a session: the store's mutex admits one at a  *)
(* time, so one traffic process stands for all.  An await is a step        *)
(* boundary.  A session record is the session it holds and the steps its   *)
(* ratchet has made; every record here has an open session.                *)
(***************************************************************************)
EXTENDS Naturals

CONSTANTS
  PNs, LIDs, None,  \* users by phone number and by LID, and a value that is neither
  Devices,          \* devices of a user
  Announced,        \* pairs <<pn, lid>> that somebody may announce
  Talkers,          \* PNs that messages are exchanged with
  Me, OwnDevice,    \* the account itself and the device it is
  Jobs, Traffic,    \* announcements, and the holder of a ratcheting transaction
  MaxSessions,      \* bound on sessions that are established
  MaxSteps,         \* bound on the ratchet steps of a session
  MaxFailures,      \* bound on transaction commits that give up
  MaxRestarts       \* bound on restarts of the process

ASSUME LidMappingAssumption ==
  /\ None \notin PNs \cup LIDs \cup Jobs /\ PNs \cap LIDs = {}
  /\ Announced \subseteq PNs \X LIDs /\ Talkers \subseteq PNs
  /\ Me \in PNs /\ OwnDevice \in Devices
  /\ Traffic \notin Jobs /\ Traffic # None
  /\ MaxSessions \in Nat /\ MaxSteps \in Nat /\ MaxFailures \in Nat /\ MaxRestarts \in Nat

VARIABLES
  fwd, rev,       \* the store's lid-mapping: PN to LID, and the _reverse entries
  cfwd, crev,     \* mappingCache: its pn: and lid: entries
  deviceList,     \* the store's device-list of a PN, {} for none
  session,        \* the store's sessions by address <<user, device>>
  migrated,       \* migratedSessionCache
  owner,          \* who holds the store's transaction mutex
  locked,         \* alt addresses held in lidMappingMutex
  job,            \* the announcements that are being dealt with
  load,           \* traffic: whose session it loaded, from where, and which
  fresh,          \* sessions established so far
  failures, restarts

store  == <<fwd, rev>>
cache  == <<cfwd, crev>>
bounds == <<fresh, failures, restarts>>
vars == <<store, cache, deviceList, session, migrated, owner, locked, job, load, bounds>>

Addresses == (PNs \cup LIDs) \X Devices
NoSession == [id |-> 0, step |-> 0]
Session(id, step) == [id |-> id, step |-> step]
Idle == [pn |-> None, device |-> None, home |-> None, record |-> NoSession, mapped |-> None]

\* altLid and altPn: handleMessage, by the side of the pair that is the alt.
\* sync: a mapping sync of the phone, or an envelope.  store: history, mex,
\* lid-mapping.update and a lookup answered by USync.  own: after login.
Kinds == {"altLid", "altPn", "sync", "store", "own"}

\* A job: where it is, the pair it announces, the value its lookup brought,
\* the devices its migration is at and the sessions that read.
Blank(pc) ==
  [pc |-> pc, kind |-> "store", pn |-> None, lid |-> None, seen |-> None, devs |-> {},
   copies |-> [d \in Devices |-> NoSession]]

Init ==
  /\ fwd = [p \in PNs |-> None] /\ rev = [l \in LIDs |-> None]
  /\ cfwd = [p \in PNs |-> None] /\ crev = [l \in LIDs |-> None]
  /\ deviceList = [p \in PNs |-> {}]
  /\ session = [a \in Addresses |-> NoSession]
  /\ migrated = {} /\ owner = None /\ locked = {}
  /\ job = [j \in Jobs |-> Blank("idle")]
  /\ load = Idle
  /\ fresh = 0 /\ failures = 0 /\ restarts = 0

At(j, label) == job[j].pc = label
Goto(j, label) == job' = [job EXCEPT ![j].pc = label] /\ UNCHANGED locked
Alt(j) == IF job[j].kind = "altLid" THEN job[j].lid ELSE job[j].pn
Locks(j) == job[j].kind \in {"altLid", "altPn"}

\* A job ends, and with it its turn of lidMappingMutex, also by a throw.
Finish(j) ==
  /\ job' = [job EXCEPT ![j] = Blank("done")]
  /\ locked' = IF Locks(j) THEN locked \ {Alt(j)} ELSE locked

\* Mutant: the PN is cached for itself.
CacheSwapped(p, l) == cfwd' = [cfwd EXCEPT ![p] = p] /\ crev' = [crev EXCEPT ![l] = l]

\* mappingCache.set of both directions.
Cache(p, l) == cfwd' = [cfwd EXCEPT ![p] = l] /\ crev' = [crev EXCEPT ![l] = p]

-----------------------------------------------------------------------------
(* An announcement arrives.                                                *)

Start(j) ==
  /\ At(j, "idle")
  /\ \E k \in Kinds, a \in Announced, d \in Devices :
       /\ k = "own" => a[1] = Me /\ d = OwnDevice
       /\ job' = [job EXCEPT ![j] =
                    [Blank(IF k \in {"altLid", "altPn"} THEN "lock" ELSE "check") EXCEPT
                       !.kind = k, !.pn = a[1], !.lid = a[2], !.devs = {d}]]
  /\ UNCHANGED <<store, cache, deviceList, session, migrated, owner, locked, load, bounds>>

Lock(j) ==
  /\ At(j, "lock") /\ Alt(j) \notin locked
  /\ locked' = locked \cup {Alt(j)}
  /\ job' = [job EXCEPT ![j].pc = IF job[j].kind = "altLid" THEN "look" ELSE "check"]
  /\ UNCHANGED <<store, cache, deviceList, session, migrated, owner, load, bounds>>

\* The pair is stored unless the LID is known for this PN.
Decide(j, known) == IF known = job[j].pn THEN Finish(j) ELSE Goto(j, "check")

\* getPNForLID: from the cache, else the store is asked and both are believed.
Look(j) ==
  /\ At(j, "look")
  /\ IF crev[job[j].lid] # None THEN Decide(j, crev[job[j].lid])
     ELSE /\ job' = [job EXCEPT ![j].pc = "looked", ![j].seen = rev[job[j].lid]]
          /\ UNCHANGED locked
  /\ UNCHANGED <<store, cache, deviceList, session, migrated, owner, load, bounds>>

Looked(j) ==
  /\ At(j, "looked")
  /\ IF crev[job[j].lid] # None THEN Decide(j, crev[job[j].lid]) /\ UNCHANGED cache
     ELSE /\ Decide(j, job[j].seen)
          /\ IF job[j].seen # None THEN Cache(job[j].seen, job[j].lid) ELSE UNCHANGED cache
  /\ UNCHANGED <<store, deviceList, session, migrated, owner, load, bounds>>

-----------------------------------------------------------------------------
(* storeLIDPNMappings of one pair.                                         *)

\* What each caller does once the pair is stored or was there.
AfterStore(j) ==
  CASE job[j].kind = "store" -> Finish(j)
    [] job[j].kind = "own"   -> Goto(j, "list")
    [] OTHER                 -> Goto(j, "migrate")

Compare(j, existing) == IF existing = job[j].lid THEN AfterStore(j) ELSE Goto(j, "write")

Check(j) ==
  /\ At(j, "check")
  /\ IF cfwd[job[j].pn] # None THEN Compare(j, cfwd[job[j].pn])
     ELSE /\ job' = [job EXCEPT ![j].pc = "checked", ![j].seen = fwd[job[j].pn]]
          /\ UNCHANGED locked
  /\ UNCHANGED <<store, cache, deviceList, session, migrated, owner, load, bounds>>

Checked(j) ==
  /\ At(j, "checked")
  /\ Compare(j, job[j].seen)
  /\ IF job[j].seen # None THEN Cache(job[j].pn, job[j].seen) ELSE UNCHANGED cache
  /\ UNCHANGED <<store, deviceList, session, migrated, owner, load, bounds>>

\* Both directions, in one transaction.
Pair(j) ==
  /\ fwd' = [fwd EXCEPT ![job[j].pn] = job[j].lid]
  /\ rev' = [rev EXCEPT ![job[j].lid] = job[j].pn]

\* Mutant: the pair is written without the store's mutex.
WriteDirect(j) ==
  /\ At(j, "write")
  /\ Pair(j) /\ Goto(j, "written")
  /\ UNCHANGED <<cache, deviceList, session, migrated, owner, load, bounds>>

Write(j) ==
  /\ At(j, "write") /\ owner = None
  /\ Pair(j) /\ Goto(j, "written")
  /\ UNCHANGED <<cache, deviceList, session, migrated, owner, load, bounds>>

\* commitWithRetry gives up; each of the two entries may have been written.
WriteFails(j) ==
  /\ At(j, "write") /\ owner = None /\ failures < MaxFailures
  /\ failures' = failures + 1
  /\ fwd' \in {fwd, [fwd EXCEPT ![job[j].pn] = job[j].lid]}
  /\ rev' \in {rev, [rev EXCEPT ![job[j].lid] = job[j].pn]}
  /\ Finish(j)
  /\ UNCHANGED <<cache, deviceList, session, migrated, owner, load, fresh, restarts>>

UpdateCache(j) ==
  /\ At(j, "written")
  /\ Cache(job[j].pn, job[j].lid)
  /\ AfterStore(j)
  /\ UNCHANGED <<store, deviceList, session, migrated, owner, load, bounds>>

\* After login the account's own list is set to the device it is.
OwnList(j) ==
  /\ At(j, "list")
  /\ deviceList' = [deviceList EXCEPT ![job[j].pn] = {OwnDevice}]
  /\ Goto(j, "migrate")
  /\ UNCHANGED <<store, cache, session, migrated, owner, load, bounds>>

-----------------------------------------------------------------------------
(* migrateSession.                                                         *)

\* Nothing is moved for a user without a device list.
MigrateDevices(j) ==
  LET p == job[j].pn
  IN  /\ At(j, "migrate")
      /\ IF deviceList[p] = {} THEN Finish(j)
         ELSE /\ job' = [job EXCEPT ![j].pc = "discover",
                           ![j].devs = {d \in @ \cup deviceList[p] : <<p, d>> \notin migrated}]
              /\ UNCHANGED locked
      /\ UNCHANGED <<store, cache, deviceList, session, migrated, owner, load, bounds>>

Discover(j) ==
  /\ At(j, "discover")
  /\ job' = [job EXCEPT ![j].pc = "move",
                        ![j].devs = {d \in @ : session[<<job[j].pn, d>>] # NoSession}]
  /\ UNCHANGED <<store, cache, deviceList, session, migrated, owner, locked, load, bounds>>

\* The transaction reads the sessions again.
BeginMove(j) ==
  /\ At(j, "move") /\ owner = None
  /\ owner' = j
  /\ job' = [job EXCEPT ![j].pc = "moving",
                        ![j].copies = [d \in Devices |-> session[<<job[j].pn, d>>]]]
  /\ UNCHANGED <<store, cache, deviceList, session, migrated, locked, load, bounds>>

Moved(j) == {d \in job[j].devs : job[j].copies[d] # NoSession}

\* Mutant: the PN sessions stay.
MoveCopies(j, toLid, fromPn) ==
  [a \in Addresses |-> IF a[1] = job[j].lid /\ a[2] \in toLid THEN job[j].copies[a[2]]
                       ELSE session[a]]

\* The session records once these writes of the move have been made.
Move(j, toLid, fromPn) ==
  [a \in Addresses |-> IF a[1] = job[j].lid /\ a[2] \in toLid THEN job[j].copies[a[2]]
                       ELSE IF a[1] = job[j].pn /\ a[2] \in fromPn THEN NoSession
                       ELSE session[a]]

\* migratedSessionCache is set before the commit, whatever comes of it.
Mark(j) == migrated' = migrated \cup {<<job[j].pn, d>> : d \in Moved(j)}

\* Mutant: the end leaves the alt address locked.
CommitMoveKeepsLock(j) ==
  /\ At(j, "moving")
  /\ session' = Move(j, Moved(j), Moved(j)) /\ Mark(j)
  /\ owner' = None /\ job' = [job EXCEPT ![j] = Blank("done")]
  /\ UNCHANGED <<store, cache, deviceList, locked, load, bounds>>

CommitMove(j) ==
  /\ At(j, "moving")
  /\ session' = Move(j, Moved(j), Moved(j)) /\ Mark(j)
  /\ owner' = None /\ Finish(j)
  /\ UNCHANGED <<store, cache, deviceList, load, bounds>>

CommitMoveFails(j) ==
  /\ At(j, "moving") /\ failures < MaxFailures
  /\ failures' = failures + 1
  /\ \E toLid, fromPn \in SUBSET Moved(j) : session' = Move(j, toLid, fromPn)
  /\ Mark(j) /\ owner' = None /\ Finish(j)
  /\ UNCHANGED <<store, cache, deviceList, load, fresh, restarts>>

-----------------------------------------------------------------------------
(* A transaction that ratchets a session.                                  *)

Known(p) == IF cfwd[p] # None THEN cfwd[p] ELSE fwd[p]

\* resolveLIDSignalAddress: the LID of the PN if there is one.
Home(p, l) == IF l = None THEN p ELSE l

\* loadSession.  A PN that nobody maps is asked of the server; the answer is
\* stored in the same transaction, so it is staged, and cached at once.
Load(p, d) ==
  /\ owner = None /\ owner' = Traffic
  /\ \E answer \in {None} \cup LIDs :
       LET l == IF Known(p) # None THEN Known(p) ELSE answer
       IN  /\ answer # None => Known(p) = None /\ <<p, answer>> \in Announced
           /\ load' = [pn |-> p, device |-> d, home |-> Home(p, l),
                       record |-> session[<<Home(p, l), d>>], mapped |-> answer]
           /\ IF l # None /\ cfwd[p] = None THEN Cache(p, l) ELSE UNCHANGED cache
  /\ UNCHANGED <<store, deviceList, session, migrated, locked, job, bounds>>

\* storeSession resolves the address once more, and the transaction commits.
Store(r) ==
  /\ session' = [session EXCEPT ![<<Home(load.pn, Known(load.pn)), load.device>>] = r]
  /\ IF load.mapped = None THEN UNCHANGED store
     ELSE /\ fwd' = [fwd EXCEPT ![load.pn] = load.mapped]
          /\ rev' = [rev EXCEPT ![load.mapped] = load.pn]
  /\ owner' = None /\ load' = Idle
  /\ UNCHANGED <<cache, deviceList, migrated, locked, job, failures, restarts>>

\* A message is encrypted or decrypted with the session that was loaded.
Ratchet ==
  /\ owner = Traffic /\ load.record # NoSession /\ load.record.step < MaxSteps
  /\ Store(Session(load.record.id, load.record.step + 1))
  /\ UNCHANGED fresh

\* A pre-key message, or a fetched bundle, establishes a new session.
Establish ==
  /\ owner = Traffic /\ fresh < MaxSessions
  /\ fresh' = fresh + 1
  /\ Store(Session(fresh + 1, 1))

\* The work throws (no session, a bad MAC, another device's encryption fails):
\* what was staged is dropped.
Throw ==
  /\ owner = Traffic
  /\ owner' = None /\ load' = Idle
  /\ UNCHANGED <<store, cache, deviceList, session, migrated, locked, job, bounds>>

-----------------------------------------------------------------------------
(* Everybody else.                                                         *)

\* sendRetryRequest and others delete a session by its address, outside any
\* transaction and without resolving it.
DeleteSession(a) ==
  /\ session[a] # NoSession
  /\ session' = [session EXCEPT ![a] = NoSession]
  /\ UNCHANGED <<store, cache, deviceList, migrated, owner, locked, job, load, bounds>>

\* A device list that USync brought is flushed to the store.
FlushDevices(p) ==
  /\ deviceList[p] # Devices
  /\ deviceList' = [deviceList EXCEPT ![p] = Devices]
  /\ UNCHANGED <<store, cache, session, migrated, owner, locked, job, load, bounds>>

\* The process starts again: what was in memory is gone.
Restart ==
  /\ restarts < MaxRestarts
  /\ restarts' = restarts + 1
  /\ cfwd' = [p \in PNs |-> None] /\ crev' = [l \in LIDs |-> None]
  /\ migrated' = {} /\ owner' = None /\ locked' = {} /\ load' = Idle
  /\ job' = [j \in Jobs |-> IF At(j, "idle") THEN job[j] ELSE Blank("done")]
  /\ UNCHANGED <<store, deviceList, session, fresh, failures>>

-----------------------------------------------------------------------------
StoreStep(j) ==
  \/ Check(j) \/ Checked(j) \/ Write(j) \/ WriteFails(j) \/ UpdateCache(j)
  \/ OwnList(j)
MigrateStep(j) ==
  \/ MigrateDevices(j) \/ Discover(j) \/ BeginMove(j) \/ CommitMove(j) \/ CommitMoveFails(j)
JobStep(j) == Lock(j) \/ Look(j) \/ Looked(j) \/ StoreStep(j) \/ MigrateStep(j)

Next ==
  \/ \E j \in Jobs : Start(j) \/ JobStep(j)
  \/ \E p \in Talkers, d \in Devices : Load(p, d)
  \/ Ratchet \/ Establish \/ Throw
  \/ \E a \in Addresses : DeleteSession(a)
  \/ \E p \in Talkers : FlushDevices(p)
  \/ Restart

Spec == Init /\ [][Next]_vars

-----------------------------------------------------------------------------
Sessions == [id : Nat, step : Nat]
Labels == {"idle", "lock", "look", "looked", "check", "checked", "write", "written",
           "list", "migrate", "discover", "move", "moving", "done"}

TypeStore ==
  /\ fwd \in [PNs -> LIDs \cup {None}] /\ rev \in [LIDs -> PNs \cup {None}]
  /\ cfwd \in [PNs -> LIDs \cup {None}] /\ crev \in [LIDs -> PNs \cup {None}]
  /\ deviceList \in [PNs -> SUBSET Devices]
  /\ session \in [Addresses -> Sessions] /\ migrated \subseteq PNs \X Devices

JobRecords ==
  [pc : Labels, kind : Kinds, pn : PNs \cup {None}, lid : LIDs \cup {None},
   seen : PNs \cup LIDs \cup {None}, devs : SUBSET Devices, copies : [Devices -> Sessions]]

TypeJobs ==
  /\ owner \in {None, Traffic} \cup Jobs /\ locked \subseteq PNs \cup LIDs
  /\ job \in [Jobs -> JobRecords]

TypeTraffic ==
  /\ load \in [pn : PNs \cup {None}, device : Devices \cup {None},
               home : PNs \cup LIDs \cup {None}, record : Sessions, mapped : LIDs \cup {None}]
  /\ fresh \in 0..MaxSessions /\ failures \in 0..MaxFailures /\ restarts \in 0..MaxRestarts

\* The type invariant.
TypeOK == TypeStore /\ TypeJobs /\ TypeTraffic

\* As long as every commit is whole, no session is at two addresses: a decrypt
\* stores the ratchet where it loaded it (loadSession and storeSession resolve
\* the address separately), and a migration leaves no copy behind.  Two copies
\* would ratchet apart and the later migration would bring the older one back.
NoTwins ==
  failures = 0 =>
    \A a, b \in Addresses :
      session[a] # NoSession /\ session[a].id = session[b].id => a = b

\* A session never loses a ratchet step, wherever it moves: what the peer has
\* seen encrypted or decrypted is not brought back by a later migration.
RatchetKept ==
  [][failures' = 0 =>
       \A a, b \in Addresses :
         session[a] # NoSession /\ session[a].id = session'[b].id => session'[b].step >= session[a].step]_vars

\* An alt address is held by one announcement that is being dealt with: no way
\* out of it, by a match, a missing device list or a throw, leaves the address
\* locked for the next stanza that names it.
LockOwned ==
  \A a \in locked : \E j \in Jobs :
    /\ Locks(j) /\ Alt(j) = a /\ job[j].pc \notin {"idle", "lock", "done"}
    /\ \A i \in Jobs : Locks(i) /\ Alt(i) = a /\ i # j => At(i, "lock")
=============================================================================
