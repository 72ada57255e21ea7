-------------------------- MODULE OutboundMessages --------------------------
(***************************************************************************)
(* Sending: relayMessage of lib/Socket/messages-send.js to a group or to a *)
(* peer, and the answers to retry receipts, handleReceipt and              *)
(* sendMessagesAgain of lib/Socket/messages-recv.js, with the device lists *)
(* and the sender key memory they share.                                   *)
(*                                                                         *)
(* A relay is one transaction of the key store, whose mutex admits one at  *)
(* a time: tx is the one that runs.  It stages what it writes; the store   *)
(* changes when it commits.  Deletions made outside of a transaction reach *)
(* the store at once, while a relay may have read what they delete.        *)
(* There is one group, and a peer; a device belongs to a member of both.   *)
(* Of a session it only matters which receipts it is newer than: it is the *)
(* set of receipts that were being served when it was made, None for none. *)
(***************************************************************************)
EXTENDS Naturals, FiniteSets

CONSTANTS
  Devices,      \* devices of the others
  Primaries,    \* those with device number 0
  Msgs, Direct, \* messages to send, and those among them to the peer
  Receipts,     \* retry receipts
  None,
  maxMsgRetryCount,
  MaxSends,     \* bound on messages the application sends
  MaxChanges,   \* bound on changes of device lists and identities
  MaxFaults     \* bound on commits that give up and restarts of the process

ASSUME OutboundAssumption ==
  /\ Primaries \subseteq Devices /\ Direct \subseteq Msgs
  /\ Msgs \cap Receipts = {} /\ None \notin Msgs \cup Receipts \cup Devices
  /\ maxMsgRetryCount \in Nat
  /\ MaxSends \in Nat /\ MaxChanges \in Nat /\ MaxFaults \in Nat

VARIABLES
  memory,       \* the store's sender-key-memory of the group
  skey,         \* whether the store has a sender key of the group
  sess,         \* the store's session with each device
  real,         \* devices there are, as the server knows
  cached,       \* userDevicesCache of the members, None without an entry
  removing,     \* a removed device whose handler has devicesMutex, None without one
  tx,           \* the relay that runs
  send,         \* the application's messages: idle, waiting or done
  rcpt,         \* the handlers of retry receipts
  charged,      \* msgRetryCache: resends charged to a message and a device
  told, resent, \* on the wire: devices given the last sender key used, and resends
  changes, failures, crashes

store == <<memory, skey, sess>>
wire  == <<told, resent>>
bounds == <<changes, failures, crashes>>
vars == <<store, real, cached, removing, tx, send, rcpt, charged, wire, bounds>>

\* A relay: for whom it runs, its message, the device of a resend to one, the
\* devices of the chat, the copy of the memory, the devices it encrypts to,
\* whether it makes the sender key, and the sessions it stages.
NoTx == [phase |-> "none", by |-> None, msg |-> None, one |-> None, list |-> {},
         memo |-> {}, need |-> {}, newKey |-> FALSE, sess |-> [d \in Devices |-> None]]

\* A receipt: who asks for what, and the messages still to send.
NoReceipt(pc) == [pc |-> pc, from |-> None, chat |-> None, left |-> {}]

Init ==
  /\ memory = {} /\ skey = FALSE /\ sess = [d \in Devices |-> None]
  /\ real \in {Primaries \cup ds : ds \in SUBSET Devices} /\ cached = None
  /\ removing = None /\ tx = NoTx
  /\ send = [m \in Msgs |-> "idle"]
  /\ rcpt = [r \in Receipts |-> NoReceipt("idle")]
  /\ charged = [m \in Msgs |-> [d \in Devices |-> 0]]
  /\ told = {}
  /\ resent = [m \in Msgs |-> [d \in Devices |-> 0]]
  /\ changes = 0 /\ failures = 0 /\ crashes = 0

\* A session made now.
Session == {r \in Receipts : rcpt[r].pc \notin {"idle", "done"}}

Free == tx.phase = "none"
Group(m) == m \notin Direct
At(r, pc) == rcpt[r].pc = pc
Goto(r, pc) == rcpt' = [rcpt EXCEPT ![r].pc = pc]

-----------------------------------------------------------------------------
(* relayMessage.                                                           *)

\* The devices come from the cache, or from the server; the memory is read
\* for a group.
Begin(by, m, useCache) ==
  LET hit == useCache /\ cached # None
  IN  tx' = [NoTx EXCEPT !.phase = IF hit THEN "encrypt" ELSE "listed", !.by = by, !.msg = m,
                         !.list = IF hit THEN cached ELSE real,
                         !.memo = IF Group(m) THEN memory ELSE {}]

\* A resend to one device lists none.
BeginOne(by, m, d) == tx' = [NoTx EXCEPT !.phase = "encrypt", !.by = by, !.msg = m, !.one = d]

Send(m) ==
  /\ send[m] = "idle" /\ Free
  /\ Cardinality({n \in Msgs : send[n] # "idle"}) < MaxSends
  /\ send' = [send EXCEPT ![m] = "waiting"]
  /\ Begin(m, m, TRUE)
  /\ UNCHANGED <<store, real, cached, removing, rcpt, charged, wire, bounds>>

\* The answer of the USync query maps LIDs, whose sessions are renewed by force
\* inside the relay's transaction; a failure to do so is only logged.
RenewLids ==
  /\ tx.phase = "listed" /\ \A d \in Devices : tx.sess[d] = None
  /\ tx' = [tx EXCEPT !.sess = [d \in Devices |-> IF d \in tx.list \cap Primaries THEN Session
                                                 ELSE None]]
  /\ UNCHANGED <<store, real, cached, removing, send, rcpt, charged, wire, bounds>>

\* It is cached under devicesMutex, whose owner may be waiting for this very
\* transaction to end.
DevicesFree == removing = None
StoreList ==
  /\ tx.phase = "listed" /\ DevicesFree
  /\ cached' = tx.list
  /\ tx' = [tx EXCEPT !.phase = "encrypt"]
  /\ UNCHANGED <<store, real, removing, send, rcpt, charged, wire, bounds>>

\* encryptGroupMessage makes the sender key if there is none, assertSessions
\* fetches the sessions that are missing, and createParticipantNodes encrypts
\* to all of the devices.  A resend to one carries the sender key there is.
NewKey == Group(tx.msg) /\ tx.one = None /\ ~skey
Need == IF tx.one # None THEN {tx.one} ELSE tx.list \ tx.memo
Encrypted ==
  /\ tx.phase = "encrypt"
  /\ tx' = [tx EXCEPT !.phase = "send", !.need = Need, !.newKey = NewKey,
               !.sess = [d \in Devices |-> IF d \notin Need \/ tx.sess[d] # None THEN tx.sess[d]
                                          ELSE IF sess[d] = None THEN Session ELSE sess[d]]]
  /\ UNCHANGED <<skey, sess, real, cached, removing, send, rcpt, charged, wire, bounds>>

\* Mutant: the store's own map is edited, before the stanza is on the wire.
EncryptInPlace ==
  /\ Encrypted
  /\ memory' = IF Group(tx.msg) /\ tx.one = None THEN tx.memo \cup Need ELSE memory

Encrypt == Encrypted /\ UNCHANGED memory

\* The relay is over; who asked for it goes on.
End(ok) ==
  /\ tx' = NoTx
  /\ IF tx.by \in Msgs
     THEN send' = [send EXCEPT ![tx.by] = "done"] /\ UNCHANGED rcpt
     ELSE /\ rcpt' = [rcpt EXCEPT ![tx.by].left = @ \ {tx.msg},
                                  ![tx.by].pc = IF ok THEN "resend" ELSE "ack"]
          /\ UNCHANGED send

\* A query, an encryption or the send fails: nothing of it is kept.
Fail ==
  /\ tx.phase \in {"listed", "encrypt", "send"}
  /\ End(FALSE)
  /\ UNCHANGED <<store, real, cached, removing, charged, wire, bounds>>

\* The stanza goes out; then the memory is staged.
SendNode ==
  /\ tx.phase = "send"
  /\ told' = IF tx.newKey THEN tx.need
             ELSE IF Group(tx.msg) /\ skey THEN told \cup tx.need ELSE told
  /\ resent' = IF tx.by \in Msgs THEN resent
               ELSE [resent EXCEPT ![tx.msg][rcpt[tx.by].from] = @ + 1]
  /\ tx' = [tx EXCEPT !.phase = "commit", !.memo = @ \cup tx.need]
  /\ UNCHANGED <<store, real, cached, removing, send, rcpt, charged, bounds>>

\* What the transaction leaves in the store, by what it wrote of it.
Keys == {"memory", "skey"} \cup Devices
Written(ks) ==
  /\ memory' = IF "memory" \in ks /\ Group(tx.msg) /\ tx.one = None THEN tx.memo ELSE memory
  /\ skey' = (skey \/ ("skey" \in ks /\ tx.newKey))
  /\ sess' = [d \in Devices |-> IF d \in ks /\ tx.sess[d] # None THEN tx.sess[d] ELSE sess[d]]

Commit ==
  /\ tx.phase = "commit"
  /\ Written(Keys) /\ End(TRUE)
  /\ UNCHANGED <<real, cached, removing, charged, wire, bounds>>

\* The commit gives up in the middle; the message has gone.
CommitFails ==
  /\ tx.phase = "commit" /\ failures + crashes < MaxFaults
  /\ failures' = failures + 1
  /\ \E ks \in SUBSET Keys : Written(ks)
  /\ End(FALSE)
  /\ UNCHANGED <<real, cached, removing, charged, wire, changes, crashes>>

-----------------------------------------------------------------------------
(* handleReceipt and sendMessagesAgain.                                    *)

\* A device asks for messages of a chat that have gone out.
Arrive(r) ==
  /\ At(r, "idle")
  /\ \E d \in Devices, chat \in {Direct, Msgs \ Direct} :
       \E ids \in SUBSET {m \in chat : send[m] = "done"} \ {{}} :
         rcpt' = [rcpt EXCEPT ![r] = [pc |-> "lock", from |-> d, chat |-> chat, left |-> ids]]
  /\ UNCHANGED <<store, real, cached, removing, tx, send, charged, wire, bounds>>

\* Mutant: one resend too many is permitted.
PermittedOneMore(d, ids) == {m \in ids : charged[m][d] <= maxMsgRetryCount}

\* chargeSendMessageAgainCount for each of them.
Permitted(d, ids) == {m \in ids : charged[m][d] < maxMsgRetryCount}

Charged(d, ids) == charged' = [m \in Msgs |-> IF m \in ids THEN [charged[m] EXCEPT ![d] = @ + 1] ELSE charged[m]]

\* receiptMutex: nobody else is at a receipt of the chat.
MyTurn(r) ==
  /\ At(r, "lock")
  /\ \A q \in Receipts : rcpt[q].chat = rcpt[r].chat => rcpt[q].pc \in {"lock", "ack"}

\* Mutant: only the first message asked for is charged.
ChargeFirst(r) ==
  LET first == CHOOSE m \in rcpt[r].left : TRUE
      ok == Permitted(rcpt[r].from, {first})
  IN  /\ MyTurn(r)
      /\ Charged(rcpt[r].from, ok)
      /\ rcpt' = IF ok = {} THEN [rcpt EXCEPT ![r].left = {}, ![r].pc = "ack"]
                 ELSE [rcpt EXCEPT ![r].pc = "inject"]
      /\ UNCHANGED <<store, real, cached, removing, tx, send, wire, bounds>>

\* Every message asked for is charged before any is sent.
Charge(r) ==
  LET ok == Permitted(rcpt[r].from, rcpt[r].left)
  IN  /\ MyTurn(r)
      /\ Charged(rcpt[r].from, ok)
      /\ rcpt' = [rcpt EXCEPT ![r].left = ok, ![r].pc = IF ok = {} THEN "ack" ELSE "inject"]
      /\ UNCHANGED <<store, real, cached, removing, tx, send, wire, bounds>>

\* A session of a key bundle, in a transaction of its own.
NewSession(d) == sess' = [sess EXCEPT ![d] = Session]

\* Mutant: it is stored while a relay may be using the old one.
InjectDirect(r) ==
  /\ At(r, "inject")
  /\ NewSession(rcpt[r].from) /\ Goto(r, "forget")
  /\ UNCHANGED <<memory, skey, real, cached, removing, tx, send, charged, wire, bounds>>

\* The receipt's own bundle is used.
Inject(r) ==
  /\ At(r, "inject") /\ Free
  /\ NewSession(rcpt[r].from) /\ Goto(r, "forget")
  /\ UNCHANGED <<memory, skey, real, cached, removing, tx, send, charged, wire, bounds>>

\* There is none, or it is refused.  Another registration id, a base key that
\* did not change or the rule of recreation may have the session deleted.
Drop(r) ==
  /\ At(r, "inject")
  /\ sess' \in {sess, [sess EXCEPT ![rcpt[r].from] = None]}
  /\ Goto(r, "fetch")
  /\ UNCHANGED <<memory, skey, real, cached, removing, tx, send, charged, wire, bounds>>

\* assertSessions with force, in which case the server is asked.
Fetch(r) ==
  /\ At(r, "fetch") /\ Free
  /\ NewSession(rcpt[r].from) /\ Goto(r, "forget")
  /\ UNCHANGED <<memory, skey, real, cached, removing, tx, send, charged, wire, bounds>>

FetchFails(r) ==
  /\ At(r, "fetch")
  /\ Goto(r, "ack")
  /\ UNCHANGED <<store, real, cached, removing, tx, send, charged, wire, bounds>>

\* The group's memory is deleted outside of any transaction.
Forget(r) ==
  /\ At(r, "forget")
  /\ memory' = IF rcpt[r].chat = Direct THEN memory ELSE {}
  /\ Goto(r, "resend")
  /\ UNCHANGED <<skey, sess, real, cached, removing, tx, send, charged, wire, bounds>>

\* To all from a primary device, which a group sends to a fresh device list,
\* else to the one that asked.  A message that is nowhere to be found is
\* passed over.
Resend(r, m) ==
  /\ At(r, "resend") /\ m \in rcpt[r].left
  /\ \/ /\ Free
        /\ IF rcpt[r].from \in Primaries THEN Begin(r, m, ~Group(m))
           ELSE BeginOne(r, m, rcpt[r].from)
        /\ Goto(r, "relay")
     \/ rcpt' = [rcpt EXCEPT ![r].left = @ \ {m}] /\ UNCHANGED tx
  /\ UNCHANGED <<store, real, cached, removing, send, charged, wire, bounds>>

\* In the finally block; a failure to send it is only logged.
Ack(r) ==
  /\ At(r, "ack") \/ (At(r, "resend") /\ rcpt[r].left = {})
  /\ rcpt' = [rcpt EXCEPT ![r] = NoReceipt("done")]
  /\ UNCHANGED <<store, real, cached, removing, tx, send, charged, wire, bounds>>

-----------------------------------------------------------------------------
(* Notifications.                                                          *)

Change == changes < MaxChanges /\ changes' = changes + 1

\* Without a list there is nothing to change: the next relay asks the server.
DeviceAdded(d) ==
  /\ Change /\ d \notin real /\ DevicesFree
  /\ real' = real \cup {d}
  /\ cached' = IF cached = None THEN None ELSE cached \cup {d}
  /\ UNCHANGED <<store, removing, tx, send, rcpt, charged, wire, failures, crashes>>

\* Its handler takes devicesMutex, and then waits for the store.
DeviceRemoved(d) ==
  /\ Change /\ d \in real \ Primaries /\ DevicesFree
  /\ real' = real \ {d} /\ removing' = d
  /\ UNCHANGED <<store, cached, tx, send, rcpt, charged, wire, failures, crashes>>

\* Its session is deleted, in a transaction; then the list is changed.
Removed(d) ==
  /\ removing = d /\ Free
  /\ removing' = None
  /\ sess' = [sess EXCEPT ![d] = None]
  /\ cached' = IF cached \in {None, {d}} THEN None ELSE cached \ {d}
  /\ UNCHANGED <<memory, skey, real, tx, send, rcpt, charged, wire, bounds>>

\* The list has changed in some way, or its entry has expired.
DevicesUpdated ==
  /\ Change
  /\ \/ DevicesFree /\ real' \in {Primaries \cup ds : ds \in SUBSET Devices}
     \/ real' = real
  /\ cached' = None
  /\ UNCHANGED <<store, removing, tx, send, rcpt, charged, wire, failures, crashes>>

\* A primary device has another identity: the session there is is renewed.
IdentityChanged(d) ==
  /\ Change /\ Free /\ sess[d] # None
  /\ NewSession(d)
  /\ UNCHANGED <<memory, skey, real, cached, removing, tx, send, rcpt, charged, wire, failures, crashes>>

\* The process ends and starts again; budgets and caches were in memory.
Crash ==
  /\ failures + crashes < MaxFaults
  /\ crashes' = crashes + 1
  /\ tx' = NoTx /\ cached' = None /\ removing' = None
  /\ send' = [m \in Msgs |-> IF send[m] = "waiting" THEN "done" ELSE send[m]]
  /\ rcpt' = [r \in Receipts |-> IF At(r, "idle") THEN rcpt[r] ELSE NoReceipt("done")]
  /\ charged' = [m \in Msgs |-> [d \in Devices |-> 0]] /\ resent' = charged'
  /\ UNCHANGED <<store, real, told, changes, failures>>

-----------------------------------------------------------------------------
RelayStep == RenewLids \/ StoreList \/ Encrypt \/ SendNode \/ Commit
ReceiptStep(r) ==
  \/ Charge(r) \/ Inject(r) \/ Drop(r) \/ Fetch(r) \/ FetchFails(r) \/ Forget(r)
  \/ \E m \in Msgs : Resend(r, m)
  \/ Ack(r)
Notice ==
  \/ \E d \in Devices : DeviceAdded(d) \/ DeviceRemoved(d) \/ Removed(d)
  \/ DevicesUpdated
  \/ \E d \in Primaries : IdentityChanged(d)

Next ==
  \/ \E m \in Msgs : Send(m)
  \/ RelayStep \/ Fail \/ CommitFails
  \/ \E r \in Receipts : Arrive(r) \/ ReceiptStep(r)
  \/ Notice \/ Crash

Spec == Init /\ [][Next]_vars

-----------------------------------------------------------------------------
TypeStore ==
  /\ memory \subseteq Devices /\ skey \in BOOLEAN
  /\ sess \in [Devices -> (SUBSET Receipts) \cup {None}]
  /\ real \subseteq Devices /\ cached \in (SUBSET Devices) \cup {None}
  /\ removing \in Devices \cup {None}

TypeTx ==
  tx \in [phase : {"none", "listed", "encrypt", "send", "commit"},
          by : Msgs \cup Receipts \cup {None}, msg : Msgs \cup {None}, one : Devices \cup {None},
          list : SUBSET Devices, memo : SUBSET Devices, need : SUBSET Devices,
          newKey : BOOLEAN, sess : [Devices -> (SUBSET Receipts) \cup {None}]]

TypeReceipts ==
  rcpt \in [Receipts -> [pc : {"idle", "lock", "inject", "fetch", "forget", "resend", "relay",
                              "ack", "done"},
                        from : Devices \cup {None}, chat : {None, Direct, Msgs \ Direct},
                        left : SUBSET Msgs]]

TypeCounts ==
  /\ send \in [Msgs -> {"idle", "waiting", "done"}]
  /\ charged \in [Msgs -> [Devices -> 0..maxMsgRetryCount]]
  /\ told \subseteq Devices /\ resent \in [Msgs -> [Devices -> Nat]]
  /\ changes \in 0..MaxChanges /\ failures \in Nat /\ crashes \in Nat /\ failures + crashes <= MaxFaults

\* The type invariant.
TypeOK == TypeStore /\ TypeTx /\ TypeReceipts /\ TypeCounts

\* A message goes to a device that keeps asking for it at most
\* maxMsgRetryCount times, whatever lists its receipts name and however they
\* meet (chargeSendMessageAgainCount: one charge per message that may go out).
ResendBudget == \A m \in Msgs, d \in Devices : resent[m][d] <= maxMsgRetryCount

\* A stanza for everybody can be read by every device of the list: it was
\* encrypted to the device, or the device was sent the very sender key.  Relays
\* that fail before or in the send, crashes between the send and the commit and
\* memories forgotten for a retry do not make the memory claim more.
FanOutReaches ==
  failures = 0 /\ tx.phase = "commit" /\ tx.one = None =>
    \A d \in tx.list : d \in tx.need \/ (Group(tx.msg) /\ d \in told)

\* A resend to a device uses a session that was made after its receipt came:
\* what the device cannot decrypt is not sent again by the same session, which
\* a relay in flight may have loaded and store once more.
FreshSession ==
  tx.phase \in {"send", "commit"} /\ tx.by \in Receipts /\ tx.one # None =>
    tx.by \in tx.sess[tx.one]

\* messages-recv.js, of a notification that finds no list: the delta is skipped
\* "so getUSyncDevices can later fetch the full device list".  A list that is
\* cached between two relays has all devices there are.
CachedListFull == Free /\ cached # None => real \subseteq cached
=============================================================================
