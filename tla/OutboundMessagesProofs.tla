----------------------- MODULE OutboundMessagesProofs -----------------------
(***************************************************************************)
(* Proofs about OutboundMessages, for every set of devices, messages and   *)
(* receipts and every budget: the types, the budget of resends, that a     *)
(* stanza for everybody reaches everybody, and that a resend uses a new    *)
(* session.                                                                *)
(***************************************************************************)
EXTENDS OutboundMessages, TLAPS

Stored == (SUBSET Receipts) \cup {None}
Chats == {Direct, Msgs \ Direct}
Serving == {"inject", "fetch", "forget", "resend", "relay"}

\* A relay has a message and somebody it runs for; a receipt it runs for waits
\* for it with that message still to send.
RelayShape ==
  /\ tx.phase = "none" => \A d \in Devices : tx.sess[d] = None
  /\ tx.phase # "none" => tx.msg \in Msgs /\ tx.by \in Msgs \cup Receipts
  /\ tx.phase # "none" /\ tx.by \in Receipts =>
       /\ At(tx.by, "relay") /\ tx.msg \in rcpt[tx.by].left
       /\ tx.one # None => tx.one = rcpt[tx.by].from

\* A receipt that has come names a device and messages of one chat.
ReceiptShape ==
  \A r \in Receipts : rcpt[r].pc \in Serving \cup {"lock"} =>
    rcpt[r].from \in Devices /\ rcpt[r].chat \in Chats /\ rcpt[r].left \subseteq rcpt[r].chat

Shape == TypeOK /\ RelayShape /\ ReceiptShape

-----------------------------------------------------------------------------
(* The types, and the shape of relays and receipts.                        *)

LEMMA InitShape == Init => Shape
  <1> SUFFICES ASSUME Init PROVE Shape
    OBVIOUS
  <1>1. TypeStore
    BY OutboundAssumption DEF OutboundAssumption, Init, TypeStore
  <1>2. TypeTx
    BY DEF Init, TypeTx, NoTx
  <1>3. TypeReceipts
    BY DEF Init, TypeReceipts, NoReceipt
  <1>4. charged \in [Msgs -> [Devices -> 0..maxMsgRetryCount]]
    BY OutboundAssumption DEF OutboundAssumption, Init
  <1>5. TypeCounts
    BY <1>4, OutboundAssumption DEF OutboundAssumption, Init, TypeCounts
  <1>6. RelayShape
    BY DEF Init, NoTx, RelayShape
  <1>7. ReceiptShape
    BY DEF Init, NoReceipt, ReceiptShape, Serving
  <1> QED BY <1>1, <1>2, <1>3, <1>5, <1>6, <1>7 DEF TypeOK, Shape

LEMMA SessionType == Session \in Stored
  BY DEF Session, Stored

\* A message is not a receipt, and neither is None.
LEMMA Apart ==
  /\ \A r \in Receipts : r \notin Msgs /\ r # None
  /\ \A m \in Msgs : m \notin Receipts /\ m # None
  /\ \A d \in Devices : d # None
  BY OutboundAssumption DEF OutboundAssumption

\* What Begin and BeginOne make of the relay.
LEMMA Begun ==
  ASSUME Shape, NEW by \in Msgs \cup Receipts, NEW m \in Msgs, NEW u \in BOOLEAN, Begin(by, m, u)
  PROVE  /\ TypeTx'
         /\ tx'.phase \in {"listed", "encrypt"} /\ tx'.by = by /\ tx'.msg = m /\ tx'.one = None
         /\ tx'.memo = IF Group(m) THEN memory ELSE {}
         /\ \A d \in Devices : tx'.sess[d] = None
  <1>1. cached # None => cached \in SUBSET Devices
    BY DEF Shape, TypeOK, TypeStore
  <1>2. memory \in SUBSET Devices /\ real \in SUBSET Devices
    BY DEF Shape, TypeOK, TypeStore
  <1>3. TypeTx'
    BY <1>1, <1>2 DEF Begin, NoTx, TypeTx
  <1> QED BY <1>3 DEF Begin, NoTx

LEMMA BegunOne ==
  ASSUME Shape, NEW by \in Msgs \cup Receipts, NEW m \in Msgs, NEW d \in Devices, BeginOne(by, m, d)
  PROVE  /\ TypeTx'
         /\ tx'.phase = "encrypt" /\ tx'.by = by /\ tx'.msg = m /\ tx'.one = d
         /\ \A e \in Devices : tx'.sess[e] = None
  <1>1. TypeTx'
    BY DEF BeginOne, NoTx, TypeTx
  <1> QED BY <1>1 DEF BeginOne, NoTx

\* After End there is no relay, and its receipt has one message less to send.
LEMMA Ended ==
  ASSUME Shape, tx.phase # "none", NEW ok \in BOOLEAN, End(ok)
  PROVE  /\ TypeTx' /\ TypeReceipts' /\ send' \in [Msgs -> {"idle", "waiting", "done"}]
         /\ tx' = NoTx /\ tx'.phase = "none" /\ RelayShape' /\ ReceiptShape'
         /\ \A r \in Receipts : r # tx.by => rcpt'[r] = rcpt[r]
         /\ tx.by \in Receipts =>
              rcpt'[tx.by] = [rcpt[tx.by] EXCEPT !.left = @ \ {tx.msg},
                                                 !.pc = IF ok THEN "resend" ELSE "ack"]
  <1>1. tx' = NoTx /\ TypeTx' /\ tx'.phase = "none"
    BY DEF End, NoTx, TypeTx
  <1>2. RelayShape'
    BY <1>1 DEF RelayShape, NoTx
  <1>3. CASE tx.by \in Msgs
    <2>1. rcpt' = rcpt /\ tx.by \notin Receipts
      BY <1>3, Apart DEF End
    <2>2. TypeReceipts' /\ ReceiptShape'
      BY <2>1 DEF Shape, TypeOK, TypeReceipts, ReceiptShape
    <2>3. send' \in [Msgs -> {"idle", "waiting", "done"}]
      BY <1>3 DEF End, Shape, TypeOK, TypeCounts
    <2> QED BY <1>1, <1>2, <2>1, <2>2, <2>3
  <1>4. CASE tx.by \notin Msgs
    <2>1. tx.by \in Receipts /\ At(tx.by, "relay")
      BY <1>4 DEF Shape, RelayShape
    <2>2. /\ rcpt' = [rcpt EXCEPT ![tx.by].left = @ \ {tx.msg},
                                  ![tx.by].pc = IF ok THEN "resend" ELSE "ack"]
          /\ send' = send
      BY <1>4 DEF End
    <2>3. TypeReceipts'
      BY <2>1, <2>2 DEF Shape, TypeOK, TypeReceipts
    <2>4. /\ \A r \in Receipts : r # tx.by => rcpt'[r] = rcpt[r]
          /\ rcpt'[tx.by] = [rcpt[tx.by] EXCEPT !.left = @ \ {tx.msg},
                                                !.pc = IF ok THEN "resend" ELSE "ack"]
      BY <2>1, <2>2 DEF Shape, TypeOK, TypeReceipts
    <2>5. rcpt[tx.by].from \in Devices /\ rcpt[tx.by].chat \in Chats
          /\ rcpt[tx.by].left \subseteq rcpt[tx.by].chat
      BY <2>1 DEF Shape, ReceiptShape, At, Serving
    <2>6. /\ rcpt'[tx.by].from = rcpt[tx.by].from /\ rcpt'[tx.by].chat = rcpt[tx.by].chat
          /\ rcpt'[tx.by].left = rcpt[tx.by].left \ {tx.msg}
      BY <2>1, <2>4 DEF Shape, TypeOK, TypeReceipts
    <2>7. ReceiptShape'
      BY <2>4, <2>5, <2>6 DEF Shape, ReceiptShape
    <2>8. send' \in [Msgs -> {"idle", "waiting", "done"}]
      BY <2>2 DEF Shape, TypeOK, TypeCounts
    <2> QED BY <1>1, <1>2, <2>1, <2>3, <2>4, <2>7, <2>8
  <1> QED BY <1>3, <1>4

\* Goto moves a receipt that is being served.
LEMMA Gone ==
  ASSUME Shape, NEW r \in Receipts, rcpt[r].pc \in Serving, rcpt[r].pc # "relay",
         NEW pc \in Serving \cup {"ack"}, Goto(r, pc)
  PROVE  /\ TypeReceipts' /\ ReceiptShape'
         /\ \A q \in Receipts : q # r => rcpt'[q] = rcpt[q]
         /\ rcpt'[r] = [rcpt[r] EXCEPT !.pc = pc]
         /\ tx' = tx => RelayShape'
  <1>1. /\ \A q \in Receipts : q # r => rcpt'[q] = rcpt[q]
        /\ rcpt'[r] = [rcpt[r] EXCEPT !.pc = pc]
    BY DEF Goto, Shape, TypeOK, TypeReceipts
  <1>2. TypeReceipts'
    BY DEF Goto, Shape, TypeOK, TypeReceipts, Serving
  <1>3. rcpt'[r].from = rcpt[r].from /\ rcpt'[r].chat = rcpt[r].chat /\ rcpt'[r].left = rcpt[r].left
    BY <1>1 DEF Shape, TypeOK, TypeReceipts
  <1>4. ReceiptShape'
    BY <1>1, <1>3 DEF Shape, ReceiptShape
  <1>5. ASSUME tx' = tx PROVE RelayShape'
    BY <1>1, <1>5, Apart DEF Shape, RelayShape, At
  <1> QED BY <1>1, <1>2, <1>4, <1>5

LEMMA SendShape ==
  ASSUME Shape, NEW m \in Msgs, Send(m) PROVE Shape'
  <1>1. TypeTx' /\ tx'.by = m /\ tx'.msg = m /\ tx'.phase # "none"
    BY Begun DEF Send
  <1>2. TypeStore' /\ TypeReceipts'
    BY DEF Send, store, Shape, TypeOK, TypeStore, TypeReceipts
  <1>3. TypeCounts'
    BY DEF Send, wire, bounds, Shape, TypeOK, TypeCounts
  <1>4. RelayShape' /\ ReceiptShape'
    BY <1>1, Apart DEF Send, Shape, RelayShape, ReceiptShape
  <1> QED BY <1>1, <1>2, <1>3, <1>4 DEF Shape, TypeOK

\* The sessions that are renewed for the LIDs of an answer.
LEMMA Renewed ==
  ASSUME Shape, RenewLids
  PROVE  /\ TypeTx' /\ tx.phase = "listed" /\ tx'.phase = "listed"
         /\ tx'.by = tx.by /\ tx'.msg = tx.msg /\ tx'.one = tx.one /\ tx'.memo = tx.memo
         /\ \A d \in Devices : tx'.sess[d] \in {None, Session}
  <1> DEFINE staged == [d \in Devices |-> IF d \in tx.list \cap Primaries THEN Session ELSE None]
  <1>1. staged \in [Devices -> (SUBSET Receipts) \cup {None}]
    BY SessionType DEF Stored
  <1>2. \A d \in Devices : staged[d] \in {None, Session}
    OBVIOUS
  <1>3. tx' = [tx EXCEPT !.sess = staged] /\ tx.phase = "listed"
    BY DEF RenewLids
  <1> HIDE DEF staged
  <1>4. /\ TypeTx' /\ tx'.sess = staged /\ tx'.phase = "listed"
        /\ tx'.by = tx.by /\ tx'.msg = tx.msg /\ tx'.one = tx.one /\ tx'.memo = tx.memo
    BY <1>1, <1>3 DEF Shape, TypeOK, TypeTx
  <1> QED BY <1>2, <1>3, <1>4

LEMMA RenewLidsShape == ASSUME Shape, RenewLids PROVE Shape'
  <1>1. /\ TypeTx' /\ tx.phase = "listed" /\ tx'.by = tx.by /\ tx'.msg = tx.msg
        /\ tx'.one = tx.one
    BY Renewed
  <1>2. TypeStore' /\ TypeReceipts' /\ ReceiptShape'
    BY DEF RenewLids, store, Shape, TypeOK, TypeStore, TypeReceipts, ReceiptShape
  <1>3. TypeCounts'
    BY DEF RenewLids, wire, bounds, Shape, TypeOK, TypeCounts
  <1>4. RelayShape'
    BY <1>1 DEF RenewLids, Shape, RelayShape, At
  <1> QED BY <1>1, <1>2, <1>3, <1>4 DEF Shape, TypeOK

LEMMA StoreListShape == ASSUME Shape, StoreList PROVE Shape'
  <1>1. tx.phase = "listed" /\ tx' = [tx EXCEPT !.phase = "encrypt"] /\ cached' = tx.list
    BY DEF StoreList
  <1>2. TypeTx' /\ tx'.by = tx.by /\ tx'.msg = tx.msg /\ tx'.one = tx.one
    BY <1>1 DEF Shape, TypeOK, TypeTx
  <1>3. TypeStore' /\ TypeReceipts' /\ ReceiptShape'
    BY <1>1 DEF StoreList, store, Shape, TypeOK, TypeStore, TypeTx, TypeReceipts, ReceiptShape
  <1>4. TypeCounts'
    BY DEF StoreList, wire, bounds, Shape, TypeOK, TypeCounts
  <1>5. RelayShape'
    BY <1>1, <1>2 DEF StoreList, Shape, RelayShape, At
  <1> QED BY <1>2, <1>3, <1>4, <1>5 DEF Shape, TypeOK

LEMMA NeedType == ASSUME Shape PROVE Need \in SUBSET Devices
  BY DEF Need, Shape, TypeOK, TypeTx

LEMMA NewKeyType == ASSUME Shape PROVE NewKey \in BOOLEAN
  BY DEF NewKey, Shape, TypeOK, TypeTx

\* The session that a relay has staged, or loads, or makes.
Loads(d) == IF d \notin Need \/ tx.sess[d] # None THEN tx.sess[d]
            ELSE IF sess[d] = None THEN Session ELSE sess[d]

\* The relay once it has encrypted.
LEMMA EncryptedTx ==
  ASSUME Shape, Encrypted
  PROVE  /\ TypeTx' /\ tx.phase = "encrypt" /\ tx'.phase = "send"
         /\ tx'.by = tx.by /\ tx'.msg = tx.msg /\ tx'.one = tx.one
         /\ tx'.list = tx.list /\ tx'.memo = tx.memo
         /\ tx'.need = Need /\ tx'.newKey = NewKey
         /\ \A d \in Devices : tx'.sess[d] = Loads(d)
  <1> DEFINE staged == [d \in Devices |-> Loads(d)]
  <1>1. staged \in [Devices -> (SUBSET Receipts) \cup {None}]
    <2>1. \A d \in Devices : /\ sess[d] \in (SUBSET Receipts) \cup {None}
                            /\ tx.sess[d] \in (SUBSET Receipts) \cup {None}
      BY DEF Shape, TypeOK, TypeStore, TypeTx
    <2> QED BY <2>1, SessionType DEF Stored, Loads
  <1>2. tx' = [tx EXCEPT !.phase = "send", !.need = Need, !.newKey = NewKey, !.sess = staged]
    BY DEF Encrypted, Loads
  <1>3. \A d \in Devices : staged[d] = Loads(d)
    OBVIOUS
  <1> HIDE DEF staged
  <1>4. TypeTx'
    BY <1>1, <1>2, NeedType, NewKeyType DEF Shape, TypeOK, TypeTx
  <1>5. /\ tx'.phase = "send" /\ tx'.by = tx.by /\ tx'.msg = tx.msg /\ tx'.one = tx.one
        /\ tx'.list = tx.list /\ tx'.memo = tx.memo
        /\ tx'.need = Need /\ tx'.newKey = NewKey /\ tx'.sess = staged
    BY <1>2 DEF Shape, TypeOK, TypeTx
  <1>6. tx.phase = "encrypt"
    BY DEF Encrypted
  <1> QED BY <1>3, <1>4, <1>5, <1>6

LEMMA EncryptShape == ASSUME Shape, Encrypt PROVE Shape'
  <1>1. Encrypted /\ memory' = memory
    BY DEF Encrypt
  <1>2. TypeTx' /\ tx.phase = "encrypt" /\ tx'.by = tx.by /\ tx'.msg = tx.msg /\ tx'.one = tx.one
    BY <1>1, EncryptedTx
  <1>3. TypeStore' /\ TypeReceipts' /\ ReceiptShape'
    BY <1>1 DEF Encrypted, Shape, TypeOK, TypeStore, TypeReceipts, ReceiptShape
  <1>4. TypeCounts'
    BY <1>1 DEF Encrypted, wire, bounds, Shape, TypeOK, TypeCounts
  <1>5. RelayShape'
    BY <1>1, <1>2 DEF Encrypted, Shape, RelayShape, At
  <1> QED BY <1>2, <1>3, <1>4, <1>5 DEF Shape, TypeOK

LEMMA FailShape == ASSUME Shape, Fail PROVE Shape'
  <1>1. tx.phase # "none" /\ End(FALSE)
    BY DEF Fail
  <1>2. /\ TypeTx' /\ TypeReceipts' /\ send' \in [Msgs -> {"idle", "waiting", "done"}]
        /\ RelayShape' /\ ReceiptShape'
    BY <1>1, Ended
  <1>3. TypeStore'
    BY DEF Fail, store, Shape, TypeOK, TypeStore
  <1>4. TypeCounts'
    BY <1>2 DEF Fail, wire, bounds, Shape, TypeOK, TypeCounts
  <1> QED BY <1>2, <1>3, <1>4 DEF Shape, TypeOK

\* What the send makes of the relay and of the wire.
LEMMA Sent ==
  ASSUME Shape, SendNode
  PROVE  /\ TypeTx' /\ tx.phase = "send" /\ tx'.phase = "commit"
         /\ tx'.by = tx.by /\ tx'.msg = tx.msg /\ tx'.one = tx.one /\ tx'.list = tx.list
         /\ tx'.need = tx.need /\ tx'.newKey = tx.newKey /\ tx'.sess = tx.sess
         /\ tx'.memo = tx.memo \cup tx.need
         /\ told' \subseteq Devices /\ resent' \in [Msgs -> [Devices -> Nat]]
  <1>1. tx.phase = "send" /\ tx' = [tx EXCEPT !.phase = "commit", !.memo = @ \cup tx.need]
    BY DEF SendNode
  <1>2. /\ TypeTx' /\ tx'.phase = "commit"
        /\ tx'.by = tx.by /\ tx'.msg = tx.msg /\ tx'.one = tx.one /\ tx'.list = tx.list
        /\ tx'.need = tx.need /\ tx'.newKey = tx.newKey /\ tx'.sess = tx.sess
        /\ tx'.memo = tx.memo \cup tx.need
    BY <1>1 DEF Shape, TypeOK, TypeTx
  <1>3. told' \subseteq Devices
    <2>1. tx.need \subseteq Devices /\ told \subseteq Devices
      BY DEF Shape, TypeOK, TypeTx, TypeCounts
    <2>2. told' \in {tx.need, told \cup tx.need, told}
      BY DEF SendNode
    <2> QED BY <2>1, <2>2
  <1>4. resent' \in [Msgs -> [Devices -> Nat]]
    <2>1. resent \in [Msgs -> [Devices -> Nat]]
      BY DEF Shape, TypeOK, TypeCounts
    <2>2. CASE tx.by \in Msgs
      BY <2>1, <2>2 DEF SendNode
    <2>3. CASE tx.by \notin Msgs
      <3>1. resent' = [resent EXCEPT ![tx.msg][rcpt[tx.by].from] = @ + 1]
        BY <2>3 DEF SendNode
      <3>2. tx.msg \in Msgs /\ rcpt[tx.by].from \in Devices
        BY <1>1, <2>3 DEF Shape, RelayShape, ReceiptShape, At, Serving
      <3>3. resent[tx.msg][rcpt[tx.by].from] + 1 \in Nat
        BY <2>1, <3>2
      <3> QED BY <2>1, <3>1, <3>2, <3>3
    <2> QED BY <2>2, <2>3
  <1> QED BY <1>1, <1>2, <1>3, <1>4

LEMMA SendNodeShape == ASSUME Shape, SendNode PROVE Shape'
  <1>1. TypeTx' /\ tx.phase = "send" /\ tx'.by = tx.by /\ tx'.msg = tx.msg /\ tx'.one = tx.one
    BY Sent
  <1>2. TypeStore' /\ TypeReceipts' /\ ReceiptShape'
    BY DEF SendNode, store, Shape, TypeOK, TypeStore, TypeReceipts, ReceiptShape
  <1>3. TypeCounts'
    BY Sent DEF SendNode, bounds, Shape, TypeOK, TypeCounts
  <1>4. RelayShape'
    BY <1>1 DEF SendNode, Shape, RelayShape, At
  <1> QED BY <1>1, <1>2, <1>3, <1>4 DEF Shape, TypeOK

LEMMA WrittenTypes ==
  ASSUME Shape, NEW ks \in SUBSET Keys, Written(ks)
  PROVE  memory' \subseteq Devices /\ skey' \in BOOLEAN /\ sess' \in [Devices -> (SUBSET Receipts) \cup {None}]
  <1>1. memory' \subseteq Devices /\ skey' \in BOOLEAN
    BY DEF Written, Shape, TypeOK, TypeStore, TypeTx
  <1>2. sess' \in [Devices -> (SUBSET Receipts) \cup {None}]
    BY DEF Written, Shape, TypeOK, TypeStore, TypeTx
  <1> QED BY <1>1, <1>2

LEMMA CommitShape == ASSUME Shape, Commit PROVE Shape'
  <1>1. tx.phase # "none" /\ End(TRUE) /\ Written(Keys)
    BY DEF Commit
  <1>2. /\ TypeTx' /\ TypeReceipts' /\ send' \in [Msgs -> {"idle", "waiting", "done"}]
        /\ RelayShape' /\ ReceiptShape'
    BY <1>1, Ended
  <1>3. TypeStore'
    BY <1>1, WrittenTypes DEF Commit, Shape, TypeOK, TypeStore
  <1>4. TypeCounts'
    BY <1>2 DEF Commit, wire, bounds, Shape, TypeOK, TypeCounts
  <1> QED BY <1>2, <1>3, <1>4 DEF Shape, TypeOK

LEMMA CommitFailsShape == ASSUME Shape, CommitFails PROVE Shape'
  <1>1. tx.phase # "none" /\ End(FALSE)
    BY DEF CommitFails
  <1>2. PICK ks \in SUBSET Keys : Written(ks)
    BY DEF CommitFails
  <1>3. /\ TypeTx' /\ TypeReceipts' /\ send' \in [Msgs -> {"idle", "waiting", "done"}]
        /\ RelayShape' /\ ReceiptShape'
    BY <1>1, Ended
  <1>4. TypeStore'
    BY <1>2, WrittenTypes DEF CommitFails, Shape, TypeOK, TypeStore
  <1>5. failures' \in Nat /\ crashes' \in Nat /\ failures' + crashes' <= MaxFaults
    BY OutboundAssumption DEF OutboundAssumption, CommitFails, Shape, TypeOK, TypeCounts
  <1>6. TypeCounts'
    BY <1>3, <1>5 DEF CommitFails, wire, Shape, TypeOK, TypeCounts
  <1> QED BY <1>3, <1>4, <1>6 DEF Shape, TypeOK

\* The steps of a receipt and the changes leave the relay that runs alone.
LEMMA ArriveShape ==
  ASSUME Shape, NEW r \in Receipts, Arrive(r) PROVE Shape'
  <1>1. PICK d \in Devices, chat \in Chats :
          \E ids \in SUBSET {m \in chat : send[m] = "done"} :
            rcpt' = [rcpt EXCEPT ![r] = [pc |-> "lock", from |-> d, chat |-> chat, left |-> ids]]
    BY DEF Arrive, Chats
  <1>2. PICK ids \in SUBSET chat :
          rcpt' = [rcpt EXCEPT ![r] = [pc |-> "lock", from |-> d, chat |-> chat, left |-> ids]]
    BY <1>1
  <1>3. chat \subseteq Msgs
    BY OutboundAssumption DEF Chats, OutboundAssumption
  <1>4. TypeReceipts'
    BY <1>2, <1>3 DEF Chats, Shape, TypeOK, TypeReceipts
  <1>5. \A q \in Receipts : q # r => rcpt'[q] = rcpt[q]
    BY <1>2 DEF Shape, TypeOK, TypeReceipts
  <1>6. rcpt'[r] = [pc |-> "lock", from |-> d, chat |-> chat, left |-> ids]
    BY <1>2 DEF Shape, TypeOK, TypeReceipts
  <1>7. ReceiptShape'
    BY <1>5, <1>6 DEF Shape, ReceiptShape
  <1>8. tx' = tx /\ rcpt[r].pc = "idle"
    BY DEF Arrive, At
  <1>9. RelayShape'
    BY <1>5, <1>8 DEF Shape, RelayShape, At
  <1>10. TypeStore' /\ TypeTx'
    BY DEF Arrive, store, Shape, TypeOK, TypeStore, TypeTx
  <1>11. TypeCounts'
    BY DEF Arrive, wire, bounds, Shape, TypeOK, TypeCounts
  <1> QED BY <1>4, <1>7, <1>9, <1>10, <1>11 DEF Shape, TypeOK

\* What the charge makes of the budget and of the receipt.
LEMMA ChargedOnce ==
  ASSUME Shape, NEW r \in Receipts, Charge(r)
  PROVE  LET d  == rcpt[r].from
             ok == Permitted(d, rcpt[r].left)
         IN  /\ rcpt[r].pc = "lock" /\ d \in Devices
             /\ charged' \in [Msgs -> [Devices -> 0..maxMsgRetryCount]]
             /\ \A m \in Msgs, e \in Devices :
                  charged'[m][e] = IF m \in ok /\ e = d THEN charged[m][e] + 1 ELSE charged[m][e]
             /\ \A q \in Receipts : q # r => rcpt'[q] = rcpt[q]
             /\ rcpt'[r] = [rcpt[r] EXCEPT !.left = ok, !.pc = IF ok = {} THEN "ack" ELSE "inject"]
             /\ TypeReceipts'
  <1> DEFINE d  == rcpt[r].from
             ok == Permitted(d, rcpt[r].left)
  <1>1. rcpt[r].pc = "lock" /\ d \in Devices /\ rcpt[r].left \subseteq Msgs
    BY DEF Charge, MyTurn, At, Shape, ReceiptShape, TypeOK, TypeReceipts
  <1>2. /\ charged' = [m \in Msgs |-> IF m \in ok THEN [charged[m] EXCEPT ![d] = @ + 1] ELSE charged[m]]
        /\ rcpt' = [rcpt EXCEPT ![r].left = ok, ![r].pc = IF ok = {} THEN "ack" ELSE "inject"]
    BY DEF Charge, Charged
  <1>3. ok \subseteq Msgs /\ \A m \in ok : charged[m][d] < maxMsgRetryCount
    BY <1>1 DEF Permitted
  <1>4. charged \in [Msgs -> [Devices -> 0..maxMsgRetryCount]] /\ maxMsgRetryCount \in Nat
    BY OutboundAssumption DEF OutboundAssumption, Shape, TypeOK, TypeCounts
  <1> HIDE DEF d, ok
  <1>5. \A m \in ok : charged[m][d] + 1 \in 0..maxMsgRetryCount
    BY <1>1, <1>3, <1>4
  <1>6. \A m \in Msgs : charged'[m] \in [Devices -> 0..maxMsgRetryCount]
    BY <1>2, <1>4, <1>5
  <1>7. charged' \in [Msgs -> [Devices -> 0..maxMsgRetryCount]]
    BY <1>2, <1>6
  <1>8. \A m \in Msgs, e \in Devices :
          charged'[m][e] = IF m \in ok /\ e = d THEN charged[m][e] + 1 ELSE charged[m][e]
    BY <1>2, <1>4
  <1>9. TypeReceipts'
    <2>1. PICK pc \in {"ack", "inject"} : rcpt' = [rcpt EXCEPT ![r].left = ok, ![r].pc = pc]
      BY <1>2
    <2> QED BY <2>1, <1>3 DEF Shape, TypeOK, TypeReceipts
  <1>10. /\ \A q \in Receipts : q # r => rcpt'[q] = rcpt[q]
         /\ rcpt'[r] = [rcpt[r] EXCEPT !.left = ok, !.pc = IF ok = {} THEN "ack" ELSE "inject"]
    BY <1>2 DEF Shape, TypeOK, TypeReceipts
  <1> QED BY <1>1, <1>7, <1>8, <1>9, <1>10 DEF d, ok

LEMMA ChargeShape ==
  ASSUME Shape, NEW r \in Receipts, Charge(r) PROVE Shape'
  <1> DEFINE ok == Permitted(rcpt[r].from, rcpt[r].left)
  <1>1. /\ rcpt[r].pc = "lock"
        /\ charged' \in [Msgs -> [Devices -> 0..maxMsgRetryCount]]
        /\ \A q \in Receipts : q # r => rcpt'[q] = rcpt[q]
        /\ rcpt'[r] = [rcpt[r] EXCEPT !.left = ok, !.pc = IF ok = {} THEN "ack" ELSE "inject"]
        /\ TypeReceipts'
    BY ChargedOnce
  <1>2. ok \subseteq rcpt[r].left
    BY DEF Permitted
  <1> HIDE DEF ok
  <1>3. rcpt'[r].from = rcpt[r].from /\ rcpt'[r].chat = rcpt[r].chat /\ rcpt'[r].left = ok
    BY <1>1 DEF Shape, TypeOK, TypeReceipts
  <1>4. ReceiptShape'
    BY <1>1, <1>2, <1>3 DEF Shape, ReceiptShape
  <1>5. tx' = tx
    BY DEF Charge
  <1>6. RelayShape'
    BY <1>1, <1>5 DEF Shape, RelayShape, At
  <1>7. TypeStore' /\ TypeTx'
    BY DEF Charge, store, Shape, TypeOK, TypeStore, TypeTx
  <1>8. TypeCounts'
    BY <1>1 DEF Charge, wire, bounds, Shape, TypeOK, TypeCounts
  <1> QED BY <1>1, <1>4, <1>6, <1>7, <1>8 DEF Shape, TypeOK

\* Inject, Drop, Fetch, FetchFails and Forget.
LEMMA ServeShape ==
  ASSUME Shape, NEW r \in Receipts, Inject(r) \/ Drop(r) \/ Fetch(r) \/ FetchFails(r) \/ Forget(r)
  PROVE  Shape'
  <1>1. PICK pc \in Serving \cup {"ack"} : Goto(r, pc)
    BY DEF Inject, Drop, Fetch, FetchFails, Forget, Serving
  <1>2. rcpt[r].pc \in Serving /\ rcpt[r].pc # "relay"
    BY DEF Inject, Drop, Fetch, FetchFails, Forget, Serving, At
  <1>3. tx' = tx
    BY DEF Inject, Drop, Fetch, FetchFails, Forget
  <1>4. TypeReceipts' /\ ReceiptShape' /\ RelayShape'
    BY <1>1, <1>2, <1>3, Gone
  <1>5. /\ memory' \subseteq Devices /\ skey' = skey /\ real' = real /\ cached' = cached
        /\ removing' = removing
    BY DEF Inject, Drop, Fetch, FetchFails, Forget, store, Shape, TypeOK, TypeStore
  <1>6. \/ sess' = sess \/ \E d \in Devices : sess' = [sess EXCEPT ![d] = Session]
        \/ \E d \in Devices : sess' = [sess EXCEPT ![d] = None]
    BY <1>2 DEF Inject, Drop, Fetch, FetchFails, Forget, store, NewSession, Shape, ReceiptShape
  <1>7. sess' \in [Devices -> (SUBSET Receipts) \cup {None}]
    BY <1>6, SessionType DEF Stored, Shape, TypeOK, TypeStore
  <1>8. TypeStore' /\ TypeTx'
    BY <1>3, <1>5, <1>7 DEF Shape, TypeOK, TypeStore, TypeTx
  <1>9. TypeCounts'
    BY DEF Inject, Drop, Fetch, FetchFails, Forget, wire, bounds, Shape, TypeOK, TypeCounts
  <1> QED BY <1>4, <1>8, <1>9 DEF Shape, TypeOK
LEMMA ResendShape ==
  ASSUME Shape, NEW r \in Receipts, NEW m \in Msgs, Resend(r, m) PROVE Shape'
  <1>1. rcpt[r].pc = "resend" /\ m \in rcpt[r].left /\ rcpt[r].from \in Devices
    BY DEF Resend, At, Shape, ReceiptShape, Serving
  <1>2. TypeStore' /\ TypeCounts'
    BY DEF Resend, store, wire, bounds, Shape, TypeOK, TypeStore, TypeCounts
  <1>3. CASE rcpt' = [rcpt EXCEPT ![r].left = @ \ {m}] /\ tx' = tx
    <2>1. TypeReceipts' /\ TypeTx'
      BY <1>3 DEF Shape, TypeOK, TypeReceipts, TypeTx
    <2>2. /\ \A q \in Receipts : q # r => rcpt'[q] = rcpt[q]
          /\ rcpt'[r] = [rcpt[r] EXCEPT !.left = @ \ {m}]
      BY <1>3 DEF Shape, TypeOK, TypeReceipts
    <2>3. /\ rcpt'[r].from = rcpt[r].from /\ rcpt'[r].chat = rcpt[r].chat
          /\ rcpt'[r].left = rcpt[r].left \ {m} /\ rcpt'[r].pc = rcpt[r].pc
      BY <2>2 DEF Shape, TypeOK, TypeReceipts
    <2>4. ReceiptShape'
      BY <2>2, <2>3 DEF Shape, ReceiptShape
    <2>5. RelayShape'
      BY <1>1, <1>3, <2>2 DEF Shape, RelayShape, At
    <2> QED BY <1>2, <2>1, <2>4, <2>5 DEF Shape, TypeOK
  <1>4. CASE /\ Goto(r, "relay")
             /\ \/ \E u \in BOOLEAN : Begin(r, m, u)
                \/ BeginOne(r, m, rcpt[r].from)
    <2>1. /\ TypeTx' /\ tx'.by = r /\ tx'.msg = m /\ tx'.one \in {None, rcpt[r].from}
          /\ tx'.phase # "none"
      BY <1>1, <1>4, Begun, BegunOne
    <2>2. TypeReceipts' /\ ReceiptShape'
      BY <1>1, <1>4, Gone DEF Serving
    <2>3. rcpt'[r] = [rcpt[r] EXCEPT !.pc = "relay"]
      BY <1>1, <1>4, Gone DEF Serving
    <2>4. rcpt'[r].pc = "relay" /\ rcpt'[r].from = rcpt[r].from /\ rcpt'[r].left = rcpt[r].left
      BY <2>3 DEF Shape, TypeOK, TypeReceipts
    <2>5. RelayShape'
      BY <1>1, <2>1, <2>4 DEF RelayShape, At
    <2> QED BY <1>2, <2>1, <2>2, <2>5 DEF Shape, TypeOK
  <1> QED BY <1>3, <1>4 DEF Resend

LEMMA AckShape ==
  ASSUME Shape, NEW r \in Receipts, Ack(r) PROVE Shape'
  <1>1. rcpt[r].pc \in {"ack", "resend"} /\ tx' = tx
    BY DEF Ack, At
  <1>2. TypeReceipts'
    BY DEF Ack, NoReceipt, Shape, TypeOK, TypeReceipts
  <1>3. (\A q \in Receipts : q # r => rcpt'[q] = rcpt[q]) /\ rcpt'[r].pc = "done"
    BY DEF Ack, NoReceipt, Shape, TypeOK, TypeReceipts
  <1>4. ReceiptShape'
    BY <1>3 DEF Shape, ReceiptShape, Serving
  <1>5. RelayShape'
    BY <1>1, <1>3 DEF Shape, RelayShape, At
  <1>6. TypeStore' /\ TypeTx'
    BY DEF Ack, store, Shape, TypeOK, TypeStore, TypeTx
  <1>7. TypeCounts'
    BY DEF Ack, wire, bounds, Shape, TypeOK, TypeCounts
  <1> QED BY <1>2, <1>4, <1>5, <1>6, <1>7 DEF Shape, TypeOK

LEMMA NoticeShape == ASSUME Shape, Notice PROVE Shape'
  <1>1. /\ tx' = tx /\ rcpt' = rcpt /\ send' = send /\ charged' = charged /\ told' = told
        /\ resent' = resent /\ failures' = failures /\ crashes' = crashes
        /\ memory' = memory /\ skey' = skey /\ (Change \/ changes' = changes)
    BY DEF Notice, DeviceAdded, DeviceRemoved, Removed, DevicesUpdated, IdentityChanged, store, wire,
           bounds, Change
  <1>2. changes' \in 0..MaxChanges
    BY <1>1, OutboundAssumption DEF OutboundAssumption, Change, Shape, TypeOK, TypeCounts
  <1>3. TypeCounts'
    BY <1>1, <1>2 DEF Shape, TypeOK, TypeCounts
  <1>4. TypeTx' /\ TypeReceipts' /\ RelayShape' /\ ReceiptShape'
    BY <1>1 DEF Shape, TypeOK, TypeTx, TypeReceipts, RelayShape, ReceiptShape, At
  <1>5. Primaries \subseteq Devices
    BY OutboundAssumption DEF OutboundAssumption
  <1>6. /\ real' \subseteq Devices /\ cached' \in (SUBSET Devices) \cup {None}
        /\ removing' \in Devices \cup {None}
    BY <1>5 DEF Notice, DeviceAdded, DeviceRemoved, Removed, DevicesUpdated, IdentityChanged,
                Shape, TypeOK, TypeStore
  <1>7. \/ sess' = sess \/ \E d \in Devices : sess' = [sess EXCEPT ![d] = Session]
        \/ \E d \in Devices : sess' = [sess EXCEPT ![d] = None]
    BY <1>5 DEF Notice, DeviceAdded, DeviceRemoved, Removed, DevicesUpdated, IdentityChanged, store, NewSession
  <1>8. sess' \in [Devices -> (SUBSET Receipts) \cup {None}]
    BY <1>7, SessionType DEF Stored, Shape, TypeOK, TypeStore
  <1>9. TypeStore'
    BY <1>1, <1>6, <1>8 DEF Shape, TypeOK, TypeStore
  <1> QED BY <1>3, <1>4, <1>9 DEF Shape, TypeOK

LEMMA CrashShape == ASSUME Shape, Crash PROVE Shape'
  <1>1. tx' = NoTx /\ TypeTx' /\ tx'.phase = "none"
    BY DEF Crash, NoTx, TypeTx
  <1>2. \A r \in Receipts : rcpt'[r] \in {rcpt[r], NoReceipt("done")}
    BY DEF Crash
  <1>3. TypeReceipts'
    BY <1>2 DEF Crash, NoReceipt, Shape, TypeOK, TypeReceipts
  <1>4. ReceiptShape'
    BY <1>2 DEF NoReceipt, Shape, ReceiptShape, Serving
  <1>5. RelayShape'
    BY <1>1 DEF RelayShape, NoTx
  <1>6. TypeStore'
    BY DEF Crash, store, Shape, TypeOK, TypeStore
  <1>7. charged' \in [Msgs -> [Devices -> 0..maxMsgRetryCount]] /\ resent' \in [Msgs -> [Devices -> Nat]]
    BY OutboundAssumption DEF OutboundAssumption, Crash
  <1>8. send' \in [Msgs -> {"idle", "waiting", "done"}]
    BY DEF Crash, Shape, TypeOK, TypeCounts
  <1>9. failures' \in Nat /\ crashes' \in Nat /\ failures' + crashes' <= MaxFaults
    BY OutboundAssumption DEF OutboundAssumption, Crash, Shape, TypeOK, TypeCounts
  <1>10. TypeCounts'
    BY <1>7, <1>8, <1>9 DEF Crash, Shape, TypeOK, TypeCounts
  <1> QED BY <1>1, <1>3, <1>4, <1>5, <1>6, <1>10 DEF Shape, TypeOK

LEMMA StayShape == ASSUME Shape, UNCHANGED vars PROVE Shape'
  <1>1. UNCHANGED <<memory, skey, sess, real, cached, removing, tx, send, rcpt, charged, told, resent,
                    changes, failures, crashes>>
    BY DEF vars, store, wire, bounds
  <1> QED BY <1>1 DEF Shape, TypeOK, TypeStore, TypeTx, TypeReceipts, TypeCounts, RelayShape,
                      ReceiptShape, At

LEMMA NextShape == Shape /\ [Next]_vars => Shape'
  <1> SUFFICES ASSUME Shape, [Next]_vars PROVE Shape'
    OBVIOUS
  <1>1. ASSUME NEW m \in Msgs, Send(m) PROVE Shape'
    BY <1>1, SendShape
  <1>2. CASE RelayStep \/ Fail \/ CommitFails
    BY <1>2, RenewLidsShape, StoreListShape, EncryptShape, SendNodeShape, CommitShape, FailShape, CommitFailsShape
       DEF RelayStep
  <1>3. ASSUME NEW r \in Receipts, Arrive(r) \/ ReceiptStep(r) PROVE Shape'
    BY <1>3, ArriveShape, ChargeShape, ServeShape, ResendShape, AckShape DEF ReceiptStep
  <1>4. CASE Notice \/ Crash
    BY <1>4, NoticeShape, CrashShape
  <1>5. CASE UNCHANGED vars
    BY <1>5, StayShape
  <1> QED BY <1>1, <1>2, <1>3, <1>4, <1>5 DEF Next

LEMMA AlwaysShape == Spec => []Shape
  BY InitShape, NextShape, PTL DEF Spec

\* Every variable keeps its type, and no handler leaves a relay without a
\* message or a receipt without a device: relayMessage and handleReceipt.
THEOREM OutboundMessagesTypeOK == Spec => []TypeOK
  <1>1. Shape => TypeOK
    BY DEF Shape
  <1> QED BY <1>1, AlwaysShape, PTL
-----------------------------------------------------------------------------
(* The budget of resends.                                                  *)

\* One receipt of a chat is served at a time.
Turn ==
  \A q, r \in Receipts :
    rcpt[q].pc \in Serving /\ rcpt[r].pc \in Serving /\ rcpt[q].chat = rcpt[r].chat => q = r

\* The receipt is still to send the message.
Owed(r, m) ==
  /\ rcpt[r].pc \in Serving /\ m \in rcpt[r].left
  /\ ~(tx.phase = "commit" /\ tx.by = r /\ tx.msg = m)

\* No resend without a charge, and a charge for each resend still to come.
Budget ==
  /\ \A m \in Msgs, d \in Devices : resent[m][d] <= charged[m][d]
  /\ \A r \in Receipts, m \in Msgs :
       Owed(r, m) => resent[m][rcpt[r].from] + 1 <= charged[m][rcpt[r].from]

Account == Shape /\ Turn /\ Budget

LEMMA OneServes ==
  ASSUME Shape, Turn, NEW q \in Receipts, NEW r \in Receipts, NEW m \in Msgs,
         rcpt[q].pc \in Serving, rcpt[r].pc \in Serving, m \in rcpt[q].left, m \in rcpt[r].left
  PROVE  q = r
  <1>1. /\ rcpt[q].chat \in Chats /\ m \in rcpt[q].chat
        /\ rcpt[r].chat \in Chats /\ m \in rcpt[r].chat
    BY DEF Shape, ReceiptShape
  <1>2. rcpt[q].chat = rcpt[r].chat
    BY <1>1 DEF Chats
  <1> QED BY <1>2 DEF Turn

\* A step that neither charges nor sends, and starts no service.
Calm ==
  /\ charged' = charged /\ resent' = resent
  /\ \A q \in Receipts : rcpt'[q].pc \in Serving =>
       /\ rcpt[q].pc \in Serving /\ rcpt'[q].chat = rcpt[q].chat
       /\ rcpt'[q].from = rcpt[q].from /\ rcpt'[q].left \subseteq rcpt[q].left
       /\ tx' = tx \/ \A m \in rcpt'[q].left : ~(tx.phase = "commit" /\ tx.by = q /\ tx.msg = m)

LEMMA CalmKeeps == ASSUME Account, Calm PROVE Turn' /\ Budget'
  <1>1. Turn'
    BY DEF Account, Turn, Calm
  <1>2. \A r \in Receipts, m \in Msgs : Owed(r, m)' => Owed(r, m) /\ rcpt'[r].from = rcpt[r].from
    BY DEF Calm, Owed
  <1>3. charged' = charged /\ resent' = resent
    BY DEF Calm
  <1>4. Budget'
    BY <1>2, <1>3 DEF Account, Budget
  <1> QED BY <1>1, <1>4

LEMMA RelayCalm ==
  ASSUME Account, RenewLids \/ StoreList \/ Encrypt \/ Commit \/ Fail \/ CommitFails
  PROVE  Calm
  <1>1. charged' = charged /\ resent' = resent
    BY DEF RenewLids, StoreList, Encrypt, Encrypted, Commit, Fail, CommitFails, wire
  <1>2. CASE RenewLids \/ StoreList \/ Encrypt
    <2>1. rcpt' = rcpt /\ tx.phase # "commit"
      BY <1>2 DEF RenewLids, StoreList, Encrypt, Encrypted
    <2> QED BY <1>1, <2>1 DEF Calm
  <1>3. CASE Commit \/ Fail \/ CommitFails
    <2>1. PICK ok \in BOOLEAN : End(ok) /\ tx.phase # "none" /\ (ok => tx.phase = "commit")
      BY <1>3 DEF Commit, Fail, CommitFails
    <2>2. \A q \in Receipts : q # tx.by => rcpt'[q] = rcpt[q]
      BY <2>1, Ended DEF Account
    <2>3. ASSUME tx.by \in Receipts, rcpt'[tx.by].pc \in Serving
          PROVE  /\ rcpt[tx.by].pc \in Serving /\ rcpt'[tx.by].chat = rcpt[tx.by].chat
                 /\ rcpt'[tx.by].from = rcpt[tx.by].from
                 /\ rcpt'[tx.by].left = rcpt[tx.by].left \ {tx.msg}
      <3>1. rcpt'[tx.by] = [rcpt[tx.by] EXCEPT !.left = @ \ {tx.msg},
                                               !.pc = IF ok THEN "resend" ELSE "ack"]
        BY <2>1, <2>3, Ended DEF Account
      <3>2. rcpt[tx.by].pc = "relay"
        BY <2>1, <2>3 DEF Account, Shape, RelayShape, At
      <3> QED BY <2>3, <3>1, <3>2 DEF Account, Shape, TypeOK, TypeReceipts, Serving
    <2> QED BY <1>1, <2>2, <2>3 DEF Calm
  <1> QED BY <1>2, <1>3

LEMMA ReceiptCalm ==
  ASSUME Account, NEW r \in Receipts,
         \/ Arrive(r) \/ Inject(r) \/ Drop(r) \/ Fetch(r) \/ FetchFails(r) \/ Forget(r)
         \/ \E m \in Msgs : Resend(r, m)
         \/ Ack(r)
  PROVE  Calm
  <1>1. charged' = charged /\ resent' = resent
    BY DEF Arrive, Inject, Drop, Fetch, FetchFails, Forget, Resend, Ack, wire
  <1>2. CASE Arrive(r)
    <2>1. /\ tx' = tx /\ rcpt'[r].pc = "lock"
          /\ \A q \in Receipts : q # r => rcpt'[q] = rcpt[q]
      BY <1>2 DEF Arrive, Account, Shape, TypeOK, TypeReceipts
    <2> QED BY <1>1, <2>1 DEF Calm, Serving
  <1>3. CASE Inject(r) \/ Drop(r) \/ Fetch(r) \/ FetchFails(r) \/ Forget(r)
    <2>1. PICK pc \in Serving \cup {"ack"} : Goto(r, pc)
      BY <1>3 DEF Inject, Drop, Fetch, FetchFails, Forget, Serving
    <2>2. rcpt[r].pc \in Serving /\ rcpt[r].pc # "relay" /\ tx' = tx
      BY <1>3 DEF Inject, Drop, Fetch, FetchFails, Forget, Serving, At
    <2>3. /\ \A q \in Receipts : q # r => rcpt'[q] = rcpt[q]
          /\ rcpt'[r] = [rcpt[r] EXCEPT !.pc = pc]
      BY <2>1, <2>2, Gone DEF Account
    <2>4. rcpt'[r].from = rcpt[r].from /\ rcpt'[r].chat = rcpt[r].chat /\ rcpt'[r].left = rcpt[r].left
      BY <2>3 DEF Account, Shape, TypeOK, TypeReceipts
    <2> QED BY <1>1, <2>2, <2>3, <2>4 DEF Calm
  <1>4. CASE \E m \in Msgs : Resend(r, m)
    <2>1. PICK m \in Msgs : Resend(r, m)
      BY <1>4
    <2>2. rcpt[r].pc = "resend"
      BY <2>1 DEF Resend, At
    <2>3. CASE rcpt' = [rcpt EXCEPT ![r].left = @ \ {m}] /\ tx' = tx
      <3>1. /\ \A q \in Receipts : q # r => rcpt'[q] = rcpt[q]
            /\ rcpt'[r].from = rcpt[r].from /\ rcpt'[r].chat = rcpt[r].chat
            /\ rcpt'[r].left \subseteq rcpt[r].left
        BY <2>3 DEF Account, Shape, TypeOK, TypeReceipts
      <3> QED BY <1>1, <2>2, <2>3, <3>1 DEF Calm, Serving
    <2>4. CASE Free /\ Goto(r, "relay")
      <3>1. /\ \A q \in Receipts : q # r => rcpt'[q] = rcpt[q]
            /\ rcpt'[r] = [rcpt[r] EXCEPT !.pc = "relay"]
        BY <2>2, <2>4, Gone DEF Account, Serving
      <3>2. rcpt'[r].from = rcpt[r].from /\ rcpt'[r].chat = rcpt[r].chat /\ rcpt'[r].left = rcpt[r].left
        BY <3>1 DEF Account, Shape, TypeOK, TypeReceipts
      <3>3. tx.phase # "commit"
        BY <2>4 DEF Free
      <3> QED BY <1>1, <2>2, <3>1, <3>2, <3>3 DEF Calm, Serving
    <2> QED BY <2>1, <2>3, <2>4 DEF Resend
  <1>5. CASE Ack(r)
    <2>1. /\ tx' = tx /\ rcpt'[r].pc = "done"
          /\ \A q \in Receipts : q # r => rcpt'[q] = rcpt[q]
      BY <1>5 DEF Ack, NoReceipt, Account, Shape, TypeOK, TypeReceipts
    <2> QED BY <1>1, <2>1 DEF Calm, Serving
  <1> QED BY <1>2, <1>3, <1>4, <1>5

LEMMA OthersCalm ==
  ASSUME Account, (\E m \in Msgs : Send(m)) \/ Notice \/ UNCHANGED vars
  PROVE  Calm
  <1>1. rcpt' = rcpt /\ charged' = charged /\ resent' = resent
    BY DEF Send, Notice, DeviceAdded, DeviceRemoved, Removed, DevicesUpdated, IdentityChanged, vars, wire
  <1>2. tx' = tx \/ tx.phase # "commit"
    BY DEF Send, Free, Notice, DeviceAdded, DeviceRemoved, Removed, DevicesUpdated, IdentityChanged, vars
  <1> QED BY <1>1, <1>2 DEF Calm

LEMMA ChargeAccounts ==
  ASSUME Account, NEW r \in Receipts, Charge(r) PROVE Turn' /\ Budget'
  <1> DEFINE d  == rcpt[r].from
             ok == Permitted(d, rcpt[r].left)
  <1>1. /\ rcpt[r].pc = "lock" /\ d \in Devices
        /\ \A m \in Msgs, e \in Devices :
             charged'[m][e] = IF m \in ok /\ e = d THEN charged[m][e] + 1 ELSE charged[m][e]
        /\ \A q \in Receipts : q # r => rcpt'[q] = rcpt[q]
        /\ rcpt'[r] = [rcpt[r] EXCEPT !.left = ok, !.pc = IF ok = {} THEN "ack" ELSE "inject"]
    BY ChargedOnce DEF Account
  <1>2. tx' = tx /\ resent' = resent /\ MyTurn(r)
    BY DEF Charge, wire
  <1>3. \A m \in Msgs, e \in Devices : charged[m][e] \in Nat /\ resent[m][e] \in Nat
    BY DEF Account, Shape, TypeOK, TypeCounts
  <1> HIDE DEF ok
  <1>4. rcpt'[r].from = d /\ rcpt'[r].chat = rcpt[r].chat /\ rcpt'[r].left = ok
    BY <1>1 DEF Account, Shape, TypeOK, TypeReceipts
  <1> HIDE DEF d
  <1>5. \A q \in Receipts : q # r /\ rcpt[q].chat = rcpt[r].chat => rcpt[q].pc \notin Serving
    BY <1>2 DEF MyTurn, Serving
  <1>6. Turn'
    <2>1. \A q \in Receipts : rcpt'[q].chat = rcpt[q].chat
      BY <1>1, <1>4
    <2>2. \A q \in Receipts : q # r => rcpt'[q].pc = rcpt[q].pc
      BY <1>1
    <2>3. \A q, p \in Receipts :
            q # r /\ p # r /\ rcpt[q].pc \in Serving /\ rcpt[p].pc \in Serving
            /\ rcpt[q].chat = rcpt[p].chat => q = p
      BY DEF Account, Turn
    <2> QED BY <1>5, <2>1, <2>2, <2>3 DEF Turn
  <1>7. \A m \in Msgs, e \in Devices : resent'[m][e] <= charged'[m][e]
    BY <1>1, <1>2, <1>3 DEF Account, Budget
  <1>8. ASSUME NEW q \in Receipts, NEW m \in Msgs, Owed(q, m)', q # r
        PROVE  resent'[m][rcpt'[q].from] + 1 <= charged'[m][rcpt'[q].from]
    <2>1. Owed(q, m) /\ rcpt'[q].from = rcpt[q].from
      BY <1>1, <1>2, <1>8 DEF Owed
    <2>2. rcpt[q].from \in Devices
      BY <2>1 DEF Owed, Account, Shape, ReceiptShape
    <2>3. resent[m][rcpt[q].from] + 1 <= charged[m][rcpt[q].from]
      BY <2>1 DEF Account, Budget
    <2> QED BY <1>1, <1>2, <1>3, <2>1, <2>2, <2>3
  <1>9. ASSUME NEW m \in Msgs, Owed(r, m)'
        PROVE  resent'[m][rcpt'[r].from] + 1 <= charged'[m][rcpt'[r].from]
    <2>1. m \in ok
      BY <1>4, <1>9 DEF Owed
    <2>2. resent[m][d] <= charged[m][d]
      BY <1>1 DEF Account, Budget
    <2> QED BY <1>1, <1>2, <1>3, <1>4, <2>1, <2>2
  <1> QED BY <1>6, <1>7, <1>8, <1>9 DEF Budget

LEMMA SendNodeAccounts == ASSUME Account, SendNode PROVE Turn' /\ Budget'
  <1>1. rcpt' = rcpt /\ charged' = charged
    BY DEF SendNode
  <1>2. Turn'
    BY <1>1 DEF Account, Turn
  <1>3. tx.phase = "send" /\ tx'.phase = "commit" /\ tx'.by = tx.by /\ tx'.msg = tx.msg
    BY Sent DEF Account
  <1>4. \A r \in Receipts, m \in Msgs : Owed(r, m)' => Owed(r, m) /\ ~(tx.by = r /\ tx.msg = m)
    BY <1>1, <1>3 DEF Owed
  <1>5. CASE tx.by \in Msgs
    <2>1. resent' = resent
      BY <1>5 DEF SendNode
    <2> QED BY <1>1, <1>2, <1>4, <2>1 DEF Account, Budget
  <1>6. CASE tx.by \notin Msgs
    <2> DEFINE r == tx.by
               d == rcpt[r].from
    <2>1. r \in Receipts /\ tx.msg \in Msgs /\ rcpt[r].pc = "relay" /\ tx.msg \in rcpt[r].left
      BY <1>3, <1>6 DEF Account, Shape, RelayShape, At
    <2>2. d \in Devices
      BY <2>1 DEF Account, Shape, ReceiptShape, Serving
    <2>3. \A m \in Msgs, e \in Devices : charged[m][e] \in Nat /\ resent[m][e] \in Nat
      BY DEF Account, Shape, TypeOK, TypeCounts
    <2>4. \A m \in Msgs, e \in Devices :
            resent'[m][e] = IF m = tx.msg /\ e = d THEN resent[m][e] + 1 ELSE resent[m][e]
      <3>1. resent' = [resent EXCEPT ![tx.msg][d] = @ + 1]
        BY <1>6 DEF SendNode
      <3>2. resent \in [Msgs -> [Devices -> Nat]]
        BY DEF Account, Shape, TypeOK, TypeCounts
      <3> QED BY <2>1, <2>2, <3>1, <3>2
    <2>5. resent[tx.msg][d] + 1 <= charged[tx.msg][d]
      BY <1>3, <2>1 DEF Account, Budget, Owed, Serving
    <2>6. \A m \in Msgs, e \in Devices : resent'[m][e] <= charged'[m][e]
      BY <1>1, <2>1, <2>2, <2>3, <2>4, <2>5 DEF Account, Budget
    <2>7. ASSUME NEW q \in Receipts, NEW m \in Msgs, Owed(q, m)'
          PROVE  resent'[m][rcpt'[q].from] + 1 <= charged'[m][rcpt'[q].from]
      <3>1. Owed(q, m) /\ ~(tx.by = q /\ tx.msg = m)
        BY <1>4, <2>7
      <3>2. ~(m = tx.msg)
        BY <2>1, <3>1, OneServes DEF Owed, Account, Serving
      <3>3. rcpt[q].from \in Devices
        BY <3>1 DEF Owed, Account, Shape, ReceiptShape
      <3>4. resent[m][rcpt[q].from] + 1 <= charged[m][rcpt[q].from]
        BY <3>1 DEF Account, Budget
      <3> QED BY <1>1, <2>4, <3>2, <3>3, <3>4
    <2> QED BY <1>2, <2>6, <2>7 DEF Budget
  <1> QED BY <1>5, <1>6

LEMMA CrashAccounts == ASSUME Account, Crash PROVE Turn' /\ Budget'
  <1>1. \A r \in Receipts : rcpt'[r].pc \notin Serving
    BY DEF Crash, At, NoReceipt, Serving
  <1>2. \A m \in Msgs, d \in Devices : resent'[m][d] = 0 /\ charged'[m][d] = 0
    BY DEF Crash
  <1> QED BY <1>1, <1>2 DEF Turn, Budget, Owed

LEMMA InitAccount == Init => Account
  <1> SUFFICES ASSUME Init PROVE Turn /\ Budget
    BY InitShape DEF Account
  <1>1. \A r \in Receipts : rcpt[r].pc \notin Serving
    BY DEF Init, NoReceipt, Serving
  <1>2. \A m \in Msgs, d \in Devices : resent[m][d] = 0 /\ charged[m][d] = 0
    BY DEF Init
  <1> QED BY <1>1, <1>2 DEF Turn, Budget, Owed

LEMMA NextAccount == Account /\ [Next]_vars => Account'
  <1> SUFFICES ASSUME Account, [Next]_vars PROVE Turn' /\ Budget'
    BY NextShape DEF Account
  <1>1. CASE Calm
    BY <1>1, CalmKeeps
  <1>2. CASE RenewLids \/ StoreList \/ Encrypt \/ Commit \/ Fail \/ CommitFails
    BY <1>1, <1>2, RelayCalm
  <1>3. CASE SendNode
    BY <1>3, SendNodeAccounts
  <1>4. ASSUME NEW r \in Receipts, Charge(r) PROVE Turn' /\ Budget'
    BY <1>4, ChargeAccounts
  <1>5. ASSUME NEW r \in Receipts,
               \/ Arrive(r) \/ Inject(r) \/ Drop(r) \/ Fetch(r) \/ FetchFails(r) \/ Forget(r)
               \/ \E m \in Msgs : Resend(r, m)
               \/ Ack(r)
        PROVE  Turn' /\ Budget'
    BY <1>1, <1>5, ReceiptCalm
  <1>6. CASE (\E m \in Msgs : Send(m)) \/ Notice \/ UNCHANGED vars
    BY <1>1, <1>6, OthersCalm
  <1>7. CASE Crash
    BY <1>7, CrashAccounts
  <1> QED BY <1>2, <1>3, <1>4, <1>5, <1>6, <1>7 DEF Next, RelayStep, ReceiptStep

\* A device gets a message again at most maxMsgRetryCount times, whatever the
\* receipts list and however they meet: chargeSendMessageAgainCount charges
\* what sendMessagesAgain then sends, one receipt of a chat at a time.
THEOREM OutboundMessagesResendBudget == Spec => []ResendBudget
  <1>1. Account => ResendBudget
    <2> SUFFICES ASSUME Account, NEW m \in Msgs, NEW d \in Devices
                 PROVE  resent[m][d] <= maxMsgRetryCount
      BY DEF ResendBudget
    <2>1. charged[m][d] \in 0..maxMsgRetryCount /\ resent[m][d] \in Nat
      BY DEF Account, Shape, TypeOK, TypeCounts
    <2>2. resent[m][d] <= charged[m][d]
      BY DEF Account, Budget
    <2> QED BY <2>1, <2>2, OutboundAssumption DEF OutboundAssumption
  <1> QED BY <1>1, InitAccount, NextAccount, PTL DEF Spec
-----------------------------------------------------------------------------
(* A resend uses a new session.                                            *)

\* The receipts that have made a session, or found it made, and have not ended.
Late(r) == rcpt[r].pc \in {"forget", "resend", "relay"}
Loaded == tx.phase \in {"send", "commit"}

\* No session older than such a receipt is in the store, or staged.
Fresh ==
  /\ \A r \in Receipts : Late(r) =>
       /\ sess[rcpt[r].from] = None \/ r \in sess[rcpt[r].from]
       /\ tx.sess[rcpt[r].from] = None \/ r \in tx.sess[rcpt[r].from]
       /\ Loaded /\ rcpt[r].from \in tx.need => r \in tx.sess[rcpt[r].from]
  /\ Loaded /\ tx.one # None => tx.need = {tx.one}

LEMMA LateNames ==
  ASSUME Shape, NEW r \in Receipts, Late(r) PROVE rcpt[r].from \in Devices /\ r \in Session
  BY DEF Late, Shape, ReceiptShape, Serving, Session

\* A step that makes no receipt late and loads no session.
Tame ==
  /\ \A q \in Receipts : Late(q)' => Late(q) /\ rcpt'[q].from = rcpt[q].from
  /\ \A d \in Devices : sess'[d] \in {sess[d], None, Session}
  /\ tx' = tx \/ tx'.phase \notin {"send", "commit"}
  /\ \A d \in Devices : tx'.sess[d] \in {tx.sess[d], None, Session}

LEMMA TameKeeps == ASSUME Shape, Fresh, Tame PROVE Fresh'
  <1>1. ASSUME NEW r \in Receipts, Late(r)'
        PROVE  /\ sess'[rcpt'[r].from] = None \/ r \in sess'[rcpt'[r].from]
               /\ tx'.sess[rcpt'[r].from] = None \/ r \in tx'.sess[rcpt'[r].from]
               /\ Loaded' /\ rcpt'[r].from \in tx'.need => r \in tx'.sess[rcpt'[r].from]
    <2>1. Late(r) /\ rcpt'[r].from = rcpt[r].from
      BY <1>1 DEF Tame
    <2>2. rcpt[r].from \in Devices /\ r \in Session
      BY <2>1, LateNames
    <2>3. sess[rcpt[r].from] = None \/ r \in sess[rcpt[r].from]
      BY <2>1 DEF Fresh
    <2>4. sess'[rcpt'[r].from] = None \/ r \in sess'[rcpt'[r].from]
      BY <2>1, <2>2, <2>3 DEF Tame
    <2>5. Loaded' => tx' = tx
      BY DEF Tame, Loaded
    <2>7. tx'.sess[rcpt'[r].from] = None \/ r \in tx'.sess[rcpt'[r].from]
      BY <2>1, <2>2 DEF Tame, Fresh
    <2>6. Loaded' /\ rcpt'[r].from \in tx'.need => r \in tx'.sess[rcpt'[r].from]
      BY <2>1, <2>5 DEF Fresh, Loaded
    <2> QED BY <2>4, <2>6, <2>7
  <1>2. Loaded' /\ tx'.one # None => tx'.need = {tx'.one}
    BY DEF Tame, Fresh, Loaded
  <1> QED BY <1>1, <1>2 DEF Fresh

LEMMA RelayTame ==
  ASSUME Shape, RenewLids \/ StoreList \/ Fail \/ (\E m \in Msgs : Send(m)) \/ Crash PROVE Tame
  <1>1. sess' = sess
    BY DEF RenewLids, StoreList, Fail, Send, Crash, store
  <1>2. CASE StoreList
    <2>1. rcpt' = rcpt /\ tx'.phase = "encrypt" /\ tx'.sess = tx.sess
      BY <1>2 DEF StoreList, Shape, TypeOK, TypeTx
    <2> QED BY <1>1, <2>1 DEF Tame, Late
  <1>6. CASE RenewLids
    <2>1. rcpt' = rcpt /\ tx'.phase = "listed" /\ \A d \in Devices : tx'.sess[d] \in {None, Session}
      BY <1>6, Renewed DEF RenewLids
    <2> QED BY <1>1, <2>1 DEF Tame, Late
  <1>3. CASE \E m \in Msgs : Send(m)
    <2>1. /\ rcpt' = rcpt /\ tx'.phase \in {"listed", "encrypt"}
          /\ \A d \in Devices : tx'.sess[d] = None
      BY <1>3, Begun DEF Send
    <2> QED BY <1>1, <2>1 DEF Tame, Late
  <1>4. CASE Fail
    <2>1. tx.phase # "none" /\ End(FALSE)
      BY <1>4 DEF Fail
    <2>2. /\ tx'.phase = "none" /\ tx' = NoTx
          /\ \A q \in Receipts : q # tx.by => rcpt'[q] = rcpt[q]
          /\ tx.by \in Receipts =>
               rcpt'[tx.by] = [rcpt[tx.by] EXCEPT !.left = @ \ {tx.msg}, !.pc = "ack"]
      BY <2>1, Ended
    <2>3. tx.by \in Receipts => rcpt'[tx.by].pc = "ack"
      BY <2>2 DEF Shape, TypeOK, TypeReceipts
    <2> QED BY <1>1, <2>2, <2>3 DEF Tame, Late, NoTx
  <1>5. CASE Crash
    <2>1. /\ tx'.phase = "none" /\ \A q \in Receipts : ~Late(q)'
          /\ \A d \in Devices : tx'.sess[d] = None
      BY <1>5 DEF Crash, NoTx, NoReceipt, At, Late
    <2> QED BY <1>1, <2>1 DEF Tame
  <1> QED BY <1>2, <1>3, <1>4, <1>5, <1>6

LEMMA ReceiptTame ==
  ASSUME Shape, NEW r \in Receipts,
         \/ Arrive(r) \/ Charge(r) \/ Drop(r) \/ FetchFails(r) \/ Forget(r)
         \/ \E m \in Msgs : Resend(r, m)
         \/ Ack(r)
  PROVE  Tame
  <1>1. CASE Arrive(r) \/ Ack(r)
    <2>1. /\ tx' = tx /\ sess' = sess /\ rcpt'[r].pc \in {"lock", "done"}
          /\ \A q \in Receipts : q # r => rcpt'[q] = rcpt[q]
      BY <1>1 DEF Arrive, Ack, NoReceipt, store, Shape, TypeOK, TypeReceipts
    <2> QED BY <2>1 DEF Tame, Late
  <1>2. CASE Charge(r)
    <2> DEFINE ok == Permitted(rcpt[r].from, rcpt[r].left)
    <2>1. /\ \A q \in Receipts : q # r => rcpt'[q] = rcpt[q]
          /\ rcpt'[r] = [rcpt[r] EXCEPT !.left = ok, !.pc = IF ok = {} THEN "ack" ELSE "inject"]
      BY <1>2, ChargedOnce
    <2>2. rcpt'[r].pc \in {"ack", "inject"}
      BY <2>1 DEF Shape, TypeOK, TypeReceipts
    <2>3. tx' = tx /\ sess' = sess
      BY <1>2 DEF Charge, store
    <2> QED BY <2>1, <2>2, <2>3 DEF Tame, Late
  <1>3. CASE Drop(r) \/ FetchFails(r)
    <2>1. /\ tx' = tx /\ rcpt[r].pc \in {"inject", "fetch"}
          /\ Goto(r, "fetch") \/ Goto(r, "ack")
      BY <1>3 DEF Drop, FetchFails, At
    <2>2. (\A q \in Receipts : q # r => rcpt'[q] = rcpt[q]) /\ rcpt'[r].pc \in {"fetch", "ack"}
      BY <2>1 DEF Goto, Shape, TypeOK, TypeReceipts
    <2>3. \A d \in Devices : sess'[d] \in {sess[d], None}
      BY <1>3 DEF Drop, FetchFails, store, Shape, TypeOK, TypeStore
    <2> QED BY <2>1, <2>2, <2>3 DEF Tame, Late
  <1>4. CASE Forget(r) \/ \E m \in Msgs : Resend(r, m)
    <2>1. sess' = sess /\ rcpt[r].pc \in {"forget", "resend"}
      BY <1>4 DEF Forget, Resend, store, At
    <2>2. (\A q \in Receipts : q # r => rcpt'[q] = rcpt[q]) /\ rcpt'[r].from = rcpt[r].from
      BY <1>4 DEF Forget, Resend, Goto, Shape, TypeOK, TypeReceipts
    <2>3. \/ tx' = tx
          \/ tx'.phase \in {"listed", "encrypt"} /\ \A d \in Devices : tx'.sess[d] = None
      <3>1. CASE Forget(r)
        BY <3>1 DEF Forget
      <3>2. CASE \E m \in Msgs : Resend(r, m)
        <4>1. PICK m \in Msgs : Resend(r, m)
          BY <3>2
        <4>2. rcpt[r].from \in Devices
          BY <4>1 DEF Resend, At, Shape, ReceiptShape, Serving
        <4> QED BY <4>1, <4>2, Begun, BegunOne DEF Resend
      <3> QED BY <1>4, <3>1, <3>2
    <2> QED BY <2>1, <2>2, <2>3 DEF Tame, Late
  <1> QED BY <1>1, <1>2, <1>3, <1>4

LEMMA NoticeTame == ASSUME Shape, Notice \/ UNCHANGED vars PROVE Tame
  <1>1. tx' = tx /\ rcpt' = rcpt
    BY DEF Notice, DeviceAdded, DeviceRemoved, Removed, DevicesUpdated, IdentityChanged, vars
  <1>2. \/ sess' = sess \/ \E d \in Devices : sess' = [sess EXCEPT ![d] = Session]
        \/ \E d \in Devices : sess' = [sess EXCEPT ![d] = None]
    BY OutboundAssumption DEF OutboundAssumption, Notice, DeviceAdded, DeviceRemoved, Removed, DevicesUpdated,
       IdentityChanged, store, NewSession, vars
  <1>3. \A d \in Devices : sess'[d] \in {sess[d], None, Session}
    BY <1>2 DEF Shape, TypeOK, TypeStore
  <1> QED BY <1>1, <1>3 DEF Tame, Late

\* Inject and Fetch make a session while no relay runs.
LEMMA NewSessionFresh ==
  ASSUME Shape, Fresh, NEW r \in Receipts, Inject(r) \/ Fetch(r) PROVE Fresh'
  <1>1. /\ Free /\ tx' = tx /\ rcpt[r].pc \in {"inject", "fetch"}
        /\ NewSession(rcpt[r].from) /\ Goto(r, "forget")
    BY DEF Inject, Fetch, At
  <1>2. rcpt[r].from \in Devices /\ r \in Session
    BY <1>1 DEF Shape, ReceiptShape, Serving, Session
  <1>3. (\A q \in Receipts : q # r => rcpt'[q] = rcpt[q]) /\ rcpt'[r].from = rcpt[r].from
    BY <1>1 DEF Goto, Shape, TypeOK, TypeReceipts
  <1>4. ~Loaded'
    BY <1>1 DEF Free, Loaded
  <1>5. \A d \in Devices : sess'[d] = IF d = rcpt[r].from THEN Session ELSE sess[d]
    BY <1>1, <1>2 DEF NewSession, Shape, TypeOK, TypeStore
  <1>6. ASSUME NEW q \in Receipts, Late(q)'
        PROVE  /\ sess'[rcpt'[q].from] = None \/ q \in sess'[rcpt'[q].from]
               /\ tx'.sess[rcpt'[q].from] = None
    <2>0. rcpt'[q].from \in Devices
      BY <1>2, <1>3, <1>6, LateNames DEF Late
    <2>3. tx'.sess[rcpt'[q].from] = None
      BY <1>1, <2>0 DEF Free, Shape, RelayShape
    <2>1. CASE q = r
      BY <1>2, <1>3, <1>5, <2>1, <2>3
    <2>2. CASE q # r
      <3>1. Late(q) /\ rcpt'[q].from = rcpt[q].from
        BY <1>3, <1>6, <2>2 DEF Late
      <3> QED BY <1>5, <2>3, <3>1, LateNames DEF Fresh
    <2> QED BY <2>1, <2>2
  <1> QED BY <1>4, <1>6 DEF Fresh

LEMMA EncryptFresh == ASSUME Shape, Fresh, Encrypt PROVE Fresh'
  <1>1. /\ tx'.one = tx.one /\ tx'.need = Need
        /\ \A d \in Devices : tx'.sess[d] = Loads(d)
    BY EncryptedTx DEF Encrypt
  <1>2. rcpt' = rcpt /\ sess' = sess
    BY DEF Encrypt, Encrypted
  <1>3. tx'.one # None => tx'.need = {tx'.one}
    BY <1>1 DEF Need
  <1>4. ASSUME NEW r \in Receipts, Late(r)
        PROVE  /\ tx'.sess[rcpt[r].from] = None \/ r \in tx'.sess[rcpt[r].from]
               /\ rcpt[r].from \in Need => r \in tx'.sess[rcpt[r].from]
    <2>1. /\ r \in Session /\ (sess[rcpt[r].from] = None \/ r \in sess[rcpt[r].from])
          /\ rcpt[r].from \in Devices
          /\ tx.sess[rcpt[r].from] = None \/ r \in tx.sess[rcpt[r].from]
      BY <1>4, LateNames DEF Fresh
    <2> QED BY <1>1, <2>1 DEF Loads
  <1> QED BY <1>1, <1>2, <1>3, <1>4 DEF Fresh, Late

LEMMA SendNodeFresh == ASSUME Shape, Fresh, SendNode PROVE Fresh'
  <1>1. /\ tx.phase = "send" /\ tx'.one = tx.one /\ tx'.need = tx.need /\ tx'.sess = tx.sess
    BY Sent
  <1>2. rcpt' = rcpt /\ sess' = sess
    BY DEF SendNode, store
  <1> QED BY <1>1, <1>2 DEF Fresh, Late, Loaded

LEMMA CommitFresh ==
  ASSUME Shape, Fresh, tx.phase = "commit", NEW ks \in SUBSET Keys, Written(ks),
         NEW ok \in BOOLEAN, End(ok)
  PROVE  Fresh'
  <1>1. /\ tx'.phase = "none" /\ \A q \in Receipts : q # tx.by => rcpt'[q] = rcpt[q]
        /\ tx.by \in Receipts =>
             rcpt'[tx.by] = [rcpt[tx.by] EXCEPT !.left = @ \ {tx.msg},
                                                !.pc = IF ok THEN "resend" ELSE "ack"]
    BY Ended
  <1>2. tx.by \in Receipts => rcpt'[tx.by].from = rcpt[tx.by].from /\ rcpt[tx.by].pc = "relay"
    BY <1>1 DEF Shape, TypeOK, TypeReceipts, RelayShape, At
  <1>3. \A q \in Receipts : Late(q)' => Late(q) /\ rcpt'[q].from = rcpt[q].from
    BY <1>1, <1>2 DEF Late
  <1>4. \A d \in Devices : sess'[d] = sess[d] \/ (sess'[d] = tx.sess[d] /\ tx.sess[d] # None)
    BY DEF Written
  <1>5. ASSUME NEW q \in Receipts, Late(q)'
        PROVE  sess'[rcpt'[q].from] = None \/ q \in sess'[rcpt'[q].from]
    <2>1. Late(q) /\ rcpt'[q].from = rcpt[q].from /\ rcpt[q].from \in Devices
      BY <1>3, <1>5, LateNames
    <2>2. /\ sess[rcpt[q].from] = None \/ q \in sess[rcpt[q].from]
          /\ tx.sess[rcpt[q].from] = None \/ q \in tx.sess[rcpt[q].from]
      BY <2>1 DEF Fresh
    <2> QED BY <1>4, <2>1, <2>2
  <1>6. ~Loaded' /\ tx' = NoTx
    BY <1>1, Ended DEF Loaded
  <1>7. ASSUME NEW q \in Receipts, Late(q)' PROVE tx'.sess[rcpt'[q].from] = None
    BY <1>3, <1>6, <1>7, LateNames DEF NoTx
  <1> QED BY <1>5, <1>6, <1>7 DEF Fresh

LEMMA InitFresh == Init => Fresh
  BY DEF Init, NoTx, NoReceipt, Fresh, Late, Loaded

LEMMA NextFresh == Shape /\ Fresh /\ [Next]_vars => Fresh'
  <1> SUFFICES ASSUME Shape, Fresh, [Next]_vars PROVE Fresh'
    OBVIOUS
  <1>1. CASE RenewLids \/ StoreList \/ Fail \/ (\E m \in Msgs : Send(m)) \/ Crash
    BY <1>1, RelayTame, TameKeeps
  <1>2. CASE Encrypt \/ SendNode
    BY <1>2, EncryptFresh, SendNodeFresh
  <1>3. CASE Commit
    <2>1. tx.phase = "commit" /\ Written(Keys) /\ End(TRUE)
      BY <1>3 DEF Commit
    <2> QED BY <2>1, CommitFresh
  <1>4. CASE CommitFails
    <2>1. PICK ks \in SUBSET Keys : Written(ks)
      BY <1>4 DEF CommitFails
    <2>2. tx.phase = "commit" /\ End(FALSE)
      BY <1>4 DEF CommitFails
    <2> QED BY <2>1, <2>2, CommitFresh
  <1>5. ASSUME NEW r \in Receipts, Inject(r) \/ Fetch(r) PROVE Fresh'
    BY <1>5, NewSessionFresh
  <1>6. ASSUME NEW r \in Receipts,
               \/ Arrive(r) \/ Charge(r) \/ Drop(r) \/ FetchFails(r) \/ Forget(r)
               \/ \E m \in Msgs : Resend(r, m)
               \/ Ack(r)
        PROVE  Fresh'
    BY <1>6, ReceiptTame, TameKeeps
  <1>7. CASE Notice \/ UNCHANGED vars
    BY <1>7, NoticeTame, TameKeeps
  <1> QED BY <1>1, <1>2, <1>3, <1>4, <1>5, <1>6, <1>7 DEF Next, RelayStep, ReceiptStep

\* A resend to one device never uses a session older than the receipt it
\* answers, although relays in flight store the sessions they have loaded:
\* sendMessagesAgain and injectE2ESession against relayMessage.
THEOREM OutboundMessagesFreshSession == Spec => []FreshSession
  <1>1. Shape /\ Fresh => FreshSession
    <2> SUFFICES ASSUME Shape, Fresh, Loaded, tx.by \in Receipts, tx.one # None
                 PROVE  tx.by \in tx.sess[tx.one]
      BY DEF FreshSession, Loaded
    <2>1. rcpt[tx.by].pc = "relay" /\ tx.one = rcpt[tx.by].from
      BY DEF Shape, RelayShape, Loaded, At
    <2>2. tx.one \in tx.need
      BY DEF Fresh
    <2> QED BY <2>1, <2>2 DEF Fresh, Late
  <1>2. Init => Shape /\ Fresh
    BY InitShape, InitFresh
  <1>3. (Shape /\ Fresh) /\ [Next]_vars => (Shape /\ Fresh)'
    BY NextShape, NextFresh
  <1> QED BY <1>1, <1>2, <1>3, PTL DEF Spec
-----------------------------------------------------------------------------
(* A stanza for everybody reaches everybody.                               *)

\* The memory names devices that were sent the sender key there is.
Remembered(memo, key) == memo \subseteq told /\ (memo # {} => key)

\* The copy of a relay for everybody, up to its send and from there on.
Copied ==
  /\ tx.phase \in {"listed", "encrypt", "send"} /\ tx.one = None =>
       IF Group(tx.msg) THEN Remembered(tx.memo, skey) ELSE tx.memo = {}
  /\ tx.phase = "send" => tx.newKey = NewKey
  /\ tx.phase = "send" /\ tx.one = None => tx.need = tx.list \ tx.memo
  /\ tx.phase = "commit" /\ tx.one = None =>
       /\ \A d \in tx.list : d \in tx.need \/ (Group(tx.msg) /\ d \in told)
       /\ Group(tx.msg) => Remembered(tx.memo, skey \/ tx.newKey)

Fan == failures = 0 => Remembered(memory, skey) /\ Copied

\* A step that leaves the copy, the key and the wire alone.
LEMMA StillFan ==
  ASSUME Fan, failures' = failures \/ failures' # 0, tx' = tx \/ tx'.phase = "none",
         skey' = skey, told' = told, memory' \in {memory, {}}
  PROVE  Fan'
  <1> SUFFICES ASSUME failures' = 0 PROVE Remembered(memory, skey)' /\ Copied'
    BY DEF Fan
  <1>1. Remembered(memory, skey) /\ Copied
    BY DEF Fan
  <1>2. Remembered(memory, skey)'
    BY <1>1 DEF Remembered
  <1>3. CASE tx' = tx
    BY <1>1, <1>3 DEF Copied, Remembered, NewKey, Group
  <1>4. CASE tx'.phase = "none"
    BY <1>2, <1>4 DEF Copied
  <1> QED BY <1>2, <1>3, <1>4

\* A relay begins.
LEMMA BeginFan ==
  ASSUME Shape, Fan, NEW by \in Msgs \cup Receipts, NEW m \in Msgs,
         \/ \E u \in BOOLEAN : Begin(by, m, u)
         \/ \E d \in Devices : BeginOne(by, m, d),
         failures' = failures, skey' = skey, told' = told, memory' = memory
  PROVE  Fan'
  <1> SUFFICES ASSUME failures = 0 PROVE Remembered(memory, skey)' /\ Copied'
    BY DEF Fan
  <1>1. Remembered(memory, skey)'
    BY DEF Fan, Remembered
  <1>2. CASE \E u \in BOOLEAN : Begin(by, m, u)
    <2>1. /\ tx'.phase \in {"listed", "encrypt"} /\ tx'.msg = m
          /\ tx'.memo = IF Group(m) THEN memory ELSE {}
      BY <1>2, Begun
    <2> QED BY <1>1, <2>1 DEF Copied, Remembered
  <1>3. CASE \E d \in Devices : BeginOne(by, m, d)
    <2>1. tx'.phase = "encrypt" /\ tx'.one # None
      BY <1>3, BegunOne, Apart
    <2> QED BY <1>1, <2>1 DEF Copied
  <1> QED BY <1>1, <1>2, <1>3

LEMMA RenewLidsFan == ASSUME Shape, Fan, RenewLids PROVE Fan'
  <1>1. failures' = failures /\ skey' = skey /\ told' = told /\ memory' = memory
    BY DEF RenewLids, store, wire, bounds
  <1>2. /\ tx.phase = "listed" /\ tx'.phase = "listed" /\ tx'.msg = tx.msg /\ tx'.one = tx.one
        /\ tx'.memo = tx.memo
    BY Renewed
  <1> QED BY <1>1, <1>2 DEF Fan, Copied, Remembered

LEMMA StoreListFan == ASSUME Shape, Fan, StoreList PROVE Fan'
  <1>1. /\ tx.phase = "listed" /\ tx' = [tx EXCEPT !.phase = "encrypt"]
        /\ failures' = failures /\ skey' = skey /\ told' = told /\ memory' = memory
    BY DEF StoreList, store, wire, bounds
  <1>2. tx'.phase = "encrypt" /\ tx'.msg = tx.msg /\ tx'.one = tx.one /\ tx'.memo = tx.memo
    BY <1>1 DEF Shape, TypeOK, TypeTx
  <1> QED BY <1>1, <1>2 DEF Fan, Copied, Remembered

LEMMA EncryptFan == ASSUME Shape, Fan, Encrypt PROVE Fan'
  <1>1. /\ tx.phase = "encrypt" /\ tx'.phase = "send" /\ tx'.msg = tx.msg /\ tx'.one = tx.one
        /\ tx'.list = tx.list /\ tx'.memo = tx.memo /\ tx'.need = Need /\ tx'.newKey = NewKey
    BY EncryptedTx DEF Encrypt
  <1>2. failures' = failures /\ skey' = skey /\ told' = told /\ memory' = memory
    BY DEF Encrypt, Encrypted, wire, bounds
  <1>3. NewKey' = NewKey
    BY <1>1, <1>2 DEF NewKey
  <1> SUFFICES ASSUME failures = 0 PROVE Remembered(memory, skey)' /\ Copied'
    BY <1>2 DEF Fan
  <1>4. Remembered(memory, skey) /\ Copied
    BY DEF Fan
  <1>5. tx'.one = None => tx'.need = tx'.list \ tx'.memo
    BY <1>1 DEF Need
  <1>6. tx'.one = None =>
          IF Group(tx'.msg) THEN Remembered(tx'.memo, skey') ELSE tx'.memo = {}
    BY <1>1, <1>2, <1>4 DEF Copied, Remembered
  <1>7. Remembered(memory, skey)'
    BY <1>2, <1>4 DEF Remembered
  <1>8. tx'.newKey = NewKey'
    BY <1>1, <1>3
  <1> QED BY <1>1, <1>2, <1>5, <1>6, <1>7, <1>8 DEF Copied, Remembered

LEMMA SendNodeFan == ASSUME Shape, Fan, SendNode PROVE Fan'
  <1>1. /\ tx.phase = "send" /\ tx'.phase = "commit" /\ tx'.msg = tx.msg /\ tx'.one = tx.one
        /\ tx'.list = tx.list /\ tx'.need = tx.need /\ tx'.newKey = tx.newKey
        /\ tx'.memo = tx.memo \cup tx.need
    BY Sent
  <1>2. failures' = failures /\ skey' = skey /\ memory' = memory
    BY DEF SendNode, store, bounds
  <1> SUFFICES ASSUME failures = 0 PROVE Remembered(memory, skey)' /\ Copied'
    BY <1>2 DEF Fan
  <1>3. Remembered(memory, skey) /\ Copied
    BY DEF Fan
  <1>4. tx.newKey = NewKey
    BY <1>1, <1>3 DEF Copied
  <1>5. tx.newKey => memory = {} /\ Group(tx.msg) /\ tx.one = None /\ ~skey
    BY <1>3, <1>4 DEF NewKey, Remembered
  <1>6. told' = IF tx.newKey THEN tx.need
                ELSE IF Group(tx.msg) /\ skey THEN told \cup tx.need ELSE told
    BY DEF SendNode
  <1>7. Remembered(memory, skey)'
    BY <1>2, <1>3, <1>5, <1>6 DEF Remembered
  <1>8. CASE tx.one # None
    BY <1>1, <1>7, <1>8 DEF Copied
  <1>9. CASE tx.one = None /\ ~Group(tx.msg)
    <2>1. tx.memo = {} /\ tx.need = tx.list \ tx.memo
      BY <1>1, <1>3, <1>9 DEF Copied
    <2> QED BY <1>1, <1>7, <1>9, <2>1 DEF Copied
  <1>10. CASE tx.one = None /\ Group(tx.msg)
    <2>1. Remembered(tx.memo, skey) /\ tx.need = tx.list \ tx.memo
      BY <1>1, <1>3, <1>10 DEF Copied
    <2>2. skey = ~tx.newKey
      BY <1>4, <1>10 DEF NewKey, Shape, TypeOK, TypeStore
    <2>3. tx.memo \cup tx.need \subseteq told'
      BY <1>6, <1>10, <2>1, <2>2 DEF Remembered
    <2>4. \A d \in tx.list : d \in told'
      BY <2>1, <2>3
    <2>5. skey' \/ tx'.newKey
      BY <1>1, <1>2, <2>2
    <2> QED BY <1>1, <1>7, <1>10, <2>3, <2>4, <2>5 DEF Copied, Remembered
  <1> QED BY <1>8, <1>9, <1>10

LEMMA CommitFan == ASSUME Shape, Fan, Commit PROVE Fan'
  <1>1. /\ tx.phase = "commit" /\ Written(Keys) /\ End(TRUE)
        /\ failures' = failures /\ told' = told
    BY DEF Commit, wire, bounds
  <1>2. tx'.phase = "none"
    BY <1>1, Ended
  <1> SUFFICES ASSUME failures = 0 PROVE Remembered(memory, skey)' /\ Copied'
    BY <1>1 DEF Fan
  <1>3. Remembered(memory, skey) /\ Copied
    BY DEF Fan
  <1>4. /\ memory' = IF Group(tx.msg) /\ tx.one = None THEN tx.memo ELSE memory
        /\ skey' = (skey \/ tx.newKey)
    BY <1>1 DEF Written, Keys
  <1>5. Remembered(memory, skey)'
    BY <1>1, <1>3, <1>4 DEF Copied, Remembered
  <1> QED BY <1>2, <1>5 DEF Copied

LEMMA InitFan == Init => Fan
  BY DEF Init, NoTx, Fan, Copied, Remembered

LEMMA NextFan == Shape /\ Fan /\ [Next]_vars => Fan'
  <1> SUFFICES ASSUME Shape, Fan, [Next]_vars PROVE Fan'
    OBVIOUS
  <1>1. ASSUME NEW m \in Msgs, Send(m) PROVE Fan'
    BY <1>1, BeginFan DEF Send, store, wire, bounds
  <1>2. CASE RenewLids \/ StoreList \/ Encrypt \/ SendNode \/ Commit
    BY <1>2, RenewLidsFan, StoreListFan, EncryptFan, SendNodeFan, CommitFan
  <1>3. CASE Fail
    <2>1. tx.phase # "none" /\ End(FALSE)
      BY <1>3 DEF Fail
    <2>2. tx'.phase = "none"
      BY <2>1, Ended
    <2> QED BY <1>3, <2>2, StillFan DEF Fail, store, wire, bounds
  <1>4. CASE CommitFails
    <2>1. failures' # 0
      BY <1>4 DEF CommitFails, Shape, TypeOK, TypeCounts
    <2> QED BY <2>1 DEF Fan
  <1>5. ASSUME NEW r \in Receipts,
               \/ Arrive(r) \/ Charge(r) \/ Inject(r) \/ Drop(r) \/ Fetch(r) \/ FetchFails(r)
               \/ Forget(r) \/ Ack(r)
        PROVE  Fan'
    <2>1. /\ failures' = failures /\ tx' = tx /\ skey' = skey /\ told' = told
          /\ memory' \in {memory, {}}
      BY <1>5 DEF Arrive, Charge, Inject, Drop, Fetch, FetchFails, Forget, Ack, store, wire, bounds
    <2> QED BY <2>1, StillFan
  <1>6. ASSUME NEW r \in Receipts, NEW m \in Msgs, Resend(r, m) PROVE Fan'
    <2>1. failures' = failures /\ skey' = skey /\ told' = told /\ memory' = memory
      BY <1>6 DEF Resend, store, wire, bounds
    <2>2. rcpt[r].from \in Devices
      BY <1>6 DEF Resend, At, Shape, ReceiptShape, Serving
    <2>3. CASE tx' = tx
      BY <2>1, <2>3, StillFan
    <2>4. CASE tx' # tx
      <3>1. (\E u \in BOOLEAN : Begin(r, m, u)) \/ BeginOne(r, m, rcpt[r].from)
        BY <1>6, <2>4 DEF Resend
      <3> QED BY <2>1, <2>2, <3>1, BeginFan
    <2> QED BY <2>3, <2>4
  <1>7. CASE Notice \/ UNCHANGED vars
    <2>1. /\ failures' = failures /\ tx' = tx /\ skey' = skey /\ told' = told /\ memory' = memory
      BY <1>7 DEF Notice, DeviceAdded, DeviceRemoved, Removed, DevicesUpdated, IdentityChanged, store, wire,
                  bounds, vars
    <2> QED BY <2>1, StillFan
  <1>8. CASE Crash
    <2>1. /\ failures' = failures /\ tx'.phase = "none" /\ skey' = skey /\ told' = told
          /\ memory' = memory
      BY <1>8 DEF Crash, NoTx, store
    <2> QED BY <2>1, StillFan
  <1> QED BY <1>1, <1>2, <1>3, <1>4, <1>5, <1>6, <1>7, <1>8 DEF Next, RelayStep, ReceiptStep

\* A stanza for everybody can be read by every device of the list as long as
\* no commit has given up: relayMessage records in sender-key-memory after the
\* send, and no retry, failure or restart makes the memory claim more than the
\* wire has carried.
THEOREM OutboundMessagesFanOutReaches == Spec => []FanOutReaches
  <1>1. Shape /\ Fan => FanOutReaches
    BY DEF Fan, Copied, FanOutReaches
  <1>2. Init => Shape /\ Fan
    BY InitShape, InitFan
  <1>3. (Shape /\ Fan) /\ [Next]_vars => (Shape /\ Fan)'
    BY NextShape, NextFan
  <1> QED BY <1>1, <1>2, <1>3, PTL DEF Spec
=============================================================================
