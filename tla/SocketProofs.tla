----------------------------- MODULE SocketProofs -----------------------------
(***************************************************************************)
(* Proofs about the three things makeSocket puts together for every value   *)
(* of their constants: the connection itself, the Noise transport under it  *)
(* and the event buffer over it.                                            *)
(*                                                                         *)
(* Connection: its types, end() owns the queries in flight, no QR code is   *)
(* shown by a connection that ends, and 'close' is the last thing it        *)
(* announces.                                                               *)
(* Noise: what is at hand is always the stream from the first frame that    *)
(* nobody has taken, so that frames are given out once each and in order.   *)
(* Events: the buffer keeps one type per message and the scalar mirror of   *)
(* the first one, so that a message is handed out once and with its type.   *)
(***************************************************************************)
EXTENDS Connection, SequencesExt, SequenceTheorems, FiniteSetTheorems, WellFoundedInduction, TLAPS

(* The Noise transport under the connection. *)
CONSTANTS Frames, MaxMessage, MaxFailures
VARIABLES received, inBytes, inBytesChunks, processChain, transport, readCounter, emitted, failed,
          raised

Noise == INSTANCE NoiseTransport

(* The event buffer over it; its login buffer is called holding here. *)
CONSTANTS Keys, Types, None, Chats, PlainChats, ConditionalChats, Functions, Nodes, Arriving, Deletable,
          ListenerAnyType, MaxEmits, MaxFlushFailures
VARIABLES isBuffering, bufferCount, bufferTimeout, flushPendingTimeout, onlyBufferTimers, order, entryType,
          messageUpsertsCount, messageUpsertsType, messageDeletes, chatUpserts, chatUpdates, chatDeletes,
          reentered, fn, node, holding, destroyed, emits, failures, out, othersOut

Events == INSTANCE EventBuffer WITH login <- holding

-----------------------------------------------------------------------------
(* The connection. *)

\* A query that waits is parked; one that end() found is settled, and those
\* asked for later are rejected at once, because the socket is not open.
Owned ==
  /\ \A q \in Slots : query[q] \in {"waiting", "unheard"} => q \in waiters
  /\ endPc # "idle" => ws # "open" /\ ~qrTimer /\ \A q \in waiters : ~Pending(q)

Inv == TypeOK /\ Owned

States == {"idle", "sending", "waiting", "unheard", "resolved", "rejected"}

\* The pair of locks is but their two holders.
USE DEF locks

LEMMA InitInv == Init => Inv
  <1> SUFFICES ASSUME Init PROVE Inv
    OBVIOUS
  <1>0. relay \in {"idle", "caching"} \cup Queries /\ notice \in {"idle", "deleting"}
    BY DEF Init
  <1>1. refs \in 0..Refs /\ silence \in 0..2
    BY ConnectionAssumption DEF ConnectionAssumption, Init
  <1>2. query \in [Slots -> States] /\ waiters \subseteq Slots
    BY DEF Init, States
  <1>3. TypeOK
    BY <1>0, <1>1, <1>2, Zenon DEF Init, TypeOK, States
  <1>4. Owned
    BY DEF Init, Owned
  <1> QED BY <1>3, <1>4 DEF Inv

\* A step that leaves the queries, the end and the QR timer alone.
LEMMA QuietStep ==
  ASSUME Inv, UNCHANGED <<asks, qrTimer, refs, endPc>>,
         ws' = ws \/ (ws' = "open" /\ endPc = "idle") \/ ws' = "closing" \/ ws' = "closed",
         dead' \in BOOLEAN, hand' \in {"idle", "hello", "finish", "done", "failed"},
         keepAlive' \in BOOLEAN, silence' \in 0..2, paired' \in BOOLEAN,
         login' \in {"idle", "count", "passive", "digest", "done"},
         pairing' \in {"idle", "acking", "showing"}, conn' \in {"connecting", "open", "close"},
         logoutPc' \in {"idle", "sending", "ending", "resolved", "rejected"},
         relay' \in {"idle", "caching"} \cup Queries, notice' \in {"idle", "deleting"}
  PROVE  Inv'
  <1>1. ws' \in {"connecting", "open", "closing", "closed"}
    BY DEF Inv, TypeOK
  <1>2. TypeOK'
    BY <1>1 DEF asks, Inv, TypeOK
  <1>3. Owned'
    BY DEF asks, Inv, Owned, Pending
  <1> QED BY <1>2, <1>3 DEF Inv

LEMMA ReleaseKeeps ==
  ASSUME Inv, Release(waiters)
  PROVE  /\ query' \in [Slots -> States] /\ waiters' = {} /\ keepAlive' \in BOOLEAN /\ ~qrTimer'
              /\ qrTimer' \in BOOLEAN
         /\ \A q \in Slots : query'[q] \notin {"waiting", "unheard"}
  BY DEF Inv, TypeOK, Owned, Release, Pending, States

LEMMA EndKeeps ==
  ASSUME Inv, End,
         UNCHANGED <<refs, paired>>,
         dead' \in BOOLEAN, hand' \in {"idle", "hello", "finish", "done", "failed"}, silence' \in 0..2,
         login' \in {"idle", "count", "passive", "digest", "done"},
         pairing' \in {"idle", "acking", "showing"}, conn' \in {"connecting", "open", "close"},
         logoutPc' \in {"idle", "sending", "ending", "resolved", "rejected"},
         relay' \in {"idle", "caching"} \cup Queries, notice' \in {"idle", "deleting"}
  PROVE  Inv'
  <1>1. CASE Kept
    BY <1>1 DEF Kept, asks, Inv, TypeOK, Owned, Pending
  <1>2. CASE Release(waiters) /\ ws' \in {"closing", "closed"} /\ endPc' \in {"closing", "handlers"}
    BY <1>2, ReleaseKeeps DEF Inv, TypeOK, Owned, States
  <1>3. Kept \/ (Release(waiters) /\ ws' \in {"closing", "closed"}
          /\ endPc' \in {"closing", "handlers"})
    BY DEF End, Inv, TypeOK
  <1> QED BY <1>1, <1>2, <1>3

LEMMA AskKeeps ==
  ASSUME Inv, NEW q \in Slots, Ask(q),
         UNCHANGED <<ws, dead, hand, keepAlive, paired, qrs, conn, logoutPc, endPc>>,
         silence' \in 0..2, login' \in {"idle", "count", "passive", "digest", "done"},
         relay' \in {"idle", "caching"} \cup Queries, notice' \in {"idle", "deleting"}
  PROVE  Inv'
  <1>1. query' \in [Slots -> States] /\ waiters' \subseteq Slots
    BY DEF Ask, Inv, TypeOK, States
  <1>2. TypeOK'
    BY <1>1 DEF Inv, TypeOK, qrs, States
  <1>3. Owned'
    BY DEF Ask, Inv, TypeOK, Owned, Pending, qrs
  <1> QED BY <1>2, <1>3 DEF Inv

LEMMA NextInv == Inv /\ [Next]_vars => Inv'
  <1> SUFFICES ASSUME Inv, [Next]_vars PROVE Inv'
    OBVIOUS
  <1>0. CASE UNCHANGED vars
    BY <1>0, QuietStep DEF vars, qrs, Inv, TypeOK
  <1>1. CASE Teardown
    <2>1. CASE UserEnd
      BY <2>1, EndKeeps DEF UserEnd, Inv, TypeOK
    <2>2. CASE Closed \/ Handlers
      BY <2>2 DEF Closed, Handlers, asks, qrs, Inv, TypeOK, Owned, Pending
    <2> QED BY <1>1, <2>1, <2>2 DEF Teardown
  <1>2. CASE Socket
    <2>1. CASE OpenFails
      BY <2>1, EndKeeps DEF OpenFails, Inv, TypeOK
    <2>2. CASE Open \/ NetworkDies \/ PeerCloses
      BY <2>2, QuietStep DEF Open, NetworkDies, PeerCloses, qrs, Inv, TypeOK
    <2>3. CASE CloseEvent
      <3>1. CASE Release(waiters) /\ endPc' = "handlers"
        BY <2>3, <3>1, ReleaseKeeps DEF CloseEvent, Inv, TypeOK, Owned, States
      <3>2. CASE UNCHANGED <<keepAlive, qrTimer, asks, endPc>>
        BY <2>3, <3>2 DEF CloseEvent, asks, Inv, TypeOK, Owned, Pending
      <3> QED BY <2>3, <3>1, <3>2 DEF CloseEvent
    <2> QED BY <1>2, <2>1, <2>2, <2>3 DEF Socket
  <1>3. CASE Handshake
    <2>1. CASE HandshakeFails
      BY <2>1, EndKeeps DEF HandshakeFails, Inv, TypeOK
    <2>2. CASE HelloReply \/ FinishSent
      <3>1. keepAlive' \in BOOLEAN
        BY <2>2, Zenon DEF HelloReply, FinishSent, Inv, TypeOK
      <3>2. silence' \in 0..2
        BY <2>2 DEF HelloReply, FinishSent, Inv, TypeOK
      <3> QED BY <2>2, <3>1, <3>2, QuietStep DEF HelloReply, FinishSent, qrs, Inv, TypeOK
    <2> QED BY <1>3, <2>1, <2>2 DEF Handshake
  <1>4. CASE KeepAlive
    <2>1. CASE TickLost
      BY <2>1, EndKeeps DEF TickLost, Inv, TypeOK
    <2>2. CASE TickPing
      <3>1. silence' \in 0..2
        BY <2>2 DEF TickPing, Inv, TypeOK
      <3>2. CASE Ask("ping")
        BY <2>2, <3>1, <3>2, AskKeeps DEF TickPing, Slots, Inv, TypeOK
      <3>3. CASE UNCHANGED asks
        BY <2>2, <3>1, <3>3 DEF TickPing, asks, qrs, Inv, TypeOK, Owned, Pending
      <3> QED BY <2>2, <3>2, <3>3 DEF TickPing
    <2> QED BY <1>4, <2>1, <2>2 DEF KeepAlive
  <1>5. CASE Stanza
    <2>1. CASE FatalStanza
      BY <2>1, EndKeeps DEF FatalStanza, Receiving, Inv, TypeOK
    <2>2. CASE Success
      BY <2>2, AskKeeps DEF Success, Receiving, Slots, Inv, TypeOK
    <2>3. CASE OtherStanza \/ PairDevice \/ PairSuccess
      <3>1. paired' \in BOOLEAN
        BY <2>3, Zenon DEF OtherStanza, PairDevice, PairSuccess, Inv, TypeOK
      <3>2. silence' \in 0..2
        BY <2>3 DEF OtherStanza, PairDevice, PairSuccess, Receiving
      <3> QED
        BY <2>3, <3>1, <3>2, QuietStep DEF OtherStanza, PairDevice, PairSuccess, qrs, Inv, TypeOK
    <2> QED BY <1>5, <2>1, <2>2, <2>3 DEF Stanza
  <1>6. CASE Login
    <2>1. CASE LoginQuery
      BY <2>1, AskKeeps DEF LoginQuery, Slots, Inv, TypeOK
    <2>2. CASE Opened
      <3>1. /\ qrTimer' = FALSE /\ login' = "done" /\ conn' \in {"connecting", "open", "close"}
            /\ UNCHANGED <<ws, dead, locks, hand, keepAlive, silence, asks, paired, pairing, refs, logoutPc, endPc>>
        BY <2>2 DEF Opened, Inv, TypeOK
      <3>2. TypeOK'
        <4>1. qrTimer' \in BOOLEAN
          BY <3>1, Zenon
        <4> QED BY <3>1, <4>1 DEF asks, Inv, TypeOK
      <3>3. Owned'
        BY <3>1 DEF asks, Inv, Owned, Pending
      <3> QED BY <3>2, <3>3 DEF Inv
    <2> QED BY <1>6, <2>1, <2>2 DEF Login
  <1>7. CASE QR
    <2>1. ASSUME NoMoreQR, pairing' \in {"idle", "acking", "showing"},
                 UNCHANGED <<dead, locks, hand, silence, login, paired, conn, logoutPc>>
          PROVE Inv'
      BY <2>1, EndKeeps DEF NoMoreQR, Inv, TypeOK
    <2>2. ASSUME ws = "open", refs > 0, ShowQR, pairing' \in {"idle", "acking", "showing"},
                 UNCHANGED <<dead, locks, hand, silence, login, paired, conn, logoutPc>>
          PROVE Inv'
      <3>1. refs' \in 0..Refs
        BY <2>2, ConnectionAssumption DEF ConnectionAssumption, ShowQR, Inv, TypeOK
      <3>2. TypeOK'
        BY <2>2, <3>1 DEF ShowQR, asks, Inv, TypeOK
      <3>3. Owned'
        BY <2>2 DEF ShowQR, asks, Inv, Owned, Pending
      <3> QED BY <3>2, <3>3 DEF Inv
    <2>3. ASSUME ws # "open", qrTimer' \in {qrTimer, FALSE}, pairing' \in {"idle", "acking",
                 "showing"},
                 UNCHANGED <<ws, keepAlive, refs, asks, endPc, dead, locks, hand, silence, login, paired, conn, logoutPc>>
          PROVE Inv'
      <3>1. qrTimer' \in BOOLEAN
        BY <2>3, Zenon DEF Inv, TypeOK
      <3>2. TypeOK'
        BY <2>3, <3>1 DEF asks, Inv, TypeOK
      <3>3. qrTimer' => qrTimer
        BY <2>3, Zenon
      <3>4. Owned'
        BY <2>3, <3>3 DEF asks, Inv, Owned, Pending
      <3> QED BY <3>2, <3>4 DEF Inv
    <2>4. CASE FirstQR
      BY <2>1, <2>2, <2>3, <2>4 DEF FirstQR
    <2>5. CASE NextQR
      BY <2>1, <2>2, <2>3, <2>5 DEF NextQR, Inv, TypeOK
    <2> QED BY <1>7, <2>4, <2>5 DEF QR
  <1>8. CASE LoggingOut
    <2>1. CASE Logout
      <3>1. CASE End
        BY <2>1, <3>1, EndKeeps DEF Logout, Inv, TypeOK
      <3>2. CASE Kept
        BY <2>1, <3>2, QuietStep DEF Logout, Kept, Inv, TypeOK
      <3> QED BY <2>1, <3>1, <3>2 DEF Logout, Kept
    <2>2. CASE LogoutSent
      BY <2>2, EndKeeps DEF LogoutSent, Inv, TypeOK
    <2>3. CASE LogoutSendFails \/ LogoutDone
      BY <2>3, QuietStep DEF LogoutSendFails, LogoutDone, qrs, Inv, TypeOK
    <2> QED BY <1>8, <2>1, <2>2, <2>3 DEF LoggingOut
  <1>9. ASSUME NEW q \in Slots, StartQuery(q) \/ BeginRelay(q) PROVE Inv'
    <2>1. relay' \in {"idle", "caching"} \cup Queries /\ notice' \in {"idle", "deleting"}
      BY <1>9 DEF StartQuery, BeginRelay, Inv, TypeOK
    <2> QED BY <1>9, <2>1, AskKeeps DEF StartQuery, BeginRelay, Inv, TypeOK
  <1>11. CASE Locking
    <2>1. relay' \in {"idle", "caching"} \cup Queries /\ notice' \in {"idle", "deleting"}
      BY <1>11 DEF Locking, RelayAnswered, RelayCaches, NoticeLocks, NoticeDeletes, Inv, TypeOK
    <2> QED
      BY <1>11, <2>1, QuietStep
         DEF Locking, RelayAnswered, RelayCaches, NoticeLocks, NoticeDeletes, qrs, Inv, TypeOK
  <1>10. ASSUME NEW q \in Slots, Sent(q) \/ SendFails(q) \/ Answer(q) \/ WaiterTimeout(q) PROVE Inv'
    <2>1. query' \in [Slots -> States] /\ waiters' \subseteq Slots /\ silence' \in 0..2
      BY <1>10 DEF Sent, SendFails, Answer, WaiterTimeout, Inv, TypeOK, States
    <2>2. TypeOK'
      BY <1>10, <2>1 DEF Sent, SendFails, Answer, WaiterTimeout, qrs, Inv, TypeOK, States
    <2>3. Owned'
      BY <1>10
         DEF Sent, SendFails, Answer, WaiterTimeout, Listening, qrs, Inv, TypeOK, Owned, Pending
    <2> QED BY <2>2, <2>3 DEF Inv
  <1> QED
    BY <1>0, <1>1, <1>2, <1>3, <1>4, <1>5, <1>6, <1>7, <1>8, <1>9, <1>10, <1>11 DEF Next

LEMMA SpecInv == Spec => []Inv
  BY InitInv, NextInv, PTL DEF Spec

\* Every variable keeps its type in every behaviour.
THEOREM ConnectionTypeOK == Spec => []TypeOK
  <1>1. Inv => TypeOK
    BY DEF Inv
  <1> QED BY SpecInv, <1>1, PTL

\* Once end() runs no query waits for an answer and no QR timer is armed,
\* whichever of its callers, the peer or a timer came first, whatever is asked
\* for later and wherever a pairing handler was.
THEOREM ConnectionEndOwnsWaiters == Spec => []EndOwnsWaiters
  <1>1. Inv => EndOwnsWaiters
    BY DEF Inv, Owned, EndOwnsWaiters, Pending
  <1> QED BY SpecInv, <1>1, PTL
-----------------------------------------------------------------------------
(* The last announcement.                                                  *)

\* 'close' is announced by the last step of end(), which is never left.
Announced == conn = "close" => endPc = "done"

LEMMA EndIsFinal ==
  ASSUME Announced, End, UNCHANGED conn
  PROVE  Announced' /\ (conn = "close" => conn' = "close")
  BY DEF Announced, End, Kept

LEMMA AnnouncedStep ==
  ASSUME Announced, [Next]_vars
  PROVE  Announced' /\ (conn = "close" => conn' = "close")
  <1>0. CASE UNCHANGED <<conn, endPc>>
    BY <1>0 DEF Announced
  <1>1. CASE UNCHANGED vars
    BY <1>0, <1>1 DEF vars
  <1>2. CASE Teardown
    BY <1>2, EndIsFinal DEF Teardown, UserEnd, Closed, Handlers, Announced
  <1>3. CASE Socket
    BY <1>3, EndIsFinal
       DEF Socket, Open, OpenFails, NetworkDies, PeerCloses, CloseEvent, Announced
  <1>4. CASE Handshake
    BY <1>4, EndIsFinal, <1>0 DEF Handshake, HelloReply, HandshakeFails, FinishSent
  <1>5. CASE KeepAlive
    BY <1>5, EndIsFinal, <1>0 DEF KeepAlive, TickPing, TickLost
  <1>6. CASE Stanza
    BY <1>6, EndIsFinal, <1>0
       DEF Stanza, FatalStanza, OtherStanza, Success, PairDevice, PairSuccess
  <1>7. CASE Login
    BY <1>7 DEF Login, LoginQuery, Opened, Announced
  <1>8. CASE QR
    BY <1>8, EndIsFinal, <1>0 DEF QR, FirstQR, NextQR, ShowQR, NoMoreQR
  <1>9. CASE LoggingOut
    BY <1>9, EndIsFinal, <1>0 DEF LoggingOut, Logout, LogoutSent, LogoutSendFails, LogoutDone
  <1>10. ASSUME NEW q \in Slots,
                \/ StartQuery(q) \/ BeginRelay(q) \/ Sent(q) \/ SendFails(q)
                \/ Answer(q) \/ WaiterTimeout(q)
         PROVE  UNCHANGED <<conn, endPc>>
    BY <1>10 DEF StartQuery, BeginRelay, Sent, SendFails, Answer, WaiterTimeout
  <1>11. CASE Locking
    BY <1>11, <1>0 DEF Locking, RelayAnswered, RelayCaches, NoticeLocks, NoticeDeletes
  <1> QED
    BY <1>0, <1>1, <1>2, <1>3, <1>4, <1>5, <1>6, <1>7, <1>8, <1>9, <1>10, <1>11 DEF Next

\* Nothing is announced after 'close': neither a login that was under way when
\* the end began nor a second end() can speak again.
THEOREM ConnectionClosedForGood == Spec => ClosedForGood
  <1>1. Init => Announced
    BY DEF Init, Announced
  <1>2. Announced /\ [Next]_vars => Announced'
    BY AnnouncedStep
  <1>3. Announced /\ [Next]_vars => [conn = "close" => conn' = "close"]_vars
    BY AnnouncedStep
  <1> QED BY <1>1, <1>2, <1>3, PTL DEF Spec, ClosedForGood

-----------------------------------------------------------------------------
(* The two locks.                                                          *)

\* end() announces nothing before it has had the mutex of the store, and whoever
\* comes for it later does not take it.
Emptied == Announced /\ (endPc = "done" => StoreFree)

LEMMA CrossedStep ==
  ASSUME Emptied, [Next]_vars
  PROVE  Emptied' /\ (Crossed => Crossed')
  <1>0. Announced'
    BY AnnouncedStep DEF Emptied
  <1>1. ASSUME UNCHANGED locks, UNCHANGED endPc \/ endPc' # "done"
        PROVE  Emptied' /\ (Crossed => Crossed')
    BY <1>0, <1>1 DEF Emptied, Crossed, StoreFree, Relaying
  <1>2. ASSUME End, UNCHANGED locks PROVE Emptied' /\ (Crossed => Crossed')
    BY <1>1, <1>2 DEF End, Kept
  <1>3. CASE UNCHANGED vars
    BY <1>1, <1>3 DEF vars
  <1>4. CASE Teardown
    <2>1. CASE Handlers
      BY <2>1, <1>0 DEF Handlers, Emptied, Crossed, StoreFree, Relaying
    <2> QED BY <1>1, <1>2, <1>4, <2>1 DEF Teardown, UserEnd, Closed
  <1>5. CASE Socket \/ Handshake
    BY <1>1, <1>2, <1>5
       DEF Socket, Open, OpenFails, NetworkDies, PeerCloses, CloseEvent, Handshake, HelloReply,
           HandshakeFails, FinishSent
  <1>6. CASE KeepAlive \/ Stanza
    BY <1>1, <1>2, <1>6
       DEF KeepAlive, TickPing, TickLost, Stanza, FatalStanza, OtherStanza, Success, PairDevice,
           PairSuccess
  <1>7. CASE Login \/ QR
    BY <1>1, <1>2, <1>7
       DEF Login, LoginQuery, Opened, QR, FirstQR, NextQR, ShowQR, NoMoreQR
  <1>8. CASE LoggingOut
    BY <1>1, <1>2, <1>8 DEF LoggingOut, Logout, LogoutSent, LogoutSendFails, LogoutDone, Kept
  <1>9. ASSUME NEW q \in Slots,
               StartQuery(q) \/ Sent(q) \/ SendFails(q) \/ Answer(q) \/ WaiterTimeout(q)
        PROVE  Emptied' /\ (Crossed => Crossed')
    BY <1>1, <1>9 DEF StartQuery, Sent, SendFails, Answer, WaiterTimeout
  <1>10. ASSUME NEW q \in Slots, BeginRelay(q) PROVE Emptied' /\ (Crossed => Crossed')
    BY <1>0, <1>10 DEF BeginRelay, Emptied, Crossed, StoreFree, Relaying, Disposed
  <1>11. CASE Locking
    BY <1>0, <1>11, ConnectionAssumption
       DEF Locking, RelayAnswered, RelayCaches, NoticeLocks, NoticeDeletes, Emptied, Crossed,
           StoreFree, Relaying, Disposed, ConnectionAssumption
  <1> QED
    BY <1>3, <1>4, <1>5, <1>6, <1>7, <1>8, <1>9, <1>10, <1>11 DEF Next

\* A relay that waits for devicesMutex inside its transaction and a notification
\* that waits for the transaction's mutex under devicesMutex wait for ever, and a
\* connection on which they have met never announces 'close', whoever ends it.
THEOREM ConnectionCrossedNeverCloses == Spec => [](Crossed => [](conn # "close"))
  <1>1. Init => Emptied
    BY DEF Init, Emptied, Announced
  <1>2. Emptied /\ [Next]_vars => Emptied' /\ (Crossed => Crossed')
    BY CrossedStep
  <1>3. Emptied /\ Crossed => conn # "close"
    BY DEF Emptied, Announced, Crossed, StoreFree
  <1> QED BY <1>1, <1>2, <1>3, PTL DEF Spec

HIDE DEF locks

-----------------------------------------------------------------------------
(* Sequences: the least element of a set of numbers gives induction, with  *)
(* which the recursive function of FlattenSeq can be reasoned about.         *)

\* The order the numbers are well founded in.
Below == {p \in Nat \X Nat : p[1] < p[2]}

\* A set of natural numbers has a least element: induction without an operator.
LEMMA NonEmptyHasLeast ==
  ASSUME NEW T \in SUBSET Nat, T # {}
  PROVE  \E m \in T : \A n \in T : m <= n
  <1>1. IsWellFoundedOn(Below, Nat)
    <2>1. Below = OpToRel(<,Nat)
      BY DEF OpToRel, Below
    <2> QED BY <2>1, NatLessThanWellFounded
  <1>2. PICK m \in T : \A n \in T : ~(<<n, m>> \in Below)
    BY <1>1, WFMin
  <1>3. SUFFICES ASSUME NEW n \in T PROVE m <= n
    OBVIOUS
  <1>4. m \in Nat /\ n \in Nat
    OBVIOUS
  <1>5. ~(n < m)
    BY <1>2, <1>4 DEF Below
  <1> QED BY <1>4, <1>5

\* f holds the concatenations of the first 1, 2, ..., n elements of s.
Part(s, n, f) == f = [i \in 1..n |-> IF i = 1 THEN s[i] ELSE f[i-1] \o s[i]]

LEMMA PartExists ==
  ASSUME NEW s, NEW k \in Nat
  PROVE  \E f : Part(s, k, f)
  <1> DEFINE T == {n \in Nat : ~\E f : Part(s, n, f)}
  <1>0. Part(s, 0, <<>>)
    BY DEF Part
  <1>1. SUFFICES ASSUME T # {} PROVE FALSE
    OBVIOUS
  <1>2. PICK m \in T : \A n \in T : m <= n
    <2> T \in SUBSET Nat
      OBVIOUS
    <2> QED BY <1>1, NonEmptyHasLeast
  <1>3. m \in Nat \ {0}
    BY <1>0
  <1>4. PICK f : Part(s, m - 1, f)
    <2>1. m - 1 \in Nat /\ ~(m <= m - 1)
      BY <1>3
    <2>2. m - 1 \notin T
      BY <1>2, <2>1
    <2> QED BY <2>1, <2>2
  <1> DEFINE g == [i \in 1..m |-> IF i = m THEN (IF i = 1 THEN s[i] ELSE f[i-1] \o s[i]) ELSE f[i]]
  <1>6. Part(s, m, g)
    <2> SUFFICES \A i \in 1..m : g[i] = IF i = 1 THEN s[i] ELSE g[i-1] \o s[i]
      BY DEF Part
    <2> TAKE i \in 1..m
    <2>1. CASE i = m
      BY <2>1, <1>3
    <2>2. CASE i # m
      <3>1. i \in 1..(m-1)
        BY <2>2, <1>3
      <3>2. f[i] = IF i = 1 THEN s[i] ELSE f[i-1] \o s[i]
        BY <3>1, <1>4 DEF Part
      <3>3. g[i] = f[i] /\ (i # 1 => g[i-1] = f[i-1])
        BY <3>1, <1>3
      <3> HIDE DEF g
      <3> QED BY <3>2, <3>3
    <2> QED BY <2>1, <2>2
  <1> QED BY <1>6

Agree(s, t, j) == \A i \in 1..j : s[i] = t[i]

LEMMA PartPrefix ==
  ASSUME NEW s, NEW t, NEW j \in Nat, NEW k \in Nat, j <= k, Agree(s, t, j),
         NEW f, NEW g, Part(s, j, f), Part(t, k, g)
  PROVE  Agree(f, g, j)
  <1> DEFINE T == {n \in 1..j : f[n] # g[n]}
  <1>1. SUFFICES ASSUME T # {} PROVE FALSE
    BY DEF Agree
  <1>2. PICK m \in T : \A n \in T : m <= n
    <2> T \in SUBSET Nat
      OBVIOUS
    <2> QED BY <1>1, NonEmptyHasLeast
  <1>3. m \in 1..j /\ m \in 1..k /\ f[m] # g[m]
    OBVIOUS
  <1>4. m # 1 => f[m-1] = g[m-1]
    <2> SUFFICES ASSUME m # 1 PROVE f[m-1] = g[m-1]
      OBVIOUS
    <2>1. m - 1 \in 1..j /\ ~(m <= m - 1)
      BY <1>3
    <2>2. m - 1 \notin T
      BY <1>2, <2>1
    <2> QED BY <2>1, <2>2
  <1>5. f[m] = (IF m = 1 THEN s[m] ELSE f[m-1] \o s[m])
          /\ g[m] = (IF m = 1 THEN t[m] ELSE g[m-1] \o t[m])
    BY <1>3 DEF Part
  <1>6. s[m] = t[m]
    BY <1>3 DEF Agree
  <1> QED BY <1>3, <1>4, <1>5, <1>6

Whole(s) == CHOOSE f : Part(s, Len(s), f)

LEMMA FlattenIs ==
  ASSUME NEW S, NEW s \in Seq(S), s # <<>>
  PROVE  FlattenSeq(s) = Whole(s)[Len(s)]
  <1>1. Len(s) # 0
    OBVIOUS
  <1> QED BY <1>1 DEF FlattenSeq, Whole, Part

LEMMA FlattenEmpty == FlattenSeq(<<>>) = <<>>
  BY DEF FlattenSeq

LEMMA WholeIs ==
  ASSUME NEW S, NEW s \in Seq(S)
  PROVE  Part(s, Len(s), Whole(s))
  <1>1. Len(s) \in Nat
    OBVIOUS
  <1>2. \E f : Part(s, Len(s), f)
    BY <1>1, PartExists
  <1> QED BY <1>2 DEF Whole

LEMMA FlattenLonger ==
  ASSUME NEW U, NEW s \in Seq(U), NEW t \in Seq(U), s # <<>>,
         Len(t) = Len(s) + 1, \A i \in 1..Len(s) : s[i] = t[i]
  PROVE  FlattenSeq(t) = FlattenSeq(s) \o t[Len(t)]
  <1>1. Len(s) \in Nat \ {0} /\ t # <<>> /\ Len(s) \in 1..Len(s) /\ Len(t) \in 1..Len(t)
          /\ Len(s) <= Len(t)
    OBVIOUS
  <1>2. Part(s, Len(s), Whole(s)) /\ Part(t, Len(t), Whole(t))
    BY WholeIs
  <1>3. FlattenSeq(s) = Whole(s)[Len(s)] /\ FlattenSeq(t) = Whole(t)[Len(t)]
    BY <1>1, FlattenIs
  <1>4. \A i \in 1..Len(s) : Whole(s)[i] = Whole(t)[i]
    <2>1. Len(t) \in Nat
      BY <1>1
    <2>2. Agree(s, t, Len(s))
      BY DEF Agree
    <2>3. Agree(Whole(s), Whole(t), Len(s))
      BY <1>1, <1>2, <2>1, <2>2, PartPrefix
    <2> QED BY <2>3 DEF Agree
  <1>5. Whole(t)[Len(t)] = Whole(t)[Len(t) - 1] \o t[Len(t)]
    <2>1. Len(t) # 1
      BY <1>1
    <2> QED BY <1>1, <1>2, <2>1 DEF Part
  <1>6. Len(t) - 1 = Len(s) /\ Whole(s)[Len(s)] = Whole(t)[Len(s)]
    BY <1>1, <1>4
  <1> QED BY <1>3, <1>5, <1>6

\* A chunk that is appended is appended to the concatenation.
LEMMA FlattenAppend ==
  ASSUME NEW S, NEW s \in Seq(Seq(S)), NEW e \in Seq(S)
  PROVE  FlattenSeq(Append(s, e)) = FlattenSeq(s) \o e
  <1> DEFINE U == Seq(S)
  <1>1. SUFFICES ASSUME NEW t, t = Append(s, e) PROVE FlattenSeq(t) = FlattenSeq(s) \o e
    OBVIOUS
  <1>2. s \in Seq(U) /\ e \in U
    OBVIOUS
  <1>3. t \in Seq(U) /\ Len(t) = Len(s) + 1 /\ t # <<>> /\ t[Len(t)] = e
          /\ \A i \in 1..Len(s) : s[i] = t[i]
    <2> HIDE DEF U
    <2> QED BY <1>1, <1>2
  <1>4. CASE s = <<>>
    <2>1. Part(t, Len(t), Whole(t)) /\ FlattenSeq(t) = Whole(t)[Len(t)] /\ Len(t) = 1
      <3> HIDE DEF U
      <3>1. Part(t, Len(t), Whole(t))
        BY <1>3, WholeIs
      <3>2. FlattenSeq(t) = Whole(t)[Len(t)]
        BY <1>3, FlattenIs
      <3>3. Len(t) = 1
        BY <1>3, <1>4
      <3> QED BY <3>1, <3>2, <3>3
    <2>2. Whole(t)[1] = e
      BY <1>3, <2>1 DEF Part
    <2>3. <<>> \o e = e
      OBVIOUS
    <2> QED BY <2>1, <2>2, <2>3, <1>4, FlattenEmpty
  <1>5. CASE s # <<>>
    <2> HIDE DEF U
    <2> QED BY <1>2, <1>3, <1>5, FlattenLonger
  <1> QED BY <1>4, <1>5

\* The concatenation of sequences over S is one over S.
LEMMA FlattenType ==
  ASSUME NEW S, NEW s \in Seq(Seq(S))
  PROVE  FlattenSeq(s) \in Seq(S)
  <1>1. CASE s = <<>>
    <2>1. FlattenSeq(s) = <<>>
      BY <1>1, FlattenEmpty
    <2> QED BY <2>1
  <1>2. CASE s # <<>>
    <2> DEFINE T == {n \in 1..Len(s) : Whole(s)[n] \notin Seq(S)}
    <2>1. Part(s, Len(s), Whole(s))
      BY WholeIs
    <2>2. ASSUME T # {} PROVE FALSE
      <3>1. PICK m \in T : \A n \in T : m <= n
        <4> T \in SUBSET Nat
          OBVIOUS
        <4> QED BY <2>2, NonEmptyHasLeast
      <3>2. m \in 1..Len(s) /\ Whole(s)[m] \notin Seq(S) /\ s[m] \in Seq(S)
        OBVIOUS
      <3>3. Whole(s)[m] = IF m = 1 THEN s[m] ELSE Whole(s)[m-1] \o s[m]
        BY <2>1, <3>2 DEF Part
      <3>4. m # 1
        BY <3>2, <3>3
      <3>5. m - 1 \in 1..Len(s) /\ ~(m <= m - 1)
        BY <3>2, <3>4
      <3>6. m - 1 \notin T
        BY <3>1, <3>5
      <3>7. Whole(s)[m-1] \in Seq(S)
        BY <3>5, <3>6
      <3> QED BY <3>2, <3>3, <3>4, <3>7
    <2>3. Len(s) \in 1..Len(s)
      BY <1>2
    <2>4. FlattenSeq(s) = Whole(s)[Len(s)]
      BY <1>2, FlattenIs
    <2>5. Len(s) \notin T
      BY <2>2
    <2>6. Whole(s)[Len(s)] \in Seq(S)
      BY <2>3, <2>5
    <2> QED BY <2>4, <2>6
  <1> QED BY <1>1, <1>2

Distinct(s) == \A i, j \in DOMAIN s : s[i] = s[j] => i = j

\* Taking out an element that stands in a sequence once.
LEMMA RemovedFirst ==
  ASSUME NEW S, NEW s \in Seq(S), Distinct(s), NEW i \in 1..Len(s)
  PROVE  RemoveFirst(s, s[i]) = SubSeq(s, 1, i - 1) \o SubSeq(s, i + 1, Len(s))
  <1> DEFINE I == {j \in 1..Len(s) : s[j] = s[i]}
  <1>1. I = {i}
    BY DEF Distinct
  <1>2. Min(I) = i
    BY <1>1 DEF Min
  <1>3. SelectInSeq(s, LAMBDA v : v = s[i]) = IF I # {} THEN Min(I) ELSE 0
    BY DEF SelectInSeq
  <1>4. RemoveFirst(s, s[i]) = RemoveAt(s, SelectInSeq(s, LAMBDA v : v = s[i]))
    BY DEF RemoveFirst
  <1> QED BY <1>1, <1>2, <1>3, <1>4 DEF RemoveAt

-----------------------------------------------------------------------------
(* The Noise transport. *)

\* The library's operators under the names they have in the instance.
LEMMA NoiseLibrary ==
  ASSUME NEW s, NEW i
  PROVE  /\ Noise!FlattenSeq(s) = FlattenSeq(s)
         /\ Noise!RemoveAt(s, i) = RemoveAt(s, i)
         /\ Noise!Cardinality(s) = Cardinality(s)
         /\ Noise!Stream!Cardinality(s) = Cardinality(s)
  BY DEF Noise!FlattenSeq, FlattenSeq, Noise!RemoveAt, RemoveAt, Noise!Cardinality,
         Noise!Stream!Cardinality, Cardinality

\* n consecutive units after the first a.
Span(a, n) == [i \in 1..n |-> a + i]
Bytes == inBytes \o FlattenSeq(inBytesChunks)

Decoding == processChain # <<>> /\ processChain[1].at = "decode"
Handled == Len(emitted) + Cardinality(failed)
Taken == Handled + (IF Decoding THEN 1 ELSE 0)

\* What is at hand is the stream from the first frame that nobody has taken.
AtHand ==
  /\ received <= IF transport THEN 2 * Frames ELSE 2
  /\ 2 * Taken <= received
  /\ Bytes = Span(2 * Taken, received - 2 * Taken)

\* One loop decodes at a time, and it has the next frame that is due.
InLine ==
  /\ \A i \in DOMAIN processChain :
       processChain[i].at = "decode" => i = 1 /\ transport /\ processChain[i].frame = Handled + 1
  /\ failed \subseteq 1..Handled

\* The counter has been raised once for every frame behind the hello.
Counted == IF transport THEN Taken = readCounter + 1 ELSE readCounter = 0 /\ failed = {}

Transport == Noise!TypeOK /\ AtHand /\ InLine /\ Counted

LEMMA SpanSeq ==
  ASSUME NEW a \in Nat, NEW n \in Nat
  PROVE  Span(a, n) \in Seq(Nat) /\ Len(Span(a, n)) = n /\ \A i \in 1..n : Span(a, n)[i] = a + i
  BY DEF Span

\* Units that come next go on with the span.
LEMMA SpanJoins ==
  ASSUME NEW a \in Nat, NEW n \in Nat, NEW k \in Nat
  PROVE  Span(a, n) \o Span(a + n, k) = Span(a, n + k)
  <1>0. a + n \in Nat /\ n + k \in Nat
    OBVIOUS
  <1> DEFINE s == Span(a, n)
             t == Span(a + n, k)
             u == Span(a, n + k)
  <1>1. s \in Seq(Nat) /\ t \in Seq(Nat) /\ u \in Seq(Nat)
    BY <1>0, SpanSeq
  <1>2. Len(s) = n /\ Len(t) = k /\ Len(u) = n + k
    BY <1>0, SpanSeq
  <1>3. /\ \A i \in 1..n : s[i] = a + i
        /\ \A i \in 1..k : t[i] = a + n + i
        /\ \A i \in 1..(n + k) : u[i] = a + i
    BY <1>0, SpanSeq
  <1> HIDE DEF s, t, u
  <1>4. /\ s \o t \in Seq(Nat) /\ Len(s \o t) = n + k
        /\ \A i \in 1..(n + k) : (s \o t)[i] = IF i <= n THEN s[i] ELSE t[i - n]
    BY <1>1, <1>2, ConcatProperties
  <1>5. ASSUME NEW i \in 1..(n + k) PROVE (s \o t)[i] = u[i]
    <2>1. CASE i <= n
      <3>1. i \in 1..n
        BY <2>1
      <3>2. s[i] = a + i /\ u[i] = a + i
        BY <1>3, <3>1
      <3> QED BY <1>4, <2>1, <3>2
    <2>2. CASE ~(i <= n)
      <3>1. i - n \in 1..k
        BY <2>2
      <3>2. t[i - n] = a + n + (i - n) /\ u[i] = a + i
        BY <1>3, <3>1
      <3>3. a + n + (i - n) = a + i
        OBVIOUS
      <3> QED BY <1>4, <2>2, <3>2, <3>3
    <2> QED BY <2>1, <2>2
  <1>6. s \o t = u
    BY <1>1, <1>2, <1>4, <1>5, SeqEqual
  <1> QED BY <1>6 DEF s, t, u

\* Two units off the front: the span starts two later.
LEMMA SpanLoses ==
  ASSUME NEW b \in Seq(Nat), NEW f \in Seq(Nat), NEW a \in Nat, NEW n \in Nat
  PROVE  b \o f = Span(a, n) /\ Len(b) >= 2
           => /\ b[1] = a + 1 /\ b[2] = a + 2 /\ n >= 2
              /\ SubSeq(b, 3, Len(b)) \o f = Span(a + 2, n - 2)
  <1>9. SUFFICES ASSUME b \o f = Span(a, n), Len(b) >= 2
                 PROVE  /\ b[1] = a + 1 /\ b[2] = a + 2 /\ n >= 2
                        /\ SubSeq(b, 3, Len(b)) \o f = Span(a + 2, n - 2)
    OBVIOUS
  <1> DEFINE c == SubSeq(b, 3, Len(b))
             u == Span(a + 2, n - 2)
  <1>0. Len(b) \in Nat /\ Len(f) \in Nat /\ Len(b) >= 2
    BY <1>9
  <1>1. /\ Len(b \o f) = Len(b) + Len(f)
        /\ \A i \in 1..(Len(b) + Len(f)) : (b \o f)[i] = IF i <= Len(b) THEN b[i] ELSE f[i - Len(b)]
    BY ConcatProperties
  <1>2. Len(b) + Len(f) = n /\ \A i \in 1..n : (b \o f)[i] = a + i
    <2>1. Len(Span(a, n)) = n /\ \A i \in 1..n : Span(a, n)[i] = a + i
      BY SpanSeq
    <2> QED BY <1>9, <1>1, <2>1
  <1>3. c \in Seq(Nat) /\ Len(c) = Len(b) - 2 /\ \A i \in 1..(Len(b) - 2) : c[i] = b[i + 2]
    <2>1. \A i \in 3..Len(b) : b[i] \in Nat
      BY <1>0
    <2>2. /\ c \in Seq(Nat) /\ Len(c) = IF 3 <= Len(b) THEN Len(b) - 3 + 1 ELSE 0
          /\ \A i \in 1..(Len(b) - 3 + 1) : c[i] = b[3 + i - 1]
      <3>1. Len(b) \in Int
        BY <1>0
      <3> QED BY <2>1, <3>1, SubSeqProperties
    <2> HIDE DEF c
    <2>3. Len(c) = Len(b) - 2 /\ Len(b) - 3 + 1 = Len(b) - 2
      <3>1. CASE 3 <= Len(b)
        BY <2>2, <1>0, <3>1
      <3>2. CASE ~(3 <= Len(b))
        <4>1. Len(c) = 0
          BY <2>2, <3>2
        <4>2. Len(b) = 2
          <5>1. \A x \in Nat : x >= 2 /\ ~(3 <= x) => x = 2
            OBVIOUS
          <5> QED BY <5>1, <1>0, <3>2
        <4> QED BY <4>1, <4>2
      <3> QED BY <3>1, <3>2
    <2>4. \A i \in 1..(Len(b) - 2) : 3 + i - 1 = i + 2
      OBVIOUS
    <2> QED BY <2>2, <2>3, <2>4
  <1>4. u \in Seq(Nat) /\ Len(u) = n - 2 /\ \A i \in 1..(n - 2) : u[i] = a + 2 + i
    <2>1. n - 2 \in Nat /\ a + 2 \in Nat
      BY <1>0, <1>2
    <2> QED BY <2>1, SpanSeq
  <1> HIDE DEF c, u
  <1>5. /\ c \o f \in Seq(Nat) /\ Len(c \o f) = n - 2
        /\ \A i \in 1..(n - 2) : (c \o f)[i] = IF i <= Len(c) THEN c[i] ELSE f[i - Len(c)]
    <2>1. /\ c \o f \in Seq(Nat) /\ Len(c \o f) = Len(c) + Len(f)
          /\ \A i \in 1..(Len(c) + Len(f)) : (c \o f)[i] = IF i <= Len(c) THEN c[i] ELSE f[i - Len(c)]
      BY <1>3, ConcatProperties
    <2>2. Len(c) + Len(f) = n - 2
      BY <1>0, <1>2, <1>3
    <2> QED BY <2>1, <2>2
  <1>6. ASSUME NEW i \in 1..(n - 2) PROVE (c \o f)[i] = u[i]
    <2>0. u[i] = a + (i + 2)
      BY <1>4
    <2>1. (b \o f)[i + 2] = a + (i + 2) /\ i + 2 \in 1..(Len(b) + Len(f))
      BY <1>0, <1>2
    <2>2. CASE i <= Len(b) - 2
      <3>1. i \in 1..(Len(b) - 2) /\ i <= Len(c) /\ i + 2 <= Len(b)
        BY <2>2, <1>0, <1>3
      <3>2. (b \o f)[i + 2] = b[i + 2]
        BY <1>1, <2>1, <3>1
      <3> QED BY <1>3, <1>5, <2>0, <2>1, <3>1, <3>2
    <2>3. CASE ~(i <= Len(b) - 2)
      <3>1. ~(i <= Len(c)) /\ ~(i + 2 <= Len(b)) /\ i - Len(c) = i + 2 - Len(b)
        BY <2>3, <1>0, <1>3
      <3>2. (b \o f)[i + 2] = f[i + 2 - Len(b)]
        BY <1>1, <2>1, <3>1
      <3> QED BY <1>5, <2>0, <2>1, <3>1, <3>2
    <2> QED BY <2>2, <2>3
  <1>7. c \o f = u
    BY <1>4, <1>5, <1>6, SeqEqual
  <1>8. b[1] = a + 1 /\ b[2] = a + 2 /\ n >= 2
    BY <1>0, <1>1, <1>2
  <1> QED BY <1>7, <1>8 DEF c, u

\* What is left of a queue whose first entry goes.
LEMMA FirstLeaves ==
  ASSUME NEW S, NEW s \in Seq(S), s # <<>>
  PROVE  /\ Noise!RemoveAt(s, 1) \in Seq(S)
         /\ Len(Noise!RemoveAt(s, 1)) = Len(s) - 1
         /\ \A i \in 1..(Len(s) - 1) : Noise!RemoveAt(s, 1)[i] = s[i + 1]
  <1>1. Noise!RemoveAt(s, 1) = SubSeq(s, 1, 0) \o SubSeq(s, 2, Len(s))
    BY DEF Noise!RemoveAt
  <1>2. SubSeq(s, 1, 0) = <<>>
    BY SubSeqEmpty
  <1>3. SubSeq(s, 2, Len(s)) = Tail(s) /\ Tail(s) \in Seq(S)
    BY TailIsSubSeq, HeadTailProperties
  <1>4. Noise!RemoveAt(s, 1) = Tail(s)
    BY <1>1, <1>2, <1>3, ConcatEmptySeq
  <1> QED BY <1>4, HeadTailProperties

Entries == [at : {"queued", "decode"}, frame : 0..Frames]

\* What the types give the proofs below.
LEMMA TypeUse ==
  ASSUME Noise!TypeOK, Noise!NoiseAssumption
  PROVE  /\ Frames \in Nat \ {0} /\ received \in Nat /\ readCounter \in Nat
         /\ inBytes \in Seq(Nat) /\ inBytesChunks \in Seq(Seq(Nat))
         /\ FlattenSeq(inBytesChunks) \in Seq(Nat) /\ FlattenSeq(inBytesChunks) \in Seq(Noise!Units)
         /\ Bytes \in Seq(Noise!Units)
         /\ processChain \in Seq(Entries) /\ emitted \in Seq(1..Frames) /\ Len(emitted) \in Nat
         /\ IsFiniteSet(failed) /\ Cardinality(failed) \in Nat
         /\ DOMAIN processChain = 1..Len(processChain)
         /\ Handled \in Nat /\ Taken \in Nat
  <1>1. Frames \in Nat \ {0}
    BY DEF Noise!NoiseAssumption
  <1>2. Noise!Units \subseteq Nat /\ 1..Frames \subseteq Nat
    BY <1>1 DEF Noise!Units
  <1>3. inBytesChunks \in Seq(Seq(Noise!Units)) /\ inBytes \in Seq(Noise!Units)
    BY DEF Noise!TypeOK
  <1>4. Seq(Noise!Units) \subseteq Seq(Nat)
    BY <1>2, SeqMonotonic, Zenon
  <1>5. inBytesChunks \in Seq(Seq(Nat)) /\ inBytes \in Seq(Nat)
    BY <1>3, <1>4
  <1>6. FlattenSeq(inBytesChunks) \in Seq(Nat) /\ FlattenSeq(inBytesChunks) \in Seq(Noise!Units)
    BY <1>3, <1>5, FlattenType
  <1>7. Bytes \in Seq(Noise!Units)
    BY <1>3, <1>6, ConcatProperties DEF Bytes
  <1>8. received \in Nat /\ readCounter \in Nat
    BY <1>1 DEF Noise!TypeOK
  <1>9. processChain \in Seq(Entries) /\ emitted \in Seq(1..Frames) /\ failed \subseteq 1..Frames
    BY DEF Noise!TypeOK, Entries
  <1>10. IsFiniteSet(1..Frames)
    BY <1>1, FS_Interval
  <1>11. IsFiniteSet(failed) /\ Cardinality(failed) \in Nat
    BY <1>9, <1>10, FS_Subset, FS_CardinalityType
  <1>12. Len(emitted) \in Nat /\ DOMAIN processChain = 1..Len(processChain)
    BY <1>9
  <1>13. Handled \in Nat
    BY <1>11, <1>12 DEF Handled
  <1>14. Taken \in Nat
    BY <1>13 DEF Taken
  <1> QED BY <1>1, <1>5, <1>6, <1>7, <1>8, <1>9, <1>11, <1>12, <1>13, <1>14

\* One turn of the loop, whatever it works on: taken frames are behind it.
LEMMA LoopKeeps ==
  ASSUME Transport, Noise!NoiseAssumption, processChain # <<>>,
         NEW taken \in Nat, NEW b \in Seq(Noise!Units), NEW f \in Seq(Nat),
         NEW done \in Seq(1..Frames),
         2 * taken <= received, b \o f = Span(2 * taken, received - 2 * taken),
         Len(done) + Cardinality(failed) = taken, failed \subseteq 1..taken,
         IF transport THEN taken = readCounter + 1 ELSE readCounter = 0 /\ failed = {},
         Noise!Loop(1, b, done),
         inBytesChunks' \in Seq(Seq(Noise!Units)), FlattenSeq(inBytesChunks') = f,
         received' = received, transport' = transport, failed' = failed, raised' = raised
  PROVE  /\ Transport'
         /\ emitted' # done => ~transport /\ emitted' = Append(done, taken + 1)
              /\ 2 * taken + 2 <= received
  <1> USE DEF Transport
  <1>1. /\ Frames \in Nat \ {0} /\ received \in Nat /\ readCounter \in Nat
        /\ processChain \in Seq(Entries) /\ DOMAIN processChain = 1..Len(processChain)
        /\ Cardinality(failed) \in Nat /\ b \in Seq(Nat) /\ Len(b) \in Nat
    <2>1. Noise!TypeOK
      BY DEF Transport
    <2>2. Noise!Units \subseteq Nat
      BY DEF Noise!Units
    <2>3. b \in Seq(Nat) /\ Len(b) \in Nat
      BY <2>2, SeqMonotonic, LenProperties
    <2> HIDE DEF Transport
    <2> QED BY <2>1, <2>3, TypeUse
  <1>2. received <= 2 * Frames /\ received <= (IF transport THEN 2 * Frames ELSE 2)
    BY <1>1 DEF Noise!TypeOK, AtHand
  <1>3. /\ Noise!RemoveAt(processChain, 1) \in Seq(Entries)
        /\ \A i \in DOMAIN Noise!RemoveAt(processChain, 1) : Noise!RemoveAt(processChain, 1)[i].at # "decode"
    <2>1. \A i \in 2..Len(processChain) : processChain[i].at # "decode"
      <3>1. \A i \in DOMAIN processChain : processChain[i].at = "decode" => i = 1
        BY DEF InLine
      <3>2. \A i \in 2..Len(processChain) : i \in DOMAIN processChain /\ i # 1
        BY <1>1
      <3> QED BY <3>1, <3>2
    <2>2. /\ Noise!RemoveAt(processChain, 1) \in Seq(Entries)
          /\ Len(Noise!RemoveAt(processChain, 1)) = Len(processChain) - 1
          /\ \A i \in 1..(Len(processChain) - 1) : Noise!RemoveAt(processChain, 1)[i] = processChain[i + 1]
      BY <1>1, FirstLeaves
    <2> HIDE DEF Transport
    <2> DEFINE r == Noise!RemoveAt(processChain, 1)
    <2> HIDE DEF r
    <2>3. DOMAIN r = 1..(Len(processChain) - 1)
      BY <2>2 DEF r
    <2>4. \A i \in 1..(Len(processChain) - 1) : i + 1 \in 2..Len(processChain)
      BY <1>1
    <2> QED BY <2>1, <2>2, <2>3, <2>4 DEF r
  <1>4. CASE Len(b) < 2
    <2>1. processChain' = Noise!RemoveAt(processChain, 1) /\ inBytes' = b /\ emitted' = done
            /\ readCounter' = readCounter
      BY <1>4 DEF Noise!Loop
    <2>2. ~Decoding'
      BY <1>3, <2>1 DEF Decoding
    <2>3. Handled' = taken /\ Taken' = taken
      BY <2>1, <2>2 DEF Handled, Taken
    <2>4. Noise!TypeOK'
      BY <1>3, <2>1 DEF Noise!TypeOK, Entries
    <2>5. AtHand'
      BY <2>1, <2>3 DEF AtHand, Bytes
    <2>6. InLine'
      BY <1>3, <2>1, <2>3 DEF InLine
    <2>7. Counted'
      BY <2>1, <2>3 DEF Counted
    <2> QED BY <2>1, <2>4, <2>5, <2>6, <2>7
  <1>5. CASE Len(b) >= 2
    <2>0. received - 2 * taken \in Nat /\ 2 * taken \in Nat
      BY <1>1
    <2>1. /\ b[1] = 2 * taken + 1 /\ b[2] = 2 * taken + 2 /\ received - 2 * taken >= 2
          /\ SubSeq(b, 3, Len(b)) \o f = Span(2 * taken + 2, received - 2 * taken - 2)
      <3> DEFINE a == 2 * taken
                 n == received - 2 * taken
      <3>1. a \in Nat /\ n \in Nat /\ b \o f = Span(a, n)
        BY <2>0
      <3> HIDE DEF a, n, Transport
      <3>2. /\ b[1] = a + 1 /\ b[2] = a + 2 /\ n >= 2
            /\ SubSeq(b, 3, Len(b)) \o f = Span(a + 2, n - 2)
        <4>1. b \in Seq(Nat) /\ f \in Seq(Nat) /\ Len(b) >= 2
          BY <1>1, <1>5
        <4>2. \A x, y \in Nat : b \o f = Span(x, y) /\ Len(b) >= 2
                 => /\ b[1] = x + 1 /\ b[2] = x + 2 /\ y >= 2
                    /\ SubSeq(b, 3, Len(b)) \o f = Span(x + 2, y - 2)
          BY <4>1, SpanLoses, Zenon
        <4> QED BY <3>1, <4>1, <4>2, Zenon
      <3> QED BY <3>2 DEF a, n
    <2>2. Noise!Opened(b) = taken + 1
      <3>1. (2 * taken + 2) \div 2 = taken + 1
        OBVIOUS
      <3>2. 2 * taken + 1 = 2 * (taken + 1) - 1 /\ 2 * taken + 2 = 2 * (taken + 1)
        OBVIOUS
      <3>3. transport => taken + 1 = readCounter + 2
        BY <1>1
      <3> QED BY <2>1, <3>1, <3>2, <3>3 DEF Noise!Opened
    <2>3. inBytes' = SubSeq(b, 3, Len(b)) /\ inBytes' \in Seq(Noise!Units)
      <3>1. inBytes' = SubSeq(b, 3, Len(b))
        BY <1>1, <1>5 DEF Noise!Loop
      <3>2. \A i \in 3..Len(b) : b[i] \in Noise!Units
        BY <1>1
      <3> QED BY <3>1, <3>2, <1>1, SubSeqProperties
    <2>4. /\ 2 * (taken + 1) <= received
          /\ Bytes' = Span(2 * (taken + 1), received - 2 * (taken + 1))
      <3>1. 2 * taken + 2 = 2 * (taken + 1) /\ received - 2 * taken - 2 = received - 2 * (taken + 1)
        BY <1>1
      <3>2. 2 * (taken + 1) <= received
        BY <1>1, <2>1
      <3> QED BY <2>1, <2>3, <3>1, <3>2 DEF Bytes
    <2>5. taken + 1 \in 1..Frames
      BY <1>1, <1>2, <2>4
    <2>6. CASE transport
      <3>1. /\ processChain' = [processChain EXCEPT ![1] = [at |-> "decode", frame |-> taken + 1]]
            /\ readCounter' = readCounter + 1 /\ emitted' = done
        BY <1>1, <1>5, <2>2, <2>6 DEF Noise!Loop
      <3>2. /\ processChain' \in Seq(Entries) /\ processChain' # <<>>
                 /\ DOMAIN processChain' = DOMAIN processChain
            /\ processChain'[1] = [at |-> "decode", frame |-> taken + 1]
            /\ \A i \in DOMAIN processChain : i # 1 => processChain'[i] = processChain[i]
        <4>1. [at |-> "decode", frame |-> taken + 1] \in Entries
          BY <1>1, <2>5 DEF Entries
        <4>2. 1 \in 1..Len(processChain)
          BY <1>1
        <4> HIDE DEF Transport
        <4> QED BY <1>1, <3>1, <4>1, <4>2, ExceptSeq
      <3>3. Decoding'
        BY <3>2 DEF Decoding
      <3>4. Handled' = taken /\ Taken' = taken + 1
        BY <3>1, <3>3 DEF Handled, Taken
      <3>5. readCounter + 1 \in 0..Frames
        BY <1>1, <2>5, <2>6
      <3>6. Noise!TypeOK'
        BY <2>3, <3>1, <3>2, <3>5 DEF Noise!TypeOK, Entries
      <3>7. AtHand'
        BY <1>2, <2>4, <3>4 DEF AtHand
      <3>8. InLine'
        BY <2>6, <3>2, <3>4 DEF InLine
      <3>9. Counted'
        BY <1>1, <2>6, <3>1, <3>4 DEF Counted
      <3> QED BY <3>1, <3>6, <3>7, <3>8, <3>9
    <2>7. CASE ~transport
      <3>1. /\ processChain' = Noise!RemoveAt(processChain, 1)
            /\ readCounter' = readCounter /\ emitted' = Append(done, taken + 1)
        BY <1>1, <1>5, <2>2, <2>7 DEF Noise!Loop
      <3>2. ~Decoding'
        BY <1>3, <3>1 DEF Decoding
      <3>3. emitted' \in Seq(1..Frames) /\ Len(emitted') = Len(done) + 1
        BY <2>5, <3>1, AppendProperties
      <3>4. Handled' = taken + 1 /\ Taken' = taken + 1
        <4>1. Len(done) \in Nat /\ Len(done) + 1 + Cardinality(failed) = taken + 1
          BY <1>1
        <4> QED BY <3>2, <3>3, <4>1 DEF Handled, Taken
      <3>5. Noise!TypeOK'
        BY <1>3, <2>3, <3>1, <3>3 DEF Noise!TypeOK, Entries
      <3>6. AtHand'
        BY <1>2, <2>4, <3>4 DEF AtHand
      <3>7. InLine'
        BY <1>3, <2>7, <3>1, <3>4 DEF InLine
      <3>8. Counted'
        BY <2>7, <3>1 DEF Counted
      <3> QED BY <2>4, <2>7, <3>1, <3>5, <3>6, <3>7, <3>8
    <2> QED BY <2>6, <2>7
  <1> QED BY <1>1, <1>4, <1>5

\* The loop that is decoding has taken one frame more than have been handled.
LEMMA AtWork ==
  ASSUME Transport, Noise!NoiseAssumption, NEW i \in DOMAIN processChain,
         processChain[i].at = "decode"
  PROVE  /\ i = 1 /\ transport /\ processChain[1].frame = Handled + 1 /\ Taken = Handled + 1
         /\ processChain # <<>> /\ Handled + 1 \in 1..Frames /\ 2 * (Handled + 1) <= received
  <1>1. Noise!TypeOK /\ AtHand /\ InLine
    BY DEF Transport
  <1>2. i = 1 /\ transport /\ processChain[i].frame = Handled + 1
    BY <1>1 DEF InLine
  <1>3. Frames \in Nat /\ received \in Nat /\ Handled \in Nat /\ processChain \in Seq(Entries)
    BY <1>1, TypeUse
  <1>4. processChain # <<>>
    BY <1>3
  <1>5. Taken = Handled + 1
    BY <1>2, <1>4 DEF Taken, Decoding
  <1>6. 2 * (Handled + 1) <= received /\ received <= 2 * Frames
    BY <1>1, <1>2, <1>5 DEF AtHand
  <1> QED BY <1>2, <1>3, <1>4, <1>5, <1>6

LEMMA TransportInit == Noise!NoiseAssumption /\ Noise!Init => Transport
  <1> SUFFICES ASSUME Noise!NoiseAssumption, Noise!Init PROVE Transport
    OBVIOUS
  <1>1. /\ received = 0 /\ inBytes = <<>> /\ inBytesChunks = <<>> /\ processChain = <<>>
        /\ transport = FALSE /\ readCounter = 0 /\ emitted = <<>> /\ failed = {} /\ raised = FALSE
    BY DEF Noise!Init
  <1>2. Frames \in Nat \ {0}
    BY DEF Noise!NoiseAssumption
  <1>3. Handled = 0 /\ Taken = 0
    BY <1>1, FS_EmptySet DEF Handled, Taken, Decoding
  <1>4. Bytes = <<>>
    BY <1>1, FlattenEmpty DEF Bytes
  <1>5. Span(0, 0) = <<>>
    <2>1. Span(0, 0) \in Seq(Nat) /\ Len(Span(0, 0)) = 0
      BY SpanSeq
    <2> QED BY <2>1, EmptySeq
  <1>6. Noise!TypeOK
    <2>1. /\ inBytes \in Seq(Noise!Units) /\ inBytesChunks \in Seq(Seq(Noise!Units))
          /\ processChain \in Seq([at : {"queued", "decode"}, frame : 0..Frames])
          /\ emitted \in Seq(1..Frames)
      BY <1>1, EmptySeq, Zenon
    <2>2. received \in 0..(2 * Frames) /\ readCounter \in 0..Frames
      BY <1>1, <1>2
    <2>3. transport \in BOOLEAN /\ failed \subseteq 1..Frames /\ raised \in BOOLEAN
      BY <1>1
    <2> QED BY <2>1, <2>2, <2>3 DEF Noise!TypeOK
  <1>7. AtHand
    BY <1>1, <1>2, <1>3, <1>4, <1>5 DEF AtHand
  <1>8. InLine /\ Counted
    BY <1>1, <1>3 DEF InLine, Counted
  <1> QED BY <1>6, <1>7, <1>8 DEF Transport

LEMMA TransportReceive ==
  ASSUME Transport, Noise!NoiseAssumption, NEW k \in 1..MaxMessage, Noise!Receive(k)
  PROVE  Transport'
  <1>0. Noise!TypeOK /\ AtHand /\ InLine /\ Counted /\ MaxMessage \in Nat
    BY DEF Transport, Noise!NoiseAssumption
  <1> DEFINE message == [i \in 1..k |-> received + i]
  <1>1. /\ received + k <= (IF transport THEN 2 * Frames ELSE 2)
        /\ received' = received + k
        /\ IF inBytes = <<>> /\ inBytesChunks = <<>>
           THEN inBytes' = message /\ inBytesChunks' = inBytesChunks
           ELSE inBytesChunks' = Append(inBytesChunks, message) /\ inBytes' = inBytes
        /\ processChain' = Append(processChain, Noise!Queued)
        /\ transport' = transport /\ readCounter' = readCounter /\ emitted' = emitted
             /\ failed' = failed /\ raised' = raised
    BY DEF Noise!Receive
  <1>2. /\ Frames \in Nat \ {0} /\ received \in Nat /\ processChain \in Seq(Entries)
        /\ FlattenSeq(inBytesChunks) \in Seq(Nat)
        /\ DOMAIN processChain = 1..Len(processChain) /\ Taken \in Nat /\ Handled \in Nat
    BY <1>0, TypeUse
  <1>3. k \in Nat /\ k > 0 /\ received + k <= 2 * Frames
    BY <1>0, <1>1, <1>2
  <1>4. message = Span(received, k)
    BY DEF Span
  <1>5. message \in Seq(Noise!Units)
    <2>1. \A i \in 1..k : received + i \in Noise!Units
      BY <1>2, <1>3 DEF Noise!Units
    <2> QED BY <1>3, <2>1
  <1>6. message \in Seq(Nat) /\ inBytes \in Seq(Nat) /\ inBytesChunks \in Seq(Seq(Nat))
    <2>1. message \in Seq(Nat)
      BY <1>2, <1>3, <1>4, SpanSeq
    <2> QED BY <1>0, <2>1, TypeUse
  <1>7. Bytes' = Bytes \o message
    <2> HIDE DEF message
    <2>1. CASE inBytes = <<>> /\ inBytesChunks = <<>>
      <3>1. inBytes' = message /\ inBytesChunks' = <<>>
        BY <1>1, <2>1
      <3>2. Bytes' = message
        BY <3>1, <1>6, FlattenEmpty, ConcatEmptySeq DEF Bytes
      <3>3. Bytes = <<>>
        BY <2>1, FlattenEmpty DEF Bytes
      <3> QED BY <3>2, <3>3, <1>6, ConcatEmptySeq
    <2>2. CASE ~(inBytes = <<>> /\ inBytesChunks = <<>>)
      <3>1. inBytes' = inBytes /\ inBytesChunks' = Append(inBytesChunks, message)
        BY <1>1, <2>2
      <3>2. FlattenSeq(inBytesChunks') = FlattenSeq(inBytesChunks) \o message
        BY <3>1, <1>6, FlattenAppend
      <3>3. Bytes' = inBytes \o (FlattenSeq(inBytesChunks) \o message)
        BY <3>1, <3>2 DEF Bytes
      <3> DEFINE f == FlattenSeq(inBytesChunks)
      <3>4. f \in Seq(Nat)
        BY <1>2
      <3> HIDE DEF f
      <3>5. (inBytes \o f) \o message = inBytes \o (f \o message)
        <4>1. inBytes \in Seq(Nat) /\ message \in Seq(Nat)
          BY <1>6
        <4>2. \A p, q, r \in Seq(Nat) : (p \o q) \o r = p \o (q \o r)
          BY ConcatAssociative
        <4> QED BY <3>4, <4>1, <4>2, Zenon
      <3> QED BY <3>3, <3>5 DEF Bytes, f
    <2> QED BY <2>1, <2>2
  <1> HIDE DEF message
  <1>8. /\ processChain' \in Seq(Entries) /\ DOMAIN processChain' = 1..(Len(processChain) + 1)
        /\ \A i \in DOMAIN processChain : processChain'[i] = processChain[i]
        /\ processChain'[Len(processChain) + 1].at = "queued"
    <2>1. Noise!Queued \in Entries /\ Noise!Queued.at = "queued"
      BY <1>2 DEF Entries, Noise!Queued
    <2>2. /\ processChain' \in Seq(Entries) /\ Len(processChain') = Len(processChain) + 1
          /\ \A i \in 1..Len(processChain) : processChain'[i] = processChain[i]
          /\ processChain'[Len(processChain) + 1] = Noise!Queued
      BY <1>1, <1>2, <2>1, AppendProperties
    <2>3. DOMAIN processChain' = 1..Len(processChain')
      BY <2>2, LenProperties
    <2> QED BY <1>2, <2>1, <2>2, <2>3
  <1>9. Decoding' <=> Decoding
    <2>1. Len(processChain) \in Nat /\ processChain' # <<>>
      BY <1>2, <1>8
    <2>2. CASE processChain = <<>>
      <3>1. Len(processChain) + 1 = 1
        BY <2>2
      <3> QED BY <1>8, <2>1, <2>2, <3>1 DEF Decoding
    <2>3. CASE processChain # <<>>
      <3>1. 1 \in DOMAIN processChain
        BY <1>2, <2>3
      <3> QED BY <1>8, <2>1, <2>3, <3>1 DEF Decoding
    <2> QED BY <2>2, <2>3
  <1>10. Handled' = Handled /\ Taken' = Taken
    BY <1>1, <1>9 DEF Handled, Taken
  <1>11. Noise!TypeOK'
    <2>1. received' \in 0..(2 * Frames)
      BY <1>1, <1>2, <1>3
    <2>2. inBytes' \in Seq(Noise!Units) /\ inBytesChunks' \in Seq(Seq(Noise!Units))
      <3>1. inBytes \in Seq(Noise!Units) /\ inBytesChunks \in Seq(Seq(Noise!Units))
        BY <1>0 DEF Noise!TypeOK
      <3>2. Append(inBytesChunks, message) \in Seq(Seq(Noise!Units))
        BY <3>1, <1>5, AppendProperties
      <3> QED BY <3>1, <3>2, <1>1, <1>5
    <2> QED BY <1>0, <1>1, <1>8, <2>1, <2>2 DEF Noise!TypeOK, Entries
  <1>12. AtHand'
    <2>1. received' <= (IF transport' THEN 2 * Frames ELSE 2)
      BY <1>1
    <2>2. 2 * Taken <= received' /\ 2 * Taken <= received
      BY <1>0, <1>1, <1>2, <1>3 DEF AtHand
    <2>3. Bytes' = Span(2 * Taken, received' - 2 * Taken)
      <3> DEFINE a == 2 * Taken
                 n == received - 2 * Taken
      <3>1. a \in Nat /\ n \in Nat /\ received = a + n /\ received' - a = n + k
        BY <1>1, <1>2, <1>3, <2>2
      <3>2. Bytes = Span(a, n)
        BY <1>0 DEF AtHand
      <3> HIDE DEF a, n
      <3>3. Bytes' = Span(a, n) \o Span(a + n, k)
        BY <1>4, <1>7, <3>1, <3>2
      <3>4. Bytes' = Span(a, n + k)
        BY <1>3, <3>1, <3>3, SpanJoins
      <3> QED BY <3>1, <3>4 DEF a
    <2> QED BY <1>10, <2>1, <2>2, <2>3 DEF AtHand
  <1>13. InLine'
    <2>1. ASSUME NEW i \in DOMAIN processChain', processChain'[i].at = "decode"
          PROVE  i = 1 /\ transport' /\ processChain'[i].frame = Handled' + 1
      <3>1. Len(processChain) \in Nat
        BY <1>2
      <3>2. i # Len(processChain) + 1
        BY <1>8, <2>1
      <3>3. i \in DOMAIN processChain
        BY <1>2, <1>8, <3>1, <3>2
      <3> QED BY <1>0, <1>1, <1>8, <1>10, <2>1, <3>3 DEF InLine
    <2> QED BY <1>0, <1>1, <1>10, <2>1 DEF InLine
  <1>14. Counted'
    BY <1>0, <1>1, <1>10 DEF Counted
  <1> QED BY <1>11, <1>12, <1>13, <1>14 DEF Transport

LEMMA TransportFinishInit ==
  ASSUME Transport, Noise!NoiseAssumption, Noise!FinishInit
  PROVE  Transport'
  <1>0. Noise!TypeOK /\ AtHand /\ InLine /\ Counted
    BY DEF Transport
  <1>1. /\ ~transport /\ emitted # <<>> /\ transport' = TRUE
        /\ received' = received /\ inBytes' = inBytes /\ inBytesChunks' = inBytesChunks
        /\ processChain' = processChain /\ readCounter' = readCounter /\ emitted' = emitted
             /\ failed' = failed /\ raised' = raised
    BY DEF Noise!FinishInit, Noise!buffer
  <1>2. /\ Frames \in Nat \ {0} /\ received \in Nat /\ Taken \in Nat /\ Handled \in Nat
             /\ processChain \in Seq(Entries)
        /\ emitted \in Seq(1..Frames) /\ DOMAIN processChain = 1..Len(processChain)
    BY <1>0, TypeUse
  <1>3. \A i \in DOMAIN processChain : processChain[i].at # "decode"
    BY <1>0, <1>1 DEF InLine
  <1>4. ~Decoding
    BY <1>2, <1>3 DEF Decoding
  <1>5. Handled' = Handled /\ Taken' = Taken /\ Bytes' = Bytes
    BY <1>1 DEF Handled, Taken, Decoding, Bytes
  <1>6. readCounter = 0 /\ failed = {}
    BY <1>0, <1>1 DEF Counted
  <1>7. Taken = Len(emitted) /\ Len(emitted) > 0 /\ Len(emitted) \in Nat
    <2>1. Taken = Len(emitted)
      BY <1>2, <1>4, <1>6, FS_EmptySet DEF Taken, Handled
    <2> QED BY <1>1, <1>2, <2>1
  <1>8. received <= 2 /\ 2 * Taken <= received
    BY <1>0, <1>1 DEF AtHand
  <1>9. Taken = 1
    BY <1>2, <1>7, <1>8
  <1>10. Noise!TypeOK'
    BY <1>0, <1>1 DEF Noise!TypeOK
  <1>11. AtHand'
    <2>1. received <= 2 * Frames
      BY <1>2, <1>8
    <2> QED BY <1>0, <1>1, <1>5, <2>1 DEF AtHand
  <1>12. InLine'
    BY <1>0, <1>1, <1>3, <1>5 DEF InLine
  <1>13. Counted'
    BY <1>1, <1>5, <1>6, <1>9 DEF Counted
  <1> QED BY <1>10, <1>11, <1>12, <1>13 DEF Transport

LEMMA TransportStart ==
  ASSUME Transport, Noise!NoiseAssumption, NEW i \in DOMAIN processChain, Noise!Start(i)
  PROVE  /\ Transport'
         /\ UNCHANGED <<received, failed, raised>>
         /\ emitted' # emitted => emitted' = Append(emitted, Handled + 1)
              /\ 2 * (Handled + 1) <= received
  <1>0. Noise!TypeOK /\ AtHand /\ InLine /\ Counted
    BY DEF Transport
  <1>1. /\ i = 1 /\ processChain[1].at = "queued" /\ Noise!Loop(1, Bytes, emitted)
        /\ inBytesChunks' = <<>> /\ received' = received /\ transport' = transport
             /\ failed' = failed /\ raised' = raised
    <2>1. Noise!FlattenSeq(inBytesChunks) = FlattenSeq(inBytesChunks)
      BY NoiseLibrary
    <2> QED BY <2>1 DEF Noise!Start, Noise!Turn, Bytes
  <1>2. /\ received \in Nat /\ Bytes \in Seq(Noise!Units) /\ Handled \in Nat
             /\ emitted \in Seq(1..Frames)
    BY <1>0, TypeUse
  <1>3. Taken = Handled
    BY <1>1, <1>2 DEF Taken, Decoding
  <1>4. /\ 2 * Handled <= received /\ Bytes = Span(2 * Handled, received - 2 * Handled)
    BY <1>0, <1>3 DEF AtHand
  <1>5. Bytes \o <<>> = Bytes
    BY <1>2, ConcatEmptySeq
  <1>6. processChain # <<>>
    BY <1>0, TypeUse
  <1>7. FlattenSeq(inBytesChunks') = <<>> /\ inBytesChunks' \in Seq(Seq(Noise!Units))
          /\ <<>> \in Seq(Nat)
    BY <1>1, FlattenEmpty
  <1>8. failed \subseteq 1..Handled /\ Len(emitted) + Cardinality(failed) = Handled
    BY <1>0 DEF InLine, Handled
  <1>9. IF transport THEN Handled = readCounter + 1 ELSE readCounter = 0 /\ failed = {}
    BY <1>0, <1>3 DEF Counted
  <1>10. /\ Transport'
         /\ emitted' # emitted => ~transport /\ emitted' = Append(emitted, Handled + 1)
              /\ 2 * Handled + 2 <= received
    BY <1>1, <1>2, <1>4, <1>5, <1>6, <1>7, <1>8, <1>9, LoopKeeps
  <1>11. 2 * Handled + 2 = 2 * (Handled + 1)
    BY <1>2
  <1> QED BY <1>1, <1>10, <1>11

LEMMA TransportDecoded ==
  ASSUME Transport, Noise!NoiseAssumption, NEW i \in DOMAIN processChain, Noise!Decoded(i)
  PROVE  /\ Transport'
         /\ UNCHANGED <<received, failed, raised>>
         /\ emitted' = Append(emitted, Handled + 1) /\ 2 * (Handled + 1) <= received
  <1>0. Noise!TypeOK /\ AtHand /\ InLine /\ Counted
    BY DEF Transport
  <1>1. /\ processChain[i].at = "decode" /\ Noise!Loop(i, inBytes, Append(emitted, processChain[i].frame))
        /\ inBytesChunks' = inBytesChunks /\ received' = received /\ transport' = transport
             /\ failed' = failed /\ raised' = raised
    BY DEF Noise!Decoded
  <1>2. /\ i = 1 /\ transport /\ processChain[1].frame = Handled + 1 /\ Taken = Handled + 1
        /\ processChain # <<>> /\ Handled + 1 \in 1..Frames /\ 2 * (Handled + 1) <= received
    BY <1>1, AtWork
  <1> DEFINE done == Append(emitted, Handled + 1)
             f == FlattenSeq(inBytesChunks)
  <1>3. /\ received \in Nat /\ f \in Seq(Nat) /\ Handled \in Nat /\ emitted \in Seq(1..Frames)
        /\ Len(emitted) \in Nat /\ Cardinality(failed) \in Nat
    BY <1>0, TypeUse
  <1>4. inBytes \in Seq(Noise!Units) /\ inBytesChunks \in Seq(Seq(Noise!Units))
    BY <1>0 DEF Noise!TypeOK
  <1>5. inBytes \o f = Span(2 * (Handled + 1), received - 2 * (Handled + 1))
    BY <1>0, <1>2 DEF AtHand, Bytes
  <1>6. done \in Seq(1..Frames) /\ Len(done) = Len(emitted) + 1
    BY <1>2, <1>3, AppendProperties
  <1>7. Len(done) + Cardinality(failed) = Handled + 1
    BY <1>3, <1>6 DEF Handled
  <1>8. failed \subseteq 1..(Handled + 1)
    BY <1>0, <1>3 DEF InLine
  <1>9. IF transport THEN Handled + 1 = readCounter + 1 ELSE readCounter = 0 /\ failed = {}
    BY <1>0, <1>2 DEF Counted
  <1>10. Noise!Loop(1, inBytes, done) /\ inBytesChunks' \in Seq(Seq(Noise!Units))
           /\ FlattenSeq(inBytesChunks') = f
    BY <1>1, <1>2, <1>4
  <1>11. Handled + 1 \in Nat
    BY <1>3
  <1> HIDE DEF done, f
  <1>12. Transport' /\ (emitted' # done => ~transport)
    BY <1>1, <1>2, <1>3, <1>4, <1>5, <1>6, <1>7, <1>8, <1>9, <1>10, <1>11, LoopKeeps
  <1> QED BY <1>1, <1>2, <1>12 DEF done

\* A run rejects, whether its frame was given out or not.
LEMMA TransportRejects ==
  ASSUME Transport, Noise!NoiseAssumption, NEW i \in DOMAIN processChain,
         Noise!DecodeFails(i) \/ Noise!ListenerThrows(i)
  PROVE  /\ Transport'
         /\ received' = received /\ 2 * (Handled + 1) <= received
         /\ IF Noise!DecodeFails(i)
            THEN failed' = failed \cup {Handled + 1} /\ UNCHANGED <<emitted, raised>>
            ELSE emitted' = Append(emitted, Handled + 1) /\ failed' = failed /\ raised' = TRUE
  <1>0. Noise!TypeOK /\ AtHand /\ InLine /\ Counted
    BY DEF Transport
  <1>1. /\ processChain[i].at = "decode"
        /\ IF Noise!DecodeFails(i)
           THEN failed' = failed \cup {processChain[i].frame} /\ UNCHANGED <<emitted, raised>>
           ELSE emitted' = Append(emitted, processChain[i].frame) /\ failed' = failed
                  /\ raised' = TRUE
        /\ processChain' = Noise!RemoveAt(processChain, i)
        /\ received' = received /\ inBytes' = inBytes /\ inBytesChunks' = inBytesChunks
        /\ transport' = transport /\ readCounter' = readCounter
    BY DEF Noise!DecodeFails, Noise!ListenerThrows, Noise!buffer
  <1>2. /\ i = 1 /\ transport /\ processChain[1].frame = Handled + 1 /\ Taken = Handled + 1
        /\ processChain # <<>> /\ Handled + 1 \in 1..Frames /\ 2 * (Handled + 1) <= received
    BY <1>1, AtWork
  <1>3. /\ received \in Nat /\ Handled \in Nat /\ Frames \in Nat /\ processChain \in Seq(Entries)
        /\ DOMAIN processChain = 1..Len(processChain) /\ emitted \in Seq(1..Frames)
        /\ Len(emitted) \in Nat /\ Cardinality(failed) \in Nat /\ IsFiniteSet(failed)
    BY <1>0, TypeUse
  <1>4. IF Noise!DecodeFails(i)
        THEN failed' = failed \cup {Handled + 1} /\ UNCHANGED <<emitted, raised>>
        ELSE emitted' = Append(emitted, Handled + 1) /\ failed' = failed /\ raised' = TRUE
    BY <1>1, <1>2
  <1>5. /\ failed' \subseteq 1..(Handled + 1) /\ failed' \subseteq 1..Frames
        /\ emitted' \in Seq(1..Frames) /\ raised' \in BOOLEAN
    <2>1. failed \subseteq 1..Handled /\ failed \subseteq 1..Frames /\ raised \in BOOLEAN
      BY <1>0 DEF InLine, Noise!TypeOK
    <2>2. Append(emitted, Handled + 1) \in Seq(1..Frames)
      BY <1>2, <1>3, AppendProperties
    <2>5. 1..Handled \subseteq 1..(Handled + 1) /\ Handled + 1 \in 1..(Handled + 1)
      BY <1>3
    <2> DEFINE next == Handled + 1
    <2>6. /\ failed \subseteq 1..next /\ failed \subseteq 1..Frames
          /\ next \in 1..next /\ next \in 1..Frames
      BY <1>2, <2>1, <2>5
    <2>7. IF Noise!DecodeFails(i)
          THEN failed' = failed \cup {next} /\ UNCHANGED <<emitted, raised>>
          ELSE emitted' = Append(emitted, next) /\ failed' = failed /\ raised' = TRUE
      BY <1>4
    <2>8. Append(emitted, next) \in Seq(1..Frames)
      BY <2>2
    <2> HIDE DEF next
    <2>9. /\ failed' \subseteq 1..next /\ failed' \subseteq 1..Frames
          /\ emitted' \in Seq(1..Frames) /\ raised' \in BOOLEAN
      <3>1. CASE Noise!DecodeFails(i)
        BY <1>3, <2>1, <2>6, <2>7, <3>1
      <3>2. CASE ~Noise!DecodeFails(i)
        BY <2>1, <2>6, <2>7, <2>8, <3>2
      <3> QED BY <3>1, <3>2
    <2> QED BY <2>9 DEF next
  <1>6. Len(emitted') + Cardinality(failed') = Handled + 1
    <2>1. CASE Noise!DecodeFails(i)
      <3>1. Handled + 1 \notin failed
        BY <1>0, <1>3 DEF InLine
      <3>2. Cardinality(failed') = Cardinality(failed) + 1
        BY <1>3, <1>4, <2>1, <3>1, FS_AddElement
      <3> QED BY <1>3, <1>4, <2>1, <3>2 DEF Handled
    <2>2. CASE ~Noise!DecodeFails(i)
      <3>1. Len(emitted') = Len(emitted) + 1
        BY <1>2, <1>3, <1>4, <2>2, AppendProperties
      <3> QED BY <1>3, <1>4, <2>2, <3>1 DEF Handled
    <2> QED BY <2>1, <2>2
  <1>7. /\ processChain' \in Seq(Entries)
             /\ \A j \in DOMAIN processChain' : processChain'[j].at # "decode"
    <2>1. /\ processChain' \in Seq(Entries) /\ Len(processChain') = Len(processChain) - 1
          /\ \A j \in 1..(Len(processChain) - 1) : processChain'[j] = processChain[j + 1]
      BY <1>1, <1>2, <1>3, FirstLeaves
    <2>2. DOMAIN processChain' = 1..(Len(processChain) - 1)
      BY <2>1, LenProperties
    <2>3. \A j \in 1..(Len(processChain) - 1) : j + 1 \in DOMAIN processChain /\ j + 1 # 1
      BY <1>3
    <2>4. \A j \in DOMAIN processChain : processChain[j].at = "decode" => j = 1
      BY <1>0 DEF InLine
    <2> QED BY <2>1, <2>2, <2>3, <2>4
  <1>8. ~Decoding'
    <2>1. processChain' # <<>> => 1 \in DOMAIN processChain'
      BY <1>7
    <2> QED BY <1>7, <2>1 DEF Decoding
  <1>9. Handled' = Handled + 1 /\ Taken' = Handled + 1 /\ Bytes' = Bytes
    <2>1. Handled' = Handled + 1
      BY <1>6 DEF Handled
    <2> QED BY <1>1, <1>8, <1>3, <2>1 DEF Taken, Bytes
  <1>10. Noise!TypeOK'
    BY <1>0, <1>1, <1>5, <1>7 DEF Noise!TypeOK, Entries
  <1>11. AtHand'
    BY <1>0, <1>1, <1>2, <1>9 DEF AtHand
  <1>12. InLine'
    BY <1>5, <1>7, <1>9 DEF InLine
  <1>13. Counted'
    BY <1>0, <1>1, <1>2, <1>9 DEF Counted
  <1> QED BY <1>1, <1>2, <1>4, <1>10, <1>11, <1>12, <1>13 DEF Transport

LEMMA TransportStutters == ASSUME Transport, UNCHANGED Noise!vars PROVE Transport'
  BY DEF Transport, Noise!vars, Noise!buffer, Noise!TypeOK, AtHand, InLine, Counted, Taken,
         Handled, Decoding, Bytes

LEMMA TransportStep == Noise!NoiseAssumption /\ Transport /\ [Noise!Next]_(Noise!vars) => Transport'
  <1> SUFFICES ASSUME Noise!NoiseAssumption, Transport, [Noise!Next]_(Noise!vars) PROVE Transport'
    OBVIOUS
  <1>1. ASSUME NEW k \in 1..MaxMessage, Noise!Receive(k) PROVE Transport'
    BY <1>1, TransportReceive
  <1>2. CASE Noise!FinishInit
    BY <1>2, TransportFinishInit
  <1>3. ASSUME NEW i \in DOMAIN processChain, Noise!Start(i) PROVE Transport'
    BY <1>3, TransportStart
  <1>4. ASSUME NEW i \in DOMAIN processChain, Noise!Decoded(i) PROVE Transport'
    BY <1>4, TransportDecoded
  <1>5. ASSUME NEW i \in DOMAIN processChain, Noise!DecodeFails(i) \/ Noise!ListenerThrows(i)
        PROVE Transport'
    BY <1>5, TransportRejects
  <1>6. CASE UNCHANGED Noise!vars
    BY <1>6, TransportStutters
  <1> QED BY <1>1, <1>2, <1>3, <1>4, <1>5, <1>6 DEF Noise!Next, Noise!Run

\* The types of the transport hold in every reachable state, for any number of
\* frames, any cut into messages and any number of frames that do not decode.
THEOREM NoiseTransportTypeOK == ASSUME Noise!NoiseAssumption PROVE Noise!Spec => []Noise!TypeOK
  <1>1. Noise!Init => Transport
    BY TransportInit
  <1>2. Transport /\ [Noise!Next]_(Noise!vars) => Transport'
    BY TransportStep
  <1>3. Transport => Noise!TypeOK
    BY DEF Transport
  <1> QED BY <1>1, <1>2, <1>3, PTL DEF Noise!Spec

LEMMA StreamStep ==
  Noise!NoiseAssumption /\ Transport /\ [Noise!Next]_(Noise!vars)
    => [Noise!Stream!Next]_(Noise!Stream!vars)
  <1> SUFFICES ASSUME Noise!NoiseAssumption, Transport, [Noise!Next]_(Noise!vars),
                      ~UNCHANGED <<received \div 2, emitted, failed, raised>>
               PROVE  Noise!Stream!Next
    BY DEF Noise!Stream!vars
  <1>0. Noise!TypeOK /\ Transport'
    BY TransportStep DEF Transport
  <1>1. received \in Nat /\ Frames \in Nat /\ Handled \in Nat
    BY <1>0, TypeUse
  <1>2. Noise!Stream!Due = Handled + 1
    BY NoiseLibrary DEF Noise!Stream!Due, Handled
  <1>3. 2 * (Handled + 1) <= received => Handled + 1 <= received \div 2
    BY <1>1
  <1>4. ASSUME NEW k \in 1..MaxMessage, Noise!Receive(k) PROVE Noise!Stream!Next
    <2>1. received' = received + k /\ emitted' = emitted /\ failed' = failed /\ raised' = raised /\ k \in Nat
      BY <1>4 DEF Noise!Receive, Noise!NoiseAssumption
    <2>2. received' \in 0..(2 * Frames)
      BY <1>0 DEF Transport, Noise!TypeOK
    <2>3. (received \div 2)' \in ((received \div 2) + 1)..Frames
      <3>1. (received \div 2)' # received \div 2
        BY <2>1
      <3> QED BY <1>1, <2>1, <2>2, <3>1
    <2> QED BY <2>1, <2>3 DEF Noise!Stream!Next, Noise!Stream!Arrive
  <1>5. CASE Noise!FinishInit
    BY <1>5 DEF Noise!FinishInit
  <1>6. ASSUME NEW i \in DOMAIN processChain, Noise!Start(i) PROVE Noise!Stream!Next
    <2>1. /\ UNCHANGED <<received, failed, raised>>
          /\ emitted' # emitted => emitted' = Append(emitted, Handled + 1)
               /\ 2 * (Handled + 1) <= received
      BY <1>6, TransportStart
    <2> QED BY <1>2, <1>3, <2>1 DEF Noise!Stream!Next, Noise!Stream!Deliver
  <1>7. ASSUME NEW i \in DOMAIN processChain, Noise!Decoded(i) PROVE Noise!Stream!Next
    <2>1. /\ UNCHANGED <<received, failed, raised>>
          /\ emitted' = Append(emitted, Handled + 1) /\ 2 * (Handled + 1) <= received
      BY <1>7, TransportDecoded
    <2> QED BY <1>2, <1>3, <2>1 DEF Noise!Stream!Next, Noise!Stream!Deliver
  <1>8. ASSUME NEW i \in DOMAIN processChain, Noise!DecodeFails(i) \/ Noise!ListenerThrows(i)
        PROVE Noise!Stream!Next
    <2>1. /\ received' = received /\ 2 * (Handled + 1) <= received
          /\ IF Noise!DecodeFails(i)
             THEN failed' = failed \cup {Handled + 1} /\ UNCHANGED <<emitted, raised>>
             ELSE emitted' = Append(emitted, Handled + 1) /\ failed' = failed /\ raised' = TRUE
      BY <1>8, TransportRejects
    <2> QED
      BY <1>2, <1>3, <2>1 DEF Noise!Stream!Next, Noise!Stream!Refuse, Noise!Stream!Deliver
  <1>9. CASE UNCHANGED Noise!vars
    BY <1>9 DEF Noise!vars
  <1> QED BY <1>4, <1>5, <1>6, <1>7, <1>8, <1>9 DEF Noise!Next, Noise!Run

\* However the stream is cut and however long each decode takes, the transport
\* does only what FrameStream allows: the next frame is given out or refused, once
\* each and in wire order (processData in noise-handler.js).  The delivery of
\* everything that has come is its fairness, which stays with TLC.
THEOREM NoiseTransportInOrder ==
  ASSUME Noise!NoiseAssumption
  PROVE  Noise!Spec => Noise!Stream!Init /\ [][Noise!Stream!Next]_(Noise!Stream!vars)
  <1>1. Noise!Init => Transport /\ Noise!Stream!Init
    <2>1. Noise!Init => (received \div 2) = 0
      BY DEF Noise!Init
    <2> QED BY <2>1, TransportInit DEF Noise!Init, Noise!Stream!Init
  <1>2. Transport /\ [Noise!Next]_(Noise!vars) => Transport'
    BY TransportStep
  <1>3. Transport /\ [Noise!Next]_(Noise!vars) => [Noise!Stream!Next]_(Noise!Stream!vars)
    BY StreamStep
  <1> QED BY <1>1, <1>2, <1>3, PTL DEF Noise!Spec

-----------------------------------------------------------------------------
(* The event buffer. *)

LEMMA EventsLibrary ==
  ASSUME NEW s, NEW e
  PROVE  Events!RemoveFirst(s, e) = RemoveFirst(s, e) /\ Events!ToSet(s) = ToSet(s)
  <1>1. \A S : Events!Min(S) = Min(S)
    BY DEF Events!Min, Min
  <1>2. Events!SelectInSeq(s, LAMBDA v : v = e) = SelectInSeq(s, LAMBDA v : v = e)
    BY <1>1 DEF Events!SelectInSeq, SelectInSeq
  <1>3. Events!RemoveFirst(s, e) = RemoveFirst(s, e)
    BY <1>2 DEF Events!RemoveFirst, RemoveFirst, Events!RemoveAt, RemoveAt
  <1> QED BY <1>3 DEF Events!ToSet, ToSet
\* A sequence without the one place where an element stands.
LEMMA OneLess ==
  ASSUME NEW S, NEW s \in Seq(S), Distinct(s), NEW i \in 1..Len(s)
  PROVE  LET r == RemoveFirst(s, s[i])
         IN  /\ r \in Seq(S) /\ Len(r) = Len(s) - 1 /\ DOMAIN r = 1..(Len(s) - 1)
             /\ \A j \in 1..(Len(s) - 1) : r[j] = s[IF j < i THEN j ELSE j + 1]
  <1> DEFINE r == RemoveFirst(s, s[i])
             a == SubSeq(s, 1, i - 1)
             b == SubSeq(s, i + 1, Len(s))
  <1>1. r = a \o b
    BY RemovedFirst
  <1>2. Len(s) \in Nat /\ i \in Nat /\ i >= 1 /\ i <= Len(s) /\ \A j \in 1..Len(s) : s[j] \in S
    BY LenProperties, ElementOfSeq
  <1>3. a \in Seq(S) /\ Len(a) = i - 1 /\ \A j \in 1..(i - 1) : a[j] = s[j]
    <2>1. \A j \in 1..(i - 1) : s[j] \in S
      BY <1>2
    <2>2. a \in Seq(S) /\ Len(a) = (IF 1 <= i - 1 THEN i - 1 - 1 + 1 ELSE 0)
          /\ \A j \in 1..(i - 1 - 1 + 1) : a[j] = s[1 + j - 1]
      <3>1. i - 1 \in Int /\ 1 \in Int
        BY <1>2
      <3> QED BY <2>1, <3>1, SubSeqProperties
    <2> HIDE DEF a
    <2>3. i - 1 - 1 + 1 = i - 1 /\ \A j \in 1..(i - 1) : 1 + j - 1 = j
      BY <1>2
    <2>4. Len(a) = i - 1
      BY <1>2, <2>2
    <2> QED BY <2>2, <2>3, <2>4
  <1>4. b \in Seq(S) /\ Len(b) = Len(s) - i /\ \A j \in 1..(Len(s) - i) : b[j] = s[i + j]
    <2>1. \A j \in (i + 1)..Len(s) : s[j] \in S
      BY <1>2
    <2>2. b \in Seq(S) /\ Len(b) = (IF i + 1 <= Len(s) THEN Len(s) - (i + 1) + 1 ELSE 0)
          /\ \A j \in 1..(Len(s) - (i + 1) + 1) : b[j] = s[i + 1 + j - 1]
      <3>1. i + 1 \in Int /\ Len(s) \in Int
        BY <1>2
      <3> QED BY <2>1, <3>1, SubSeqProperties
    <2> DEFINE n == Len(s)
               m == Len(b)
    <2> HIDE DEF b
    <2>3. n \in Nat /\ i <= n /\ m = IF i + 1 <= n THEN n - (i + 1) + 1 ELSE 0
      BY <1>2, <2>2
    <2> HIDE DEF n, m
    <2>4. m = n - i /\ n - (i + 1) + 1 = n - i /\ \A j \in 1..(n - i) : i + 1 + j - 1 = i + j
      BY <1>2, <2>3
    <2> QED BY <2>2, <2>4 DEF n, m
  <1> HIDE DEF a, b, r
  <1>5. /\ r \in Seq(S) /\ Len(r) = (i - 1) + (Len(s) - i)
        /\ \A j \in 1..((i - 1) + (Len(s) - i)) : r[j] = IF j <= i - 1 THEN a[j] ELSE b[j - (i - 1)]
    <2>1. /\ r \in Seq(S) /\ Len(r) = Len(a) + Len(b)
          /\ \A j \in 1..(Len(a) + Len(b)) : r[j] = IF j <= Len(a) THEN a[j] ELSE b[j - Len(a)]
      <3>1. a \in Seq(S) /\ b \in Seq(S)
        BY <1>3, <1>4
      <3> QED BY <1>1, <3>1, ConcatProperties
    <2>2. Len(a) = i - 1 /\ Len(b) = Len(s) - i
      BY <1>3, <1>4
    <2> QED BY <2>1, <2>2
  <1>6. (i - 1) + (Len(s) - i) = Len(s) - 1
    BY <1>2
  <1>7. ASSUME NEW j \in 1..(Len(s) - 1) PROVE r[j] = s[IF j < i THEN j ELSE j + 1]
    <2>1. r[j] = IF j <= i - 1 THEN a[j] ELSE b[j - (i - 1)]
      BY <1>5, <1>6
    <2>2. CASE j < i
      <3>1. j \in 1..(i - 1) /\ j <= i - 1
        BY <1>2, <2>2
      <3> QED BY <1>3, <2>1, <2>2, <3>1
    <2>3. CASE ~(j < i)
      <3>1. ~(j <= i - 1) /\ j - (i - 1) \in 1..(Len(s) - i) /\ i + (j - (i - 1)) = j + 1
        BY <1>2, <2>3
      <3>2. b[j - (i - 1)] = s[i + (j - (i - 1))]
        BY <1>4, <3>1
      <3> QED BY <2>1, <2>3, <3>1, <3>2
    <2> QED BY <2>2, <2>3
  <1>8. DOMAIN r = 1..(Len(s) - 1)
    BY <1>5, <1>6, LenProperties
  <1> QED BY <1>5, <1>6, <1>7, <1>8 DEF r

UpsertTypes == Types \cup {None}
Kinds == {"chats.upsert", "chats.update", "chats.delete", "messages.delete"}

\* The variables that hold no event.
Clocks ==
  /\ isBuffering \in BOOLEAN /\ bufferCount \in Nat
  /\ bufferTimeout \in BOOLEAN /\ flushPendingTimeout \in BOOLEAN /\ onlyBufferTimers \in Nat
  /\ fn \in [Functions -> {"idle", "running", "done"}]
  /\ node \in [Nodes -> {"idle", "running", "done"}]
  /\ holding \in {"idle", "buffering", "done"}
  /\ destroyed \in BOOLEAN /\ emits \in 0..MaxEmits /\ failures \in 0..MaxFlushFailures

\* The upserts and their scalar mirror: one entry of a type per key, counted.
Books ==
  /\ order \in Seq(Keys) /\ entryType \in [Keys -> UpsertTypes]
       /\ messageUpsertsType \in UpsertTypes
  /\ Distinct(order) /\ ToSet(order) = {k \in Keys : entryType[k] # None}
  /\ messageUpsertsCount = Len(order)

Others ==
  /\ messageDeletes \subseteq Keys /\ chatUpserts \subseteq Chats /\ chatDeletes \subseteq Chats
  /\ chatUpdates \in [Chats -> {"none", "plain", "waiting"}]

\* Nothing but waiting conditional updates stays in a buffer that is off.
Empty ==
  ~isBuffering => /\ order = <<>> /\ messageDeletes = {} /\ chatUpserts = {} /\ chatDeletes = {}
                  /\ \A c \in Chats : chatUpdates[c] # "plain"

Suspended == reentered \in Seq([key : Keys, type : Types])

Handed ==
  /\ out \in [keys : SUBSET Keys, label : UpsertTypes]
  /\ othersOut \subseteq Kinds \X (Chats \cup Keys)

Buffered == Clocks /\ Books /\ Others /\ Empty /\ Suspended /\ Handed

LEMMA BufferedTypeOK == Buffered => Events!TypeOK
  <1> SUFFICES ASSUME Buffered PROVE Events!TypeOK
    OBVIOUS
  <1>1. messageUpsertsCount \in Nat
    BY LenProperties DEF Buffered, Books
  <1> QED BY <1>1
             DEF Buffered, Clocks, Books, Others, Suspended, Handed, UpsertTypes, Kinds,
                 Events!TypeOK

\* What is handed over has its type.
LEMMA HandTyped ==
  ASSUME NEW keys \in SUBSET Keys, NEW label \in UpsertTypes,
         NEW rest \in SUBSET (Kinds \X (Chats \cup Keys)),
         Events!Hand(keys, label, rest)
  PROVE  Handed'
  BY DEF Events!Hand, Events!Quiet, Handed, UpsertTypes

LEMMA SilentTyped == Events!Silent => Handed'
  BY DEF Events!Silent, Events!Quiet, Handed, UpsertTypes

LEMMA TaggedTyped ==
  ASSUME NEW kind \in Kinds, NEW S \in SUBSET (Chats \cup Keys)
  PROVE  Events!Tagged(kind, S) \in SUBSET (Kinds \X (Chats \cup Keys))
  BY DEF Events!Tagged

\* The keys and the label of a batch that is flushed.
BatchLabel == IF order = <<>> THEN None ELSE entryType[Head(order)]
BatchRest ==
  Events!Tagged("chats.upsert", chatUpserts) \cup Events!Tagged("chats.update", Events!Plain)
    \cup Events!Tagged("chats.delete", chatDeletes) \cup Events!Tagged("messages.delete", messageDeletes)

LEMMA HandAllIs ==
  ASSUME Books, Others
  PROVE  /\ Events!HandAll <=> Events!Hand(ToSet(order), BatchLabel, BatchRest)
         /\ ToSet(order) \in SUBSET Keys /\ BatchLabel \in UpsertTypes
         /\ BatchRest \in SUBSET (Kinds \X (Chats \cup Keys))
  <1>1. Events!HandAll <=> Events!Hand(ToSet(order), BatchLabel, BatchRest)
    BY EventsLibrary DEF Events!HandAll, BatchLabel, BatchRest
  <1>2. ToSet(order) \in SUBSET Keys
    BY DEF Books
  <1>3. BatchLabel \in UpsertTypes
    <2>1. order # <<>> => Head(order) \in Keys
      BY HeadTailProperties DEF Books
    <2> QED BY <2>1 DEF Books, BatchLabel, UpsertTypes
  <1>4. BatchRest \in SUBSET (Kinds \X (Chats \cup Keys))
    <2>1. Events!Plain \subseteq Chats
      BY DEF Events!Plain
    <2>2. /\ Events!Tagged("chats.upsert", chatUpserts) \in SUBSET (Kinds \X (Chats \cup Keys))
          /\ Events!Tagged("chats.update", Events!Plain) \in SUBSET (Kinds \X (Chats \cup Keys))
          /\ Events!Tagged("chats.delete", chatDeletes) \in SUBSET (Kinds \X (Chats \cup Keys))
          /\ Events!Tagged("messages.delete", messageDeletes) \in SUBSET (Kinds \X (Chats \cup Keys))
      BY <2>1 DEF Events!Tagged, Others, Kinds
    <2> QED BY <2>2 DEF BatchRest
  <1> QED BY <1>1, <1>2, <1>3, <1>4

LEMMA HandAllTyped == Books /\ Others /\ Events!HandAll => Handed'
  BY HandAllIs, HandTyped

LEMMA EmptyOrder == ToSet(<<>>) = {} /\ Distinct(<<>>)
  BY DEF ToSet, Distinct

LEMMA NoBooks == Events!NoUpserts => Books' /\ order' = <<>>
  <1> SUFFICES ASSUME Events!NoUpserts PROVE Books' /\ order' = <<>>
    OBVIOUS
  <1>1. order' = <<>> /\ entryType' = [k \in Keys |-> None] /\ messageUpsertsCount' = 0
          /\ messageUpsertsType' = None
    BY DEF Events!NoUpserts
  <1>2. <<>> \in Seq(Keys) /\ Len(<<>>) = 0
    BY EmptySeq
  <1>3. {k \in Keys : entryType'[k] # None} = {}
    BY <1>1
  <1> QED BY <1>1, <1>2, <1>3, EmptyOrder DEF Books, UpsertTypes

\* flush() empties the buffer but for the waiting updates.
LEMMA FlushKeeps ==
  ASSUME Books, Others, Empty, isBuffering \in BOOLEAN, bufferCount \in Nat,
         bufferTimeout \in BOOLEAN, flushPendingTimeout \in BOOLEAN, Events!Flush
  PROVE  /\ Books' /\ Others' /\ Empty' /\ Handed' /\ isBuffering' = FALSE
         /\ bufferCount' \in Nat /\ bufferTimeout' \in BOOLEAN /\ flushPendingTimeout' \in BOOLEAN
  <1>1. CASE ~isBuffering
    <2>1. /\ isBuffering' = isBuffering /\ bufferCount' = bufferCount
               /\ UNCHANGED <<bufferTimeout, flushPendingTimeout>>
          /\ order' = order /\ entryType' = entryType /\ messageUpsertsCount' = messageUpsertsCount
          /\ messageUpsertsType' = messageUpsertsType /\ messageDeletes' = messageDeletes
          /\ chatUpserts' = chatUpserts /\ chatUpdates' = chatUpdates /\ chatDeletes' = chatDeletes
          /\ Events!Silent
      BY <1>1 DEF Events!Flush, Events!flags, Events!upserts, Events!others, Events!chats
    <2>2. Handed'
      BY <2>1, SilentTyped
    <2> QED BY <1>1, <2>1, <2>2 DEF Books, Others, Empty
  <1>2. CASE isBuffering
    <2>1. /\ isBuffering' = FALSE /\ bufferCount' = 0 /\ bufferTimeout' = FALSE
               /\ flushPendingTimeout' = FALSE
          /\ Events!HandAll /\ Events!SwapData
      BY <1>2 DEF Events!Flush
    <2>2. Handed'
      BY <2>1, HandAllTyped
    <2>3. Books' /\ order' = <<>>
      BY <2>1, NoBooks DEF Events!SwapData
    <2>4. Others' /\ Empty'
      BY <2>1, <2>3 DEF Events!SwapData, Others, Empty
    <2> QED BY <2>1, <2>2, <2>3, <2>4
  <1> QED BY <1>1, <1>2

\* append() of one message.
LEMMA AppendKeeps ==
  ASSUME Events!EventBufferAssumption, Books, NEW k \in Keys, NEW t \in Types,
         Events!AppendUpsert(k, t)
  PROVE  /\ Books'
         /\ entryType'[k] # None
         /\ entryType' = [entryType EXCEPT ![k] = IF t = "notify" \/ entryType[k] = "notify" THEN "notify" ELSE t]
  <1> DEFINE type == IF t = "notify" \/ entryType[k] = "notify" THEN "notify" ELSE t
  <1>1. None \notin Types /\ None # "notify"
    BY DEF Events!EventBufferAssumption
  <1>2. type \in Types
    BY <1>1 DEF Books, UpsertTypes
  <1>3. /\ entryType' = [entryType EXCEPT ![k] = type]
        /\ order' = (IF entryType[k] # None THEN order ELSE Append(order, k))
        /\ messageUpsertsCount' = (IF entryType[k] # None THEN messageUpsertsCount ELSE messageUpsertsCount + 1)
        /\ messageUpsertsType' = IF entryType[k] # None \/ messageUpsertsType # None THEN messageUpsertsType ELSE type
    BY DEF Events!AppendUpsert
  <1> HIDE DEF type
  <1>4. entryType' \in [Keys -> UpsertTypes] /\ messageUpsertsType' \in UpsertTypes
          /\ entryType'[k] # None
        /\ \A x \in Keys : x # k => entryType'[x] = entryType[x]
    BY <1>1, <1>2, <1>3 DEF Books, UpsertTypes
  <1>5. CASE entryType[k] # None
    <2>1. {x \in Keys : entryType'[x] # None} = {x \in Keys : entryType[x] # None}
      BY <1>4, <1>5
    <2> QED BY <1>3, <1>4, <1>5, <2>1 DEF Books, type
  <1>6. CASE entryType[k] = None
    <2>1. order' = Append(order, k) /\ messageUpsertsCount' = messageUpsertsCount + 1
      BY <1>3, <1>6
    <2>2. /\ order' \in Seq(Keys) /\ Len(order') = Len(order) + 1
          /\ \A i \in 1..Len(order) : order'[i] = order[i]
          /\ order'[Len(order) + 1] = k /\ Len(order) \in Nat
          /\ DOMAIN order = 1..Len(order)
      BY <2>1, AppendProperties, LenProperties DEF Books
    <2>3. DOMAIN order' = 1..(Len(order) + 1)
      BY <2>2, LenProperties
    <2>4. \A i \in 1..Len(order) : order[i] # k
      <3>1. k \notin ToSet(order)
        BY <1>6 DEF Books
      <3> QED BY <3>1, <2>2 DEF ToSet
    <2>5. Distinct(order')
      <3>1. ASSUME NEW i \in 1..(Len(order) + 1), NEW j \in 1..(Len(order) + 1),
                   order'[i] = order'[j] PROVE i = j
        <4>1. CASE i \in 1..Len(order) /\ j \in 1..Len(order)
          BY <2>2, <3>1, <4>1 DEF Books, Distinct
        <4>2. CASE i \in 1..Len(order) /\ j = Len(order) + 1
          BY <2>2, <2>4, <3>1, <4>2
        <4>3. CASE i = Len(order) + 1 /\ j \in 1..Len(order)
          BY <2>2, <2>4, <3>1, <4>3
        <4>4. CASE i = Len(order) + 1 /\ j = Len(order) + 1
          BY <4>4
        <4> QED BY <2>2, <4>1, <4>2, <4>3, <4>4
      <3> QED BY <2>3, <3>1 DEF Distinct
    <2>6. ToSet(order') = ToSet(order) \cup {k}
      <3>1. \A i \in DOMAIN order' : order'[i] \in ToSet(order) \cup {k}
        BY <2>2, <2>3 DEF ToSet
      <3>2. \A i \in DOMAIN order : order[i] \in ToSet(order')
        BY <2>2, <2>3 DEF ToSet
      <3>3. k \in ToSet(order')
        BY <2>2, <2>3 DEF ToSet
      <3> QED BY <3>1, <3>2, <3>3 DEF ToSet
    <2>7. {x \in Keys : entryType'[x] # None} = {x \in Keys : entryType[x] # None} \cup {k}
      BY <1>4
    <2>8. messageUpsertsCount' = Len(order')
      BY <2>1, <2>2 DEF Books
    <2> QED BY <1>3, <1>4, <2>2, <2>5, <2>6, <2>7, <2>8 DEF Books, type
  <1> QED BY <1>5, <1>6

\* A delete takes its message out of a buffer that has it.
LEMMA RemoveKeeps ==
  ASSUME Books, NEW k \in Keys, entryType[k] # None,
         order' = Events!RemoveFirst(order, k), entryType' = [entryType EXCEPT ![k] = None],
         messageUpsertsCount' = messageUpsertsCount - 1, messageUpsertsType' = messageUpsertsType
  PROVE  /\ Books'
         /\ Len(order') = Len(order) - 1
         /\ \E i \in 1..Len(order) :
              order[i] = k /\ \A j \in 1..(Len(order) - 1) : order'[j] = order[IF j < i THEN j ELSE j + 1]
  <1>1. DOMAIN order = 1..Len(order) /\ Len(order) \in Nat
    BY LenProperties DEF Books
  <1>2. PICK i \in 1..Len(order) : order[i] = k
    <2>1. k \in ToSet(order)
      BY DEF Books
    <2> QED BY <1>1, <2>1 DEF ToSet
  <1>3. /\ order' \in Seq(Keys) /\ Len(order') = Len(order) - 1
             /\ DOMAIN order' = 1..(Len(order) - 1)
        /\ \A j \in 1..(Len(order) - 1) : order'[j] = order[IF j < i THEN j ELSE j + 1]
    <2>1. order' = RemoveFirst(order, order[i])
      BY <1>2, EventsLibrary
    <2> QED BY <2>1, OneLess DEF Books
  <1>4. \A x, y \in 1..Len(order) : order[x] = order[y] => x = y
    BY <1>1 DEF Books, Distinct
  <1>5. Distinct(order')
    <2>1. ASSUME NEW x \in 1..(Len(order) - 1), NEW y \in 1..(Len(order) - 1),
                 order'[x] = order'[y] PROVE x = y
      <3> DEFINE u == IF x < i THEN x ELSE x + 1
                 v == IF y < i THEN y ELSE y + 1
      <3>1. u \in 1..Len(order) /\ v \in 1..Len(order)
        BY <1>1
      <3>2. order[u] = order[v]
        BY <1>3, <2>1
      <3>3. u = v
        BY <1>4, <3>1, <3>2
      <3> QED BY <1>1, <3>3
    <2> QED BY <1>3, <2>1 DEF Distinct
  <1>6. ToSet(order') = ToSet(order) \ {k}
    <2>1. ASSUME NEW j \in 1..(Len(order) - 1) PROVE order'[j] \in ToSet(order) \ {k}
      <3> DEFINE u == IF j < i THEN j ELSE j + 1
      <3>1. u \in 1..Len(order) /\ u # i
        BY <1>1
      <3>2. order'[j] = order[u]
        BY <1>3
      <3> HIDE DEF u
      <3>3. order[u] # order[i]
        BY <1>4, <3>1
      <3> QED BY <1>1, <1>2, <3>1, <3>2, <3>3 DEF ToSet
    <2>2. ASSUME NEW u \in 1..Len(order), order[u] # k PROVE order[u] \in ToSet(order')
      <3> DEFINE j == IF u < i THEN u ELSE u - 1
      <3>1. j \in 1..(Len(order) - 1) /\ (IF j < i THEN j ELSE j + 1) = u
        <4>1. u # i
          BY <1>2, <2>2
        <4> QED BY <1>1, <4>1
      <3> HIDE DEF j
      <3>2. order'[j] = order[u]
        BY <1>3, <3>1
      <3> QED BY <1>3, <3>1, <3>2 DEF ToSet
    <2> QED BY <1>1, <1>3, <2>1, <2>2 DEF ToSet
  <1>7. {x \in Keys : entryType'[x] # None} = {x \in Keys : entryType[x] # None} \ {k}
    BY DEF Books
  <1>8. entryType' \in [Keys -> UpsertTypes] /\ messageUpsertsType' \in UpsertTypes
    BY DEF Books, UpsertTypes
  <1>9. messageUpsertsCount' = Len(order')
    BY <1>3 DEF Books
  <1> QED BY <1>2, <1>3, <1>5, <1>6, <1>7, <1>8, <1>9 DEF Books

LEMMA SameUpserts == Books /\ UNCHANGED Events!upserts => Books'
  BY DEF Books, Events!upserts

LEMMA SameOthers == Others /\ UNCHANGED Events!others => Others'
  BY DEF Others, Events!others, Events!chats

LEMMA SameEmpty ==
  ASSUME Empty, isBuffering \in BOOLEAN, isBuffering' = isBuffering \/ isBuffering' = TRUE,
         UNCHANGED Events!upserts, UNCHANGED Events!others
  PROVE  Empty'
  BY DEF Empty, Events!upserts, Events!others, Events!chats

\* buffer() only counts.
LEMMA BufferKeeps ==
  ASSUME bufferCount \in Nat, Events!Buffer
  PROVE  isBuffering' = TRUE /\ bufferCount' \in Nat /\ bufferTimeout' = TRUE
  BY DEF Events!Buffer

LEMMA StartFunctionBuffered ==
  ASSUME Buffered, NEW f \in Functions, Events!StartFunction(f)
  PROVE  Buffered'
  <1>0. Clocks /\ Books /\ Others /\ Empty /\ Suspended
    BY DEF Buffered
  <1>1. isBuffering' = TRUE /\ bufferCount' \in Nat /\ bufferTimeout' = TRUE
    BY <1>0, BufferKeeps DEF Clocks, Events!StartFunction
  <1>2. UNCHANGED Events!upserts /\ UNCHANGED Events!others /\ reentered' = reentered
          /\ Events!Silent
    BY DEF Events!StartFunction, Events!upserts, Events!others, Events!chats, Events!bounds
  <1>3. Clocks'
    BY <1>0, <1>1
       DEF Events!StartFunction, Clocks, Events!upserts, Events!others, Events!chats,
           Events!bounds
  <1>4. Books' /\ Others' /\ Empty' /\ Handed' /\ Suspended'
    BY <1>0, <1>1, <1>2, SameUpserts, SameOthers, SameEmpty, SilentTyped DEF Clocks, Suspended
  <1> QED BY <1>3, <1>4 DEF Buffered

LEMMA StartNodeBuffered ==
  ASSUME Buffered, NEW n \in Nodes, Events!StartNode(n)
  PROVE  Buffered'
  <1>0. Clocks /\ Books /\ Others /\ Empty /\ Suspended
    BY DEF Buffered
  <1>1. isBuffering' = TRUE /\ bufferCount' \in Nat /\ bufferTimeout' = TRUE
    BY <1>0, BufferKeeps DEF Clocks, Events!StartNode
  <1>2. UNCHANGED Events!upserts /\ UNCHANGED Events!others /\ reentered' = reentered
          /\ Events!Silent
    BY DEF Events!StartNode, Events!upserts, Events!others, Events!chats, Events!bounds
  <1>3. Clocks'
    BY <1>0, <1>1
       DEF Events!StartNode, Clocks, Events!upserts, Events!others, Events!chats, Events!bounds
  <1>4. Books' /\ Others' /\ Empty' /\ Handed' /\ Suspended'
    BY <1>0, <1>1, <1>2, SameUpserts, SameOthers, SameEmpty, SilentTyped DEF Clocks, Suspended
  <1> QED BY <1>3, <1>4 DEF Buffered

LEMMA StartLoginBuffered ==
  ASSUME Buffered, Events!StartLogin
  PROVE  Buffered'
  <1>0. Clocks /\ Books /\ Others /\ Empty /\ Suspended
    BY DEF Buffered
  <1>1. isBuffering' = TRUE /\ bufferCount' \in Nat /\ bufferTimeout' = TRUE
    BY <1>0, BufferKeeps DEF Clocks, Events!StartLogin
  <1>2. UNCHANGED Events!upserts /\ UNCHANGED Events!others /\ reentered' = reentered
          /\ Events!Silent
    BY DEF Events!StartLogin, Events!upserts, Events!others, Events!chats, Events!bounds
  <1>3. Clocks'
    BY <1>0, <1>1
       DEF Events!StartLogin, Clocks, Events!upserts, Events!others, Events!chats, Events!bounds
  <1>4. Books' /\ Others' /\ Empty' /\ Handed' /\ Suspended'
    BY <1>0, <1>1, <1>2, SameUpserts, SameOthers, SameEmpty, SilentTyped DEF Clocks, Suspended
  <1> QED BY <1>3, <1>4 DEF Buffered

LEMMA EndFunctionBuffered ==
  ASSUME Buffered, NEW f \in Functions, Events!EndFunction(f)
  PROVE  Buffered'
  <1>0. Clocks /\ Books /\ Others /\ Empty /\ Suspended
    BY DEF Buffered
  <1>1. bufferCount' \in Nat /\ onlyBufferTimers' \in Nat /\ flushPendingTimeout' \in BOOLEAN
    BY <1>0 DEF Events!EndFunction, Clocks
  <1>2. /\ UNCHANGED Events!upserts /\ UNCHANGED Events!others /\ reentered' = reentered
             /\ Events!Silent
        /\ isBuffering' = isBuffering
    BY DEF Events!EndFunction, Events!upserts, Events!others, Events!chats, Events!bounds
  <1>3. Clocks'
    BY <1>0, <1>1
       DEF Events!EndFunction, Clocks, Events!upserts, Events!others, Events!chats, Events!bounds
  <1>4. Books' /\ Others' /\ Empty' /\ Handed' /\ Suspended'
    BY <1>0, <1>2, SameUpserts, SameOthers, SameEmpty, SilentTyped DEF Clocks, Suspended
  <1> QED BY <1>3, <1>4 DEF Buffered

\* Every place that flushes: a flush, or one that throws, or nothing to flush.
FlushOrNot ==
  \/ Events!Flush /\ failures' = failures
  \/ /\ UNCHANGED Events!flags /\ UNCHANGED Events!upserts /\ UNCHANGED Events!others
     /\ Events!Silent /\ bufferTimeout' \in BOOLEAN /\ flushPendingTimeout' \in BOOLEAN
     /\ failures' \in 0..MaxFlushFailures

MayFlush ==
  /\ FlushOrNot
  /\ reentered' = reentered /\ destroyed' = destroyed /\ emits' = emits

LEMMA FailureCounted ==
  ASSUME Clocks, Events!EventBufferAssumption, Events!FlushThrows
  PROVE  /\ UNCHANGED Events!flags /\ UNCHANGED Events!upserts /\ UNCHANGED Events!others
              /\ Events!Silent
         /\ failures' \in 0..MaxFlushFailures
  BY DEF Clocks, Events!EventBufferAssumption, Events!FlushThrows

LEMMA MayFlushBuffered ==
  ASSUME Buffered, MayFlush, onlyBufferTimers' \in Nat,
         fn' \in [Functions -> {"idle", "running", "done"}],
         node' \in [Nodes -> {"idle", "running", "done"}],
         holding' \in {"idle", "buffering", "done"}
  PROVE  Buffered'
  <1>0. Clocks /\ Books /\ Others /\ Empty /\ Suspended
    BY DEF Buffered
  <1>1. CASE Events!Flush /\ failures' = failures
    <2>1. /\ Books' /\ Others' /\ Empty' /\ Handed' /\ isBuffering' = FALSE
          /\ bufferCount' \in Nat /\ bufferTimeout' \in BOOLEAN /\ flushPendingTimeout' \in BOOLEAN
      BY <1>0, <1>1, FlushKeeps DEF Clocks
    <2>2. Clocks' /\ Suspended'
      BY <1>0, <1>1, <2>1 DEF Clocks, Suspended, MayFlush
    <2> QED BY <2>1, <2>2 DEF Buffered
  <1>2. CASE ~(Events!Flush /\ failures' = failures)
    <2>1. /\ UNCHANGED Events!flags /\ UNCHANGED Events!upserts /\ UNCHANGED Events!others
               /\ Events!Silent
          /\ bufferTimeout' \in BOOLEAN /\ flushPendingTimeout' \in BOOLEAN
          /\ failures' \in 0..MaxFlushFailures
          /\ reentered' = reentered /\ destroyed' = destroyed /\ emits' = emits
      BY <1>2 DEF MayFlush, FlushOrNot
    <2>2. Books' /\ Others' /\ Empty' /\ Handed' /\ Suspended'
      BY <1>0, <2>1, SameUpserts, SameOthers, SameEmpty, SilentTyped
         DEF Clocks, Suspended, Events!flags
    <2>3. Clocks'
      BY <1>0, <2>1 DEF Clocks, Events!flags
    <2> QED BY <2>2, <2>3 DEF Buffered
  <1> QED BY <1>1, <1>2

LEMMA EndNodeFlushes ==
  ASSUME Clocks, Events!EventBufferAssumption, NEW n \in Nodes, Events!EndNode(n)
  PROVE  /\ MayFlush /\ onlyBufferTimers' \in Nat /\ Events!Idle
         /\ fn' \in [Functions -> {"idle", "running", "done"}]
         /\ node' \in [Nodes -> {"idle", "running", "done"}]
         /\ holding' \in {"idle", "buffering", "done"}
  <1>1. /\ fn' \in [Functions -> {"idle", "running", "done"}]
        /\ node' \in [Nodes -> {"idle", "running", "done"}]
        /\ holding' \in {"idle", "buffering", "done"}
        /\ onlyBufferTimers' \in Nat /\ Events!Idle
        /\ reentered' = reentered /\ destroyed' = destroyed /\ emits' = emits
    BY DEF Events!EndNode, Clocks
  <1>2. FlushOrNot
    BY FailureCounted DEF FlushOrNot, Events!EndNode, Clocks, Events!NotDue
  <1> QED BY <1>1, <1>2 DEF MayFlush

LEMMA OfflineDoneFlushes ==
  ASSUME Clocks, Events!EventBufferAssumption, Events!OfflineDone
  PROVE  /\ MayFlush /\ onlyBufferTimers' \in Nat /\ Events!Idle
         /\ fn' \in [Functions -> {"idle", "running", "done"}]
         /\ node' \in [Nodes -> {"idle", "running", "done"}]
         /\ holding' \in {"idle", "buffering", "done"}
  <1>1. /\ fn' \in [Functions -> {"idle", "running", "done"}]
        /\ node' \in [Nodes -> {"idle", "running", "done"}]
        /\ holding' \in {"idle", "buffering", "done"}
        /\ onlyBufferTimers' \in Nat /\ Events!Idle
        /\ reentered' = reentered /\ destroyed' = destroyed /\ emits' = emits
    BY DEF Events!OfflineDone, Clocks, Events!bounds
  <1>2. FlushOrNot
    BY FailureCounted DEF FlushOrNot, Events!OfflineDone, Clocks, Events!NotDue, Events!bounds
  <1> QED BY <1>1, <1>2 DEF MayFlush

LEMMA BufferTimeoutFlushes ==
  ASSUME Clocks, Events!EventBufferAssumption, Events!BufferTimeout
  PROVE  /\ MayFlush /\ onlyBufferTimers' \in Nat /\ Events!Idle
         /\ fn' \in [Functions -> {"idle", "running", "done"}]
         /\ node' \in [Nodes -> {"idle", "running", "done"}]
         /\ holding' \in {"idle", "buffering", "done"}
  <1>1. /\ fn' \in [Functions -> {"idle", "running", "done"}]
        /\ node' \in [Nodes -> {"idle", "running", "done"}]
        /\ holding' \in {"idle", "buffering", "done"}
        /\ onlyBufferTimers' \in Nat /\ Events!Idle
        /\ reentered' = reentered /\ destroyed' = destroyed /\ emits' = emits
    BY DEF Events!BufferTimeout, Clocks, Events!users
  <1>2. FlushOrNot
    BY FailureCounted DEF FlushOrNot, Events!BufferTimeout, Clocks, Events!NotDue, Events!users
  <1> QED BY <1>1, <1>2 DEF MayFlush

LEMMA FlushPendingTimeoutFlushes ==
  ASSUME Clocks, Events!EventBufferAssumption, Events!FlushPendingTimeout
  PROVE  /\ MayFlush /\ onlyBufferTimers' \in Nat /\ Events!Idle
         /\ fn' \in [Functions -> {"idle", "running", "done"}]
         /\ node' \in [Nodes -> {"idle", "running", "done"}]
         /\ holding' \in {"idle", "buffering", "done"}
  <1>1. /\ fn' \in [Functions -> {"idle", "running", "done"}]
        /\ node' \in [Nodes -> {"idle", "running", "done"}]
        /\ holding' \in {"idle", "buffering", "done"}
        /\ onlyBufferTimers' \in Nat /\ Events!Idle
        /\ reentered' = reentered /\ destroyed' = destroyed /\ emits' = emits
    BY DEF Events!FlushPendingTimeout, Clocks, Events!users
  <1>2. FlushOrNot
    BY FailureCounted
       DEF FlushOrNot, Events!FlushPendingTimeout, Clocks, Events!NotDue, Events!users
  <1> QED BY <1>1, <1>2 DEF MayFlush

LEMMA OnlyBufferTimeoutFlushes ==
  ASSUME Clocks, Events!EventBufferAssumption, Events!OnlyBufferTimeout
  PROVE  /\ MayFlush /\ onlyBufferTimers' \in Nat /\ Events!Idle
         /\ fn' \in [Functions -> {"idle", "running", "done"}]
         /\ node' \in [Nodes -> {"idle", "running", "done"}]
         /\ holding' \in {"idle", "buffering", "done"}
  <1>1. /\ fn' \in [Functions -> {"idle", "running", "done"}]
        /\ node' \in [Nodes -> {"idle", "running", "done"}]
        /\ holding' \in {"idle", "buffering", "done"}
        /\ onlyBufferTimers' \in Nat /\ Events!Idle
        /\ reentered' = reentered /\ destroyed' = destroyed /\ emits' = emits
    BY DEF Events!OnlyBufferTimeout, Clocks, Events!users
  <1>2. FlushOrNot
    BY FailureCounted
       DEF FlushOrNot, Events!OnlyBufferTimeout, Clocks, Events!NotDue, Events!users
  <1> QED BY <1>1, <1>2 DEF MayFlush

\* What follows the gate.
LEMMA AfterGateKeeps ==
  ASSUME Events!EventBufferAssumption, Books, Empty, NEW k \in Keys, NEW t \in Types,
         Events!AfterGate(k, t),
         isBuffering' = isBuffering, UNCHANGED Events!others
  PROVE  Books' /\ Empty' /\ Handed'
  <1>1. CASE isBuffering
    <2>1. Events!AppendUpsert(k, t) /\ Events!Silent
      BY <1>1 DEF Events!AfterGate
    <2> QED BY <1>1, <2>1, AppendKeeps, SilentTyped DEF Empty
  <1>2. CASE ~isBuffering
    <2>1. Events!Hand({k}, t, {}) /\ UNCHANGED Events!upserts
      BY <1>2 DEF Events!AfterGate
    <2>2. Handed'
      <3>1. {k} \in SUBSET Keys /\ t \in UpsertTypes /\ {} \in SUBSET (Kinds \X (Chats \cup Keys))
        BY DEF UpsertTypes
      <3> QED BY <2>1, <3>1, HandTyped
    <2>3. Books'
      BY <2>1, SameUpserts
    <2>4. Empty'
      BY <2>1 DEF Empty, Events!upserts, Events!others, Events!chats
    <2> QED BY <2>2, <2>3, <2>4
  <1> QED BY <1>1, <1>2

LEMMA EmitUpsertBuffered ==
  ASSUME Buffered, Events!EventBufferAssumption, NEW k \in Arriving, NEW t \in Types,
         Events!EmitUpsert(k, t)
  PROVE  Buffered'
  <1>0. Clocks /\ Books /\ Others /\ Empty /\ Suspended /\ k \in Keys
    BY DEF Buffered, Events!EventBufferAssumption
  <1>1. /\ emits' = emits + 1 /\ emits < MaxEmits /\ isBuffering' = isBuffering
        /\ UNCHANGED Events!others
    BY DEF Events!EmitUpsert, Events!flags, Events!timers, Events!others, Events!chats,
           Events!users
  <1>2. Clocks'
    BY <1>0, <1>1
       DEF Clocks, Events!EmitUpsert, Events!EventBufferAssumption, Events!flags, Events!timers,
           Events!others, Events!chats, Events!users
  <1>3. Others'
    BY <1>0, <1>1, SameOthers
  <1>4. CASE Events!Mismatch(t)
    <2>1. /\ Events!Hand(ToSet(order), messageUpsertsType, {}) /\ Events!NoUpserts
          /\ reentered' = <<[key |-> k, type |-> t]>> \o reentered
      BY <1>4, EventsLibrary DEF Events!EmitUpsert
    <2>2. Books' /\ order' = <<>>
      BY <2>1, NoBooks
    <2>3. Handed'
      <3>1. ToSet(order) \in SUBSET Keys /\ messageUpsertsType \in UpsertTypes
            /\ {} \in SUBSET (Kinds \X (Chats \cup Keys))
        BY <1>0 DEF Books
      <3> QED BY <2>1, <3>1, HandTyped
    <2>4. Suspended'
      <3>1. <<[key |-> k, type |-> t]>> \in Seq([key : Keys, type : Types])
        BY <1>0
      <3> QED BY <1>0, <2>1, <3>1, ConcatProperties DEF Suspended
    <2>5. Empty'
      BY <1>0, <1>1, <2>2 DEF Empty, Events!others, Events!chats
    <2> QED BY <1>2, <1>3, <2>2, <2>3, <2>4, <2>5 DEF Buffered
  <1>5. CASE ~Events!Mismatch(t)
    <2>1. Events!AfterGate(k, t) /\ reentered' = reentered
      BY <1>5 DEF Events!EmitUpsert
    <2>2. Books' /\ Empty' /\ Handed'
      BY <1>0, <1>1, <2>1, AfterGateKeeps
    <2> QED BY <1>0, <1>2, <1>3, <2>1, <2>2 DEF Buffered, Suspended
  <1> QED BY <1>4, <1>5

LEMMA ResumeEmitBuffered ==
  ASSUME Buffered, Events!EventBufferAssumption, Events!ResumeEmit
  PROVE  Buffered'
  <1>0. Clocks /\ Books /\ Others /\ Empty /\ Suspended
    BY DEF Buffered
  <1>1. /\ reentered # <<>> /\ Events!AfterGate(Head(reentered).key, Head(reentered).type)
        /\ reentered' = Tail(reentered) /\ isBuffering' = isBuffering /\ UNCHANGED Events!others
    BY DEF Events!ResumeEmit, Events!flags, Events!timers, Events!others, Events!chats,
           Events!users, Events!bounds
  <1>2. Clocks' /\ Others'
    BY <1>0, <1>1, SameOthers
       DEF Clocks, Events!ResumeEmit, Events!flags, Events!timers, Events!others, Events!chats,
           Events!users, Events!bounds
  <1>3. Head(reentered) \in [key : Keys, type : Types] /\ Suspended'
    BY <1>0, <1>1, HeadTailProperties DEF Suspended
  <1>4. Head(reentered).key \in Keys /\ Head(reentered).type \in Types
    BY <1>3
  <1>5. Books' /\ Empty' /\ Handed'
    BY <1>0, <1>1, <1>4, AfterGateKeeps
  <1> QED BY <1>2, <1>3, <1>5 DEF Buffered

LEMMA EmitDeleteBuffered ==
  ASSUME Buffered, Events!EventBufferAssumption, NEW k \in Keys, Events!EmitDelete(k)
  PROVE  Buffered'
  <1>0. Clocks /\ Books /\ Others /\ Empty /\ Suspended
    BY DEF Buffered
  <1>1. reentered' = reentered /\ isBuffering' = isBuffering /\ UNCHANGED Events!chats
    BY DEF Events!EmitDelete, Events!flags, Events!timers, Events!upserts, Events!chats,
           Events!users, Events!bounds
  <1>2. Clocks' /\ Suspended'
    BY <1>0, <1>1
       DEF Clocks, Suspended, Events!EmitDelete, Events!flags, Events!timers, Events!upserts,
           Events!chats, Events!users, Events!bounds
  <1>3. CASE isBuffering
    <2>1. /\ messageDeletes' = messageDeletes \cup {k} /\ Events!Silent
          /\ IF entryType[k] = None THEN UNCHANGED Events!upserts
             ELSE /\ entryType' = [entryType EXCEPT ![k] = None]
                  /\ order' = Events!RemoveFirst(order, k)
                  /\ messageUpsertsCount' = messageUpsertsCount - 1
                  /\ messageUpsertsType' = messageUpsertsType
      BY <1>3 DEF Events!EmitDelete
    <2>2. Books'
      BY <1>0, <2>1, SameUpserts, RemoveKeeps
    <2>3. Others' /\ Empty'
      BY <1>0, <1>1, <1>3, <2>1 DEF Others, Empty, Events!chats
    <2> QED BY <1>2, <2>1, <2>2, <2>3, SilentTyped DEF Buffered
  <1>4. CASE ~isBuffering
    <2>1. /\ Events!Hand({}, None, Events!Tagged("messages.delete", {k}))
          /\ UNCHANGED Events!upserts /\ messageDeletes' = messageDeletes
      BY <1>4 DEF Events!EmitDelete
    <2>2. Handed'
      <3>1. /\ {} \in SUBSET Keys /\ None \in UpsertTypes
            /\ Events!Tagged("messages.delete", {k}) \in SUBSET (Kinds \X (Chats \cup Keys))
        BY DEF UpsertTypes, Events!Tagged, Kinds
      <3> QED BY <2>1, <3>1, HandTyped
    <2>3. Books' /\ Others' /\ Empty'
      BY <1>0, <1>1, <2>1, SameUpserts, SameOthers, SameEmpty DEF Clocks, Events!others
    <2> QED BY <1>2, <2>2, <2>3 DEF Buffered
  <1> QED BY <1>3, <1>4

\* The chat events share their frame.
LEMMA ChatBuffered ==
  ASSUME Buffered, Events!ChatFrame,
         isBuffering \/ UNCHANGED Events!chats,
         Handed', Others'
  PROVE  Buffered'
  <1>0. Clocks /\ Books /\ Others /\ Empty /\ Suspended
    BY DEF Buffered
  <1>1. reentered' = reentered /\ isBuffering' = isBuffering /\ UNCHANGED Events!upserts
        /\ messageDeletes' = messageDeletes
    BY DEF Events!ChatFrame, Events!flags
  <1>2. Clocks' /\ Suspended'
    BY <1>0, <1>1
       DEF Clocks, Suspended, Events!ChatFrame, Events!flags, Events!timers, Events!upserts,
           Events!users, Events!bounds
  <1>3. Books'
    BY <1>0, <1>1, SameUpserts
  <1>4. Empty'
    BY <1>0, <1>1 DEF Empty, Events!upserts, Events!chats
  <1> QED BY <1>2, <1>3, <1>4 DEF Buffered

LEMMA ChatPassesTyped ==
  ASSUME NEW kind \in Kinds, NEW c \in Chats, Events!ChatPasses(kind, c)
  PROVE  Handed' /\ UNCHANGED Events!chats
  <1>1. /\ {} \in SUBSET Keys /\ None \in UpsertTypes
        /\ Events!Tagged(kind, {c}) \in SUBSET (Kinds \X (Chats \cup Keys))
    BY DEF UpsertTypes, Events!Tagged
  <1> QED BY <1>1, HandTyped DEF Events!ChatPasses

LEMMA ChatStepBuffered ==
  ASSUME Buffered, NEW c \in Chats, Events!ChatStep(c)
  PROVE  Buffered'
  <1>0. Others /\ Events!ChatFrame /\ messageDeletes' = messageDeletes
    BY DEF Buffered, Events!ChatStep, Events!EmitChatUpsert, Events!EmitChatUpdate,
           Events!EmitConditional, Events!EmitChatDelete, Events!ChatFrame
  <1>1. CASE isBuffering
    <2>1. Events!Silent /\ Others'
      BY <1>0, <1>1
         DEF Others, Events!ChatStep, Events!EmitChatUpsert, Events!EmitChatUpdate,
             Events!EmitConditional, Events!EmitChatDelete, Events!ChatFrame
    <2> QED BY <1>0, <1>1, <2>1, SilentTyped, ChatBuffered
  <1>2. CASE ~isBuffering
    <2>1. \E kind \in Kinds : Events!ChatPasses(kind, c)
      BY <1>2
         DEF Kinds, Events!ChatStep, Events!EmitChatUpsert, Events!EmitChatUpdate,
             Events!EmitConditional, Events!EmitChatDelete
    <2>2. Handed' /\ UNCHANGED Events!chats
      BY <2>1, ChatPassesTyped
    <2>3. Others'
      BY <1>0, <2>2, SameOthers DEF Events!others
    <2> QED BY <1>0, <2>2, <2>3, ChatBuffered
  <1> QED BY <1>1, <1>2

LEMMA EndBuffered ==
  ASSUME Buffered, Events!End
  PROVE  Buffered' /\ order' = <<>>
  <1>0. Clocks /\ Books /\ Others /\ Empty /\ Suspended
    BY DEF Buffered
  <1>1. Books' /\ order' = <<>>
    BY NoBooks DEF Events!End
  <1>2. Handed'
    BY <1>0, HandAllTyped, SilentTyped DEF Events!End
  <1>3. Clocks' /\ Suspended'
    BY <1>0 DEF Clocks, Suspended, Events!End, Events!users, Events!bounds
  <1>4. Others' /\ Empty'
    BY <1>1 DEF Others, Empty, Events!End
  <1> QED BY <1>1, <1>2, <1>3, <1>4 DEF Buffered

LEMMA BufferedInit == Events!EventBufferAssumption /\ Events!Init => Buffered
  <1> SUFFICES ASSUME Events!EventBufferAssumption, Events!Init PROVE Buffered
    OBVIOUS
  <1>1. Clocks /\ Others /\ Empty
    <2>1. /\ fn \in [Functions -> {"idle", "running", "done"}]
          /\ node \in [Nodes -> {"idle", "running", "done"}]
      BY DEF Events!Init
    <2>2. emits \in 0..MaxEmits /\ failures \in 0..MaxFlushFailures /\ bufferCount \in Nat
            /\ onlyBufferTimers \in Nat
      BY DEF Events!Init, Events!EventBufferAssumption
    <2>3. /\ isBuffering \in BOOLEAN /\ bufferTimeout \in BOOLEAN /\ flushPendingTimeout \in BOOLEAN
          /\ destroyed \in BOOLEAN /\ holding \in {"idle", "buffering", "done"}
      BY DEF Events!Init
    <2>4. Clocks
      BY <2>1, <2>2, <2>3 DEF Clocks
    <2>5. Others /\ Empty
      BY DEF Events!Init, Others, Empty
    <2> QED BY <2>4, <2>5
  <1>2. Books
    <2>1. order = <<>> /\ <<>> \in Seq(Keys) /\ Len(<<>>) = 0
      BY EmptySeq DEF Events!Init
    <2>2. {k \in Keys : entryType[k] # None} = {}
      BY DEF Events!Init
    <2> QED BY <2>1, <2>2, EmptyOrder DEF Events!Init, Books, UpsertTypes
  <1>3. Suspended
    BY EmptySeq DEF Events!Init, Suspended
  <1>4. Handed
    BY DEF Events!Init, Handed, Events!Quiet, UpsertTypes
  <1> QED BY <1>1, <1>2, <1>3, <1>4 DEF Buffered

LEMMA BufferedStep == Events!EventBufferAssumption /\ Buffered /\ [Events!Next]_(Events!vars)
                        => Buffered'
  <1> SUFFICES ASSUME Events!EventBufferAssumption, Buffered, [Events!Next]_(Events!vars)
               PROVE  Buffered'
    OBVIOUS
  <1>0. Clocks
    BY DEF Buffered
  <1>1. ASSUME NEW f \in Functions, Events!FunctionStep(f) PROVE Buffered'
    BY <1>1, StartFunctionBuffered, EndFunctionBuffered DEF Events!FunctionStep
  <1>2. ASSUME NEW n \in Nodes, Events!NodeStep(n) PROVE Buffered'
    BY <1>0, <1>2, StartNodeBuffered, EndNodeFlushes, MayFlushBuffered DEF Events!NodeStep
  <1>3. CASE Events!StartLogin \/ Events!OfflineDone
    BY <1>0, <1>3, StartLoginBuffered, OfflineDoneFlushes, MayFlushBuffered
  <1>4. CASE Events!Timers
    BY <1>0, <1>4, BufferTimeoutFlushes, FlushPendingTimeoutFlushes, OnlyBufferTimeoutFlushes,
       MayFlushBuffered
       DEF Events!Timers
  <1>5. ASSUME NEW k \in Arriving, NEW t \in Types, Events!EmitUpsert(k, t) PROVE Buffered'
    BY <1>5, EmitUpsertBuffered
  <1>6. ASSUME NEW k \in Keys, Events!EmitDelete(k) PROVE Buffered'
    BY <1>6, EmitDeleteBuffered
  <1>7. ASSUME NEW c \in Chats, Events!ChatStep(c) PROVE Buffered'
    BY <1>7, ChatStepBuffered
  <1>8. CASE Events!ResumeEmit
    BY <1>8, ResumeEmitBuffered
  <1>9. CASE Events!End
    BY <1>9, EndBuffered
  <1>10. CASE UNCHANGED Events!vars
    BY <1>10
       DEF Events!vars, Events!flags, Events!timers, Events!upserts, Events!others, Events!chats,
           Events!users, Events!bounds, Buffered, Clocks, Books, Others, Empty, Suspended, Handed
  <1> QED BY <1>1, <1>2, <1>3, <1>4, <1>5, <1>6, <1>7, <1>8, <1>9, <1>10 DEF Events!Next

\* The types of the event buffer hold in every reachable state.
THEOREM EventBufferTypeOK == ASSUME Events!EventBufferAssumption
  PROVE  Events!Spec => []Events!TypeOK
  <1>1. Events!Init => Buffered
    BY BufferedInit
  <1>2. Buffered /\ [Events!Next]_(Events!vars) => Buffered'
    BY BufferedStep
  <1>3. Buffered => Events!TypeOK
    BY BufferedTypeOK
  <1> QED BY <1>1, <1>2, <1>3, PTL DEF Events!Spec

\* What OthersDelivered says of a step.
Delivered ==
  /\ \A k \in messageDeletes \ messageDeletes' : <<"messages.delete", k>> \in othersOut' \/ destroyed
  /\ \A c \in chatUpserts \ chatUpserts' :
       <<"chats.upsert", c>> \in othersOut' \/ c \in chatDeletes' \/ destroyed
  /\ \A c \in chatDeletes \ chatDeletes' :
       \/ <<"chats.delete", c>> \in othersOut' \/ destroyed
       \/ c \in chatUpserts' \/ chatUpdates'[c] # "none"
  /\ \A c \in Events!Plain :
       \/ chatUpdates'[c] # "none" \/ <<"chats.update", c>> \in othersOut' \/ destroyed
       \/ c \in chatUpserts' \cup chatDeletes'
  /\ \A c \in Events!Waiting : \/ chatUpdates'[c] = "waiting" \/ destroyed'
                               \/ c \in chatUpserts' \cup chatDeletes'

LEMMA NothingLost == UNCHANGED Events!others => Delivered
  BY DEF Events!others, Events!chats, Delivered, Events!Plain, Events!Waiting

\* A batch has everything that leaves.
LEMMA BatchHasAll ==
  ASSUME Books, Others, Events!HandAll, ~destroyed
  PROVE  /\ \A k \in messageDeletes : <<"messages.delete", k>> \in othersOut'
         /\ \A c \in chatUpserts : <<"chats.upsert", c>> \in othersOut'
         /\ \A c \in chatDeletes : <<"chats.delete", c>> \in othersOut'
         /\ \A c \in Events!Plain : <<"chats.update", c>> \in othersOut'
  <1>1. othersOut' = BatchRest
    BY HandAllIs DEF Events!Hand
  <1> QED BY <1>1 DEF BatchRest, Events!Tagged

LEMMA FlushDelivers ==
  ASSUME Books, Others, Events!Flush
  PROVE  Delivered
  <1>1. CASE ~isBuffering
    BY <1>1, NothingLost DEF Events!Flush
  <1>2. CASE isBuffering
    <2>1. Events!HandAll /\ Events!SwapData
      BY <1>2 DEF Events!Flush
    <2>2. \A c \in Events!Waiting : chatUpdates'[c] = "waiting"
      BY <2>1 DEF Events!SwapData, Events!Waiting
    <2> QED BY <2>1, <2>2, BatchHasAll DEF Delivered
  <1> QED BY <1>1, <1>2

LEMMA EndDelivers ==
  ASSUME Books, Others, Empty, Events!End
  PROVE  Delivered
  <1>1. ~destroyed /\ destroyed' = TRUE
    BY DEF Events!End
  <1>2. CASE isBuffering
    <2>1. Events!HandAll
      BY <1>2 DEF Events!End
    <2> QED BY <1>1, <2>1, BatchHasAll DEF Delivered
  <1>3. CASE ~isBuffering
    <2>1. messageDeletes = {} /\ chatUpserts = {} /\ chatDeletes = {} /\ Events!Plain = {}
      BY <1>3 DEF Empty, Events!Plain
    <2> QED BY <1>1, <2>1 DEF Delivered
  <1> QED BY <1>2, <1>3

LEMMA ChatDelivers ==
  ASSUME Others, NEW c \in Chats, Events!ChatStep(c)
  PROVE  Delivered
  <1>0. Events!ChatFrame /\ messageDeletes' = messageDeletes
    BY DEF Events!ChatStep, Events!EmitChatUpsert, Events!EmitChatUpdate, Events!EmitConditional,
           Events!EmitChatDelete, Events!ChatFrame
  <1>1. CASE ~isBuffering
    <2>1. UNCHANGED Events!chats
      BY <1>1
         DEF Events!ChatStep, Events!EmitChatUpsert, Events!EmitChatUpdate,
             Events!EmitConditional, Events!EmitChatDelete, Events!ChatPasses
    <2> QED BY <1>0, <2>1, NothingLost DEF Events!others
  <1>2. CASE isBuffering
    <2>1. CASE Events!EmitChatUpsert(c)
      <3>1. /\ chatUpserts' = chatUpserts \cup {c} /\ chatDeletes' = chatDeletes \ {c}
            /\ chatUpdates' = [chatUpdates EXCEPT ![c] = "none"]
        BY <1>2, <2>1 DEF Events!EmitChatUpsert
      <3> QED BY <1>0, <3>1 DEF Delivered, Others, Events!Plain, Events!Waiting
    <2>2. CASE Events!EmitChatUpdate(c)
      <3>1. /\ chatDeletes' = chatDeletes \ {c} /\ chatUpserts' = chatUpserts
            /\ chatUpdates' = IF c \in chatUpserts \cup Events!Waiting THEN chatUpdates
                              ELSE [chatUpdates EXCEPT ![c] = "plain"]
        BY <1>2, <2>2 DEF Events!EmitChatUpdate
      <3>2. c \in chatUpserts' \/ chatUpdates'[c] # "none"
        BY <3>1 DEF Others, Events!Waiting
      <3>3. \A x \in Chats : x # c => chatUpdates'[x] = chatUpdates[x]
        BY <3>1 DEF Others
      <3>4. c \in Events!Waiting => chatUpdates'[c] = "waiting"
        BY <3>1 DEF Events!Waiting
      <3> QED BY <1>0, <3>1, <3>2, <3>3, <3>4 DEF Delivered, Others, Events!Plain, Events!Waiting
    <2>3. CASE Events!EmitConditional(c)
      <3>1. /\ chatDeletes' = chatDeletes \ {c} /\ chatUpserts' = chatUpserts
            /\ chatUpdates' = IF c \in chatUpserts THEN chatUpdates
                              ELSE [chatUpdates EXCEPT ![c] = "waiting"]
        BY <1>2, <2>3 DEF Events!EmitConditional
      <3>2. c \in chatUpserts' \/ chatUpdates'[c] = "waiting"
        BY <3>1 DEF Others
      <3>3. \A x \in Chats : x # c => chatUpdates'[x] = chatUpdates[x]
        BY <3>1 DEF Others
      <3> QED BY <1>0, <3>1, <3>2, <3>3 DEF Delivered, Others, Events!Plain, Events!Waiting
    <2>4. CASE Events!EmitChatDelete(c)
      <3>1. /\ chatDeletes' = chatDeletes \cup {c} /\ chatUpserts' = chatUpserts \ {c}
            /\ chatUpdates' = [chatUpdates EXCEPT ![c] = "none"]
        BY <1>2, <2>4 DEF Events!EmitChatDelete
      <3> QED BY <1>0, <3>1 DEF Delivered, Others, Events!Plain, Events!Waiting
    <2> QED BY <2>1, <2>2, <2>3, <2>4 DEF Events!ChatStep
  <1> QED BY <1>1, <1>2

LEMMA MayFlushDelivers == Books /\ Others /\ MayFlush => Delivered
  BY FlushDelivers, NothingLost DEF MayFlush, FlushOrNot

LEMMA DeliversStep ==
  Events!EventBufferAssumption /\ Buffered /\ [Events!Next]_(Events!vars)
    => [Delivered]_(Events!vars)
  <1> SUFFICES ASSUME Events!EventBufferAssumption, Buffered, Events!Next PROVE Delivered
    OBVIOUS
  <1>0. Clocks /\ Books /\ Others /\ Empty
    BY DEF Buffered
  <1>1. ASSUME NEW f \in Functions, Events!FunctionStep(f) PROVE Delivered
    BY <1>1, NothingLost DEF Events!FunctionStep, Events!StartFunction, Events!EndFunction
  <1>2. ASSUME NEW n \in Nodes, Events!NodeStep(n) PROVE Delivered
    BY <1>0, <1>2, NothingLost, EndNodeFlushes, MayFlushDelivers
       DEF Events!NodeStep, Events!StartNode
  <1>3. CASE Events!StartLogin \/ Events!OfflineDone
    BY <1>0, <1>3, NothingLost, OfflineDoneFlushes, MayFlushDelivers DEF Events!StartLogin
  <1>4. CASE Events!Timers
    BY <1>0, <1>4, BufferTimeoutFlushes, FlushPendingTimeoutFlushes, OnlyBufferTimeoutFlushes,
       MayFlushDelivers
       DEF Events!Timers
  <1>5. ASSUME NEW k \in Arriving, NEW t \in Types, Events!EmitUpsert(k, t) PROVE Delivered
    BY <1>5, NothingLost DEF Events!EmitUpsert
  <1>6. ASSUME NEW k \in Keys, Events!EmitDelete(k) PROVE Delivered
    BY <1>6 DEF Events!EmitDelete, Events!chats, Delivered, Events!Plain, Events!Waiting
  <1>7. ASSUME NEW c \in Chats, Events!ChatStep(c) PROVE Delivered
    BY <1>0, <1>7, ChatDelivers
  <1>8. CASE Events!ResumeEmit
    BY <1>8, NothingLost DEF Events!ResumeEmit
  <1>9. CASE Events!End
    BY <1>0, <1>9, EndDelivers
  <1> QED BY <1>1, <1>2, <1>3, <1>4, <1>5, <1>6, <1>7, <1>8, <1>9 DEF Events!Next

\* Chats, their updates and deletes, and deletes of messages leave the buffer only
\* to the listeners or to what supersedes them (append and flush).
THEOREM EventBufferOthersDelivered ==
  ASSUME Events!EventBufferAssumption PROVE Events!Spec => Events!OthersDelivered
  <1>1. Events!Init => Buffered
    BY BufferedInit
  <1>2. Buffered /\ [Events!Next]_(Events!vars) => Buffered'
    BY BufferedStep
  <1>3. Buffered /\ [Events!Next]_(Events!vars) => [Delivered]_(Events!vars)
    BY DeliversStep
  <1> QED BY <1>1, <1>2, <1>3, PTL DEF Events!Spec, Events!OthersDelivered, Delivered

\* Only the first entry can differ from the scalar type.
Uniform ==
  /\ order # <<>> => messageUpsertsType # None
  /\ \A i \in 2..Len(order) : entryType[order[i]] = messageUpsertsType

\* While an emit is suspended, what its listeners have buffered goes with it.
Nested ==
  reentered # <<>> => /\ Len(reentered) = 1
                      /\ messageUpsertsType \in {None, Head(reentered).type}
                      /\ \A k \in Keys : entryType[k] \in {None, Head(reentered).type}

Ordered == Buffered /\ Uniform /\ Nested

\* The type of the messages that go in next, when there are some already.
Fits(t) == order # <<>> => messageUpsertsType = t

\* What the books give the proofs below.
LEMMA BooksUse ==
  ASSUME Books
  PROVE  /\ Len(order) \in Nat /\ DOMAIN order = 1..Len(order)
         /\ \A i \in 1..Len(order) : order[i] \in Keys /\ entryType[order[i]] # None
         /\ \A k \in Keys : entryType[k] # None => \E i \in 1..Len(order) : order[i] = k
         /\ order # <<>> <=> Len(order) > 0
         /\ order # <<>> => Head(order) = order[1] /\ 1 \in 1..Len(order)
         /\ messageUpsertsCount > 0 <=> order # <<>>
         /\ \A i \in 1..Len(order), j \in 1..Len(order) : order[i] = order[j] => i = j
  <1>1. /\ Len(order) \in Nat /\ DOMAIN order = 1..Len(order)
        /\ \A i \in 1..Len(order) : order[i] \in Keys
    BY LenProperties, ElementOfSeq DEF Books
  <1>2. order # <<>> <=> Len(order) > 0
    BY EmptySeq DEF Books
  <1>3. order # <<>> => Head(order) = order[1]
    BY DEF Books
  <1>4. \A i \in 1..Len(order) : entryType[order[i]] # None
    <2>1. \A i \in 1..Len(order) : order[i] \in ToSet(order)
      BY <1>1 DEF ToSet
    <2> QED BY <2>1 DEF Books
  <1>5. \A k \in Keys : entryType[k] # None => \E i \in 1..Len(order) : order[i] = k
    <2>1. \A k \in Keys : entryType[k] # None => k \in ToSet(order)
      BY DEF Books
    <2> QED BY <1>1, <2>1 DEF ToSet
  <1>6. \A i \in 1..Len(order), j \in 1..Len(order) : order[i] = order[j] => i = j
    BY <1>1 DEF Books, Distinct
  <1>7. messageUpsertsCount > 0 <=> order # <<>>
    BY <1>1, <1>2 DEF Books
  <1> QED BY <1>1, <1>2, <1>3, <1>4, <1>5, <1>6, <1>7

\* A message of the type of the buffer keeps its type there.
LEMMA AppendKeepsType ==
  ASSUME Events!EventBufferAssumption, Books, Uniform, NEW k \in Keys, NEW t \in Types, Fits(t),
         Events!MirrorStale => entryType[k] \in {None, t},
         Events!AppendUpsert(k, t)
  PROVE  /\ entryType[k] \in {None, t} /\ entryType' = [entryType EXCEPT ![k] = t]
  <1>1. None \notin Types /\ None # "notify"
    BY DEF Events!EventBufferAssumption
  <1>2. entryType[k] \in {None, t}
    <2>1. SUFFICES ASSUME entryType[k] # None, ~Events!MirrorStale PROVE entryType[k] = t
      OBVIOUS
    <2>2. PICK i \in 1..Len(order) : order[i] = k
      BY <2>1, BooksUse
    <2>3. order # <<>> /\ Head(order) = order[1] /\ messageUpsertsType = t
      BY <2>2, BooksUse DEF Fits
    <2>4. CASE i = 1
      BY <2>1, <2>2, <2>3, <2>4 DEF Events!MirrorStale
    <2>5. CASE i # 1
      <3>1. i \in 2..Len(order)
        BY <2>5, BooksUse
      <3> QED BY <2>2, <2>3, <3>1 DEF Uniform
    <2> QED BY <2>4, <2>5
  <1>3. entryType' = [entryType EXCEPT ![k] = IF t = "notify" \/ entryType[k] = "notify" THEN "notify" ELSE t]
    BY AppendKeeps
  <1> QED BY <1>1, <1>2, <1>3

\* append() keeps the entries behind the first of the type of the mirror.
LEMMA AppendUniform ==
  ASSUME Events!EventBufferAssumption, Books, Uniform, NEW k \in Keys, NEW t \in Types, Fits(t),
         Events!AppendUpsert(k, t)
  PROVE  /\ Uniform'
         /\ messageUpsertsType' \in {messageUpsertsType, t}
  <1> DEFINE type == IF t = "notify" \/ entryType[k] = "notify" THEN "notify" ELSE t
  <1>1. None \notin Types /\ None # "notify"
    BY DEF Events!EventBufferAssumption
  <1>2. Books' /\ entryType' = [entryType EXCEPT ![k] = type]
    BY AppendKeeps
  <1>3. /\ order' = (IF entryType[k] # None THEN order ELSE Append(order, k))
        /\ messageUpsertsType' = IF entryType[k] # None \/ messageUpsertsType # None THEN messageUpsertsType ELSE type
    BY DEF Events!AppendUpsert
  <1>4. entryType' \in [Keys -> UpsertTypes] /\ entryType'[k] = type /\ type # None
        /\ \A x \in Keys : x # k => entryType'[x] = entryType[x]
    BY <1>1, <1>2 DEF Books
  <1>5. entryType[k] = t => type = t
    OBVIOUS
  <1>6. entryType[k] = None => type = t
    BY <1>1
  <1> HIDE DEF type
  <1>7. CASE entryType[k] # None
    <2>1. order' = order /\ messageUpsertsType' = messageUpsertsType /\ order # <<>>
            /\ messageUpsertsType = t
      BY <1>3, <1>7, BooksUse DEF Fits
    <2>2. ASSUME NEW i \in 2..Len(order) PROVE entryType'[order[i]] = t
      <3>1. order[i] \in Keys /\ entryType[order[i]] = t
        BY <2>1, BooksUse DEF Uniform
      <3> QED BY <1>4, <1>5, <3>1
    <2>3. messageUpsertsType # None
      BY <1>1, <2>1
    <2> QED BY <2>1, <2>2, <2>3 DEF Uniform
  <1>8. CASE entryType[k] = None
    <2>1. /\ order' = Append(order, k) /\ Len(order') = Len(order) + 1
          /\ \A i \in 1..Len(order) : order'[i] = order[i]
          /\ order'[Len(order) + 1] = k
      BY <1>3, <1>8, AppendProperties DEF Books
    <2>2. type = t /\ (order # <<>> => messageUpsertsType = t)
      BY <1>6, <1>8 DEF Fits
    <2>3. messageUpsertsType' = (IF messageUpsertsType # None THEN messageUpsertsType ELSE t)
            /\ messageUpsertsType' # None
      BY <1>1, <1>3, <1>8, <2>2
    <2>4. ASSUME NEW i \in 2..(Len(order) + 1) PROVE entryType'[order'[i]] = messageUpsertsType'
      <3>1. Len(order) \in Nat /\ order # <<>>
        BY BooksUse
      <3>2. messageUpsertsType' = t
        BY <1>1, <2>2, <2>3, <3>1
      <3>3. CASE i = Len(order) + 1
        BY <1>4, <2>1, <2>2, <3>2, <3>3
      <3>4. CASE i # Len(order) + 1
        <4>1. i \in 2..Len(order) /\ i \in 1..Len(order)
          BY <3>1, <3>4
        <4>2. order'[i] = order[i] /\ order[i] \in Keys /\ order[i] # k
          BY <1>8, <2>1, <4>1, BooksUse
        <4> QED BY <1>4, <2>2, <3>1, <3>2, <4>1, <4>2 DEF Uniform
      <3> QED BY <3>3, <3>4
    <2> QED BY <2>1, <2>3, <2>4 DEF Uniform
  <1> QED BY <1>7, <1>8

LEMMA NoUniform == Events!NoUpserts => Uniform' /\ messageUpsertsType' = None
                     /\ \A k \in Keys : entryType'[k] = None
  BY DEF Events!NoUpserts, Uniform

LEMMA SameUniform == Uniform /\ UNCHANGED Events!upserts => Uniform'
  BY DEF Uniform, Events!upserts

LEMMA SameNested == Nested /\ UNCHANGED Events!upserts /\ reentered' = reentered => Nested'
  BY DEF Nested, Events!upserts

LEMMA IdleNested == Events!Idle /\ reentered' = reentered => Nested'
  BY DEF Nested, Events!Idle

LEMMA FlushUniform == Uniform /\ MayFlush => Uniform'
  BY NoUniform, SameUniform DEF MayFlush, FlushOrNot, Events!Flush, Events!SwapData

\* What the gate lets through fits what is buffered.
LEMMA EmitFits ==
  ASSUME ~ListenerAnyType, Ordered, NEW k \in Arriving, NEW t \in Types, Events!EmitUpsert(k, t)
  PROVE  /\ ~Events!Mismatch(t) => Fits(t)
         /\ Events!Mismatch(t) => reentered = <<>> /\ order # <<>>
         /\ reentered # <<>> => Head(reentered).type = t
  <1>1. Books /\ Uniform /\ Nested
    BY DEF Ordered, Buffered
  <1>2. reentered # <<>> => Head(reentered).type = t
    BY DEF Events!EmitUpsert, Events!MayEmit, Events!Idle
  <1>3. Events!Mismatch(t) <=> order # <<>> /\ messageUpsertsType # t
    BY <1>1, BooksUse DEF Events!Mismatch
  <1>4. Events!Mismatch(t) => reentered = <<>>
    BY <1>1, <1>2, <1>3 DEF Nested, Uniform
  <1> QED BY <1>2, <1>3, <1>4 DEF Fits

LEMMA ResumeFits ==
  ASSUME Ordered, reentered # <<>>
  PROVE  Fits(Head(reentered).type)
  BY DEF Ordered, Uniform, Nested, Fits

LEMMA EmitUpsertOrdered ==
  ASSUME Events!EventBufferAssumption, ~ListenerAnyType, Ordered,
         NEW k \in Arriving, NEW t \in Types, Events!EmitUpsert(k, t)
  PROVE  Uniform' /\ Nested'
  <1>0. Books /\ Uniform /\ Nested /\ k \in Keys /\ Suspended
    BY DEF Ordered, Buffered, Events!EventBufferAssumption
  <1>1. CASE Events!Mismatch(t)
    <2>1. Events!NoUpserts /\ reentered' = <<[key |-> k, type |-> t]>> \o reentered
      BY <1>1 DEF Events!EmitUpsert
    <2>2. reentered = <<>>
      BY <1>1, EmitFits
    <2>3. reentered' = <<[key |-> k, type |-> t]>>
      <3>1. <<[key |-> k, type |-> t]>> \in Seq([key : Keys, type : Types])
        BY <1>0
      <3> QED BY <2>1, <2>2, <3>1, ConcatEmptySeq
    <2>4. Len(reentered') = 1
      BY <2>3
    <2> QED BY <2>1, <2>4, NoUniform DEF Nested
  <1>2. CASE ~Events!Mismatch(t) /\ isBuffering
    <2>1. Events!AppendUpsert(k, t) /\ reentered' = reentered
      BY <1>2 DEF Events!EmitUpsert, Events!AfterGate
    <2>2. Fits(t)
      BY <1>2, EmitFits
    <2>3. Uniform' /\ messageUpsertsType' \in {messageUpsertsType, t}
      BY <1>0, <2>1, <2>2, AppendUniform
    <2>4. Nested'
      <3>1. SUFFICES ASSUME reentered # <<>> PROVE Nested'
        BY <2>1 DEF Nested
      <3>2. Head(reentered).type = t
        BY <3>1, EmitFits
      <3>3. entryType[k] \in {None, t} /\ messageUpsertsType \in {None, t} /\ Len(reentered) = 1
            /\ \A x \in Keys : entryType[x] \in {None, t}
        BY <1>0, <3>1, <3>2 DEF Nested
      <3>4. entryType' = [entryType EXCEPT ![k] = t]
        BY <1>0, <2>1, <2>2, <3>3, AppendKeepsType
      <3>5. \A x \in Keys : entryType'[x] \in {None, t}
        BY <1>0, <3>3, <3>4 DEF Books
      <3> QED BY <2>1, <2>3, <3>2, <3>3, <3>5 DEF Nested
    <2> QED BY <2>3, <2>4
  <1>3. CASE ~Events!Mismatch(t) /\ ~isBuffering
    <2>1. UNCHANGED Events!upserts /\ reentered' = reentered
      BY <1>3 DEF Events!EmitUpsert, Events!AfterGate
    <2> QED BY <1>0, <2>1, SameUniform, SameNested
  <1> QED BY <1>1, <1>2, <1>3

LEMMA ResumeEmitOrdered ==
  ASSUME Events!EventBufferAssumption, Ordered, Events!ResumeEmit
  PROVE  Uniform' /\ Nested'
  <1>0. Books /\ Uniform /\ Nested /\ Suspended
    BY DEF Ordered, Buffered
  <1> DEFINE k == Head(reentered).key
             t == Head(reentered).type
  <1>1. reentered # <<>> /\ Events!AfterGate(k, t) /\ reentered' = Tail(reentered)
    BY DEF Events!ResumeEmit
  <1>2. k \in Keys /\ t \in Types /\ Fits(t)
    <2>1. Head(reentered) \in [key : Keys, type : Types]
      BY <1>0, <1>1, HeadTailProperties DEF Suspended
    <2> QED BY <1>1, <2>1, ResumeFits
  <1>3. reentered' = <<>>
    <2>1. Len(reentered) = 1 /\ reentered' \in Seq([key : Keys, type : Types])
            /\ Len(reentered') = Len(reentered) - 1
      BY <1>0, <1>1, HeadTailProperties DEF Suspended, Nested
    <2> QED BY <2>1, EmptySeq
  <1>4. Nested'
    BY <1>3 DEF Nested
  <1> HIDE DEF k, t
  <1>5. CASE isBuffering
    <2>1. Events!AppendUpsert(k, t)
      BY <1>1, <1>5 DEF Events!AfterGate
    <2> QED BY <1>0, <1>2, <1>4, <2>1, AppendUniform
  <1>6. CASE ~isBuffering
    <2>1. UNCHANGED Events!upserts
      BY <1>1, <1>6 DEF Events!AfterGate
    <2> QED BY <1>0, <1>4, <2>1, SameUniform
  <1> QED BY <1>5, <1>6

LEMMA EmitDeleteOrdered ==
  ASSUME Events!EventBufferAssumption, Ordered, NEW k \in Keys, Events!EmitDelete(k)
  PROVE  Uniform' /\ Nested'
  <1>0. Books /\ Uniform /\ Nested /\ reentered' = reentered
    BY DEF Ordered, Buffered, Events!EmitDelete
  <1>1. CASE isBuffering /\ entryType[k] # None
    <2>1. /\ entryType' = [entryType EXCEPT ![k] = None] /\ order' = Events!RemoveFirst(order, k)
          /\ messageUpsertsCount' = messageUpsertsCount - 1
               /\ messageUpsertsType' = messageUpsertsType
      BY <1>1 DEF Events!EmitDelete
    <2>2. Books' /\ Len(order') = Len(order) - 1
      BY <1>0, <1>1, <2>1, RemoveKeeps
    <2>3. PICK i \in 1..Len(order) :
            order[i] = k /\ \A j \in 1..(Len(order) - 1) : order'[j] = order[IF j < i THEN j ELSE j + 1]
      BY <1>0, <1>1, <2>1, RemoveKeeps
    <2>4. Len(order) \in Nat /\ order # <<>>
      BY <1>0, <2>3, BooksUse
    <2>5. ASSUME NEW j \in 2..Len(order') PROVE entryType'[order'[j]] = messageUpsertsType'
      <3> DEFINE u == IF j < i THEN j ELSE j + 1
      <3>1. u \in 2..Len(order) /\ u \in 1..Len(order) /\ u # i /\ j \in 1..(Len(order) - 1)
        BY <2>2, <2>4
      <3>2. order'[j] = order[u]
        BY <2>3, <3>1
      <3> HIDE DEF u
      <3>3. order[u] \in Keys /\ order[u] # k
        BY <1>0, <2>3, <3>1, BooksUse
      <3>4. entryType[order[u]] = messageUpsertsType
        BY <1>0, <3>1 DEF Uniform
      <3> QED BY <1>0, <2>1, <3>2, <3>3, <3>4 DEF Books
    <2>6. Uniform'
      BY <1>0, <2>1, <2>4, <2>5 DEF Uniform
    <2>7. \A x \in Keys : entryType'[x] \in {None, entryType[x]}
      BY <1>0, <2>1 DEF Books
    <2> QED BY <1>0, <2>1, <2>6, <2>7 DEF Nested
  <1>2. CASE ~(isBuffering /\ entryType[k] # None)
    <2>1. UNCHANGED Events!upserts
      BY <1>2 DEF Events!EmitDelete
    <2> QED BY <1>0, <2>1, SameUniform, SameNested
  <1> QED BY <1>1, <1>2

LEMMA OrderedInit == Events!EventBufferAssumption /\ Events!Init => Ordered
  <1> SUFFICES ASSUME Events!EventBufferAssumption, Events!Init PROVE Ordered
    OBVIOUS
  <1>1. Uniform /\ Nested
    BY DEF Events!Init, Uniform, Nested
  <1> QED BY <1>1, BufferedInit DEF Ordered

LEMMA OrderedStep ==
  ASSUME Events!EventBufferAssumption, ~ListenerAnyType
  PROVE  Ordered /\ [Events!Next]_(Events!vars) => Ordered'
  <1> SUFFICES ASSUME Ordered, [Events!Next]_(Events!vars) PROVE Uniform' /\ Nested'
    BY BufferedStep DEF Ordered
  <1>0. Clocks /\ Books /\ Others /\ Empty /\ Uniform /\ Nested
    BY DEF Ordered, Buffered
  <1>1. ASSUME NEW f \in Functions, Events!FunctionStep(f) PROVE Uniform' /\ Nested'
    BY <1>0, <1>1, SameUniform, SameNested
       DEF Events!FunctionStep, Events!StartFunction, Events!EndFunction
  <1>2. ASSUME NEW n \in Nodes, Events!NodeStep(n) PROVE Uniform' /\ Nested'
    <2>1. CASE Events!StartNode(n)
      BY <1>0, <2>1, SameUniform, SameNested DEF Events!StartNode
    <2>2. CASE Events!EndNode(n)
      <3>1. MayFlush /\ Events!Idle
        BY <1>0, <2>2, EndNodeFlushes
      <3> QED BY <1>0, <3>1, FlushUniform, IdleNested DEF MayFlush, FlushOrNot
    <2> QED BY <1>2, <2>1, <2>2 DEF Events!NodeStep
  <1>3. CASE Events!StartLogin
    BY <1>0, <1>3, SameUniform, SameNested DEF Events!StartLogin
  <1>4. CASE Events!Timers \/ Events!OfflineDone
    <2>1. MayFlush /\ Events!Idle
      BY <1>0, <1>4, OfflineDoneFlushes, BufferTimeoutFlushes, FlushPendingTimeoutFlushes,
         OnlyBufferTimeoutFlushes
         DEF Events!Timers
    <2> QED BY <1>0, <2>1, FlushUniform, IdleNested DEF MayFlush, FlushOrNot
  <1>5. ASSUME NEW k \in Arriving, NEW t \in Types, Events!EmitUpsert(k, t)
        PROVE  Uniform' /\ Nested'
    BY <1>5, EmitUpsertOrdered
  <1>6. ASSUME NEW k \in Keys, Events!EmitDelete(k) PROVE Uniform' /\ Nested'
    BY <1>6, EmitDeleteOrdered
  <1>7. ASSUME NEW c \in Chats, Events!ChatStep(c) PROVE Uniform' /\ Nested'
    <2>1. UNCHANGED Events!upserts /\ reentered' = reentered
      BY <1>7
         DEF Events!ChatStep, Events!EmitChatUpsert, Events!EmitChatUpdate,
             Events!EmitConditional, Events!EmitChatDelete, Events!ChatFrame
    <2> QED BY <1>0, <2>1, SameUniform, SameNested
  <1>8. CASE Events!ResumeEmit
    BY <1>8, ResumeEmitOrdered
  <1>9. CASE Events!End
    <2>1. Events!NoUpserts /\ Events!Idle /\ reentered' = reentered
      BY <1>9 DEF Events!End
    <2> QED BY <2>1, NoUniform, IdleNested
  <1>10. CASE UNCHANGED Events!vars
    BY <1>0, <1>10, SameUniform, SameNested DEF Events!vars
  <1> QED BY <1>1, <1>2, <1>3, <1>4, <1>5, <1>6, <1>7, <1>8, <1>9, <1>10 DEF Events!Next

\* The step of EventStream that a step of the buffer is.
Promised == Events!Stream!Next

LEMMA QuietPromised == entryType' = entryType /\ Events!Silent => Promised
  BY DEF Promised, Events!Silent, Events!Quiet, Events!Stream!Quiet, Events!Stream!Next,
         Events!Stream!Rest

\* A batch of one type, all of it, under that type.
LEMMA BatchStep ==
  ASSUME Events!EventBufferAssumption, Books, Uniform, ~destroyed, ~Events!MirrorStale, NEW label,
         NEW rest,
         order # <<>> => label = messageUpsertsType,
         Events!Hand(ToSet(order), label, rest), Events!NoUpserts
  PROVE  Promised
  <1>1. entryType' = [k \in Keys |-> None]
    BY DEF Events!NoUpserts
  <1>2. ToSet(order) = {k \in Keys : entryType[k] # None}
    BY DEF Books
  <1>3. CASE order = <<>>
    <2>1. ToSet(order) = {}
      BY <1>3, EmptyOrder
    <2>2. \A k \in Keys : entryType[k] = None
      BY <1>2, <2>1
    <2>3. entryType' = entryType
      BY <1>1, <2>2 DEF Books
    <2>4. out' = Events!Quiet
      BY <2>1 DEF Events!Hand
    <2> QED BY <2>3, <2>4
               DEF Promised, Events!Quiet, Events!Stream!Quiet, Events!Stream!Next,
                   Events!Stream!Rest
  <1>4. CASE order # <<>>
    <2>1. label = messageUpsertsType /\ messageUpsertsType # None /\ messageUpsertsType \in Types
      BY <1>4 DEF Uniform, Books, UpsertTypes
    <2>2. entryType[order[1]] = messageUpsertsType /\ order[1] \in Keys /\ 1 \in 1..Len(order)
      BY <1>4, BooksUse DEF Events!MirrorStale
    <2>3. ASSUME NEW k \in Keys, entryType[k] # None PROVE entryType[k] = messageUpsertsType
      <3>1. PICK i \in 1..Len(order) : order[i] = k
        BY <2>3, BooksUse
      <3>2. CASE i = 1
        BY <2>2, <3>1, <3>2
      <3>3. CASE i # 1
        <4>1. i \in 2..Len(order)
          BY <3>1, <3>3, BooksUse
        <4> QED BY <3>1, <4>1 DEF Uniform
      <3> QED BY <3>2, <3>3
    <2> DEFINE batch == {k \in Keys : entryType[k] = messageUpsertsType}
    <2>4. batch = ToSet(order)
      BY <1>2, <2>1, <2>3
    <2>5. batch # {}
      BY <2>2
    <2>6. out' = [keys |-> batch, label |-> messageUpsertsType]
      BY <2>1, <2>4, <2>5 DEF Events!Hand
    <2>7. \A k \in Keys : k \notin batch => entryType[k] = None
      BY <2>3
    <2>8. entryType' = [k \in Keys |-> IF k \in batch THEN None ELSE entryType[k]]
      BY <1>1, <2>7
    <2>9. Events!Stream!Deliver(messageUpsertsType)
      BY <2>5, <2>6, <2>8 DEF Events!Stream!Deliver
    <2> QED BY <2>1, <2>9 DEF Promised, Events!Stream!Next
  <1> QED BY <1>3, <1>4

LEMMA HandAllStep ==
  ASSUME Events!EventBufferAssumption, Books, Others, Uniform, ~destroyed, ~Events!MirrorStale,
         Events!HandAll, Events!NoUpserts
  PROVE  Promised
  <1>1. Events!Hand(ToSet(order), BatchLabel, BatchRest)
    BY HandAllIs
  <1>2. order # <<>> => BatchLabel = messageUpsertsType
    BY DEF BatchLabel, Events!MirrorStale
  <1> QED BY <1>1, <1>2, BatchStep

LEMMA MayFlushStep ==
  ASSUME Events!EventBufferAssumption, Books, Others, Uniform, ~destroyed, ~Events!MirrorStale,
         MayFlush
  PROVE  Promised
  <1>1. CASE isBuffering /\ Events!Flush
    BY <1>1, HandAllStep DEF Events!Flush, Events!SwapData
  <1>2. CASE ~(isBuffering /\ Events!Flush)
    BY <1>2, QuietPromised DEF MayFlush, FlushOrNot, Events!Flush, Events!upserts
  <1> QED BY <1>1, <1>2

\* What follows the gate hands the message on with its type, or keeps it so.
LEMMA AfterGateStep ==
  ASSUME Events!EventBufferAssumption, Books, Empty, Uniform, ~destroyed, ~Events!MirrorStale,
         NEW k \in Keys, NEW t \in Types, Fits(t), Events!AfterGate(k, t)
  PROVE  Promised
  <1>1. CASE isBuffering
    <2>1. Events!AppendUpsert(k, t) /\ Events!Silent
      BY <1>1 DEF Events!AfterGate
    <2>2. entryType[k] \in {None, t} /\ entryType' = [entryType EXCEPT ![k] = t]
      BY <2>1, AppendKeepsType
    <2>3. Events!Stream!Emit(k, t)
      BY <2>1, <2>2 DEF Events!Stream!Emit, Events!Silent, Events!Quiet, Events!Stream!Quiet
    <2> QED BY <2>3 DEF Promised, Events!Stream!Next
  <1>2. CASE ~isBuffering
    <2>1. Events!Hand({k}, t, {}) /\ entryType' = entryType
      BY <1>2 DEF Events!AfterGate, Events!upserts
    <2>2. out' = [keys |-> {k}, label |-> t]
      BY <2>1 DEF Events!Hand
    <2>3. entryType[k] = None
      <3>1. order = <<>>
        BY <1>2 DEF Empty
      <3> QED BY <3>1, BooksUse
    <2>4. Events!Stream!Pass(k, t)
      BY <2>1, <2>2, <2>3 DEF Events!Stream!Pass
    <2> QED BY <2>4 DEF Promised, Events!Stream!Next
  <1> QED BY <1>1, <1>2

LEMMA HandsNoKeys == ASSUME NEW rest, Events!Hand({}, None, rest), entryType' = entryType
  PROVE  Promised
  BY DEF Events!Hand, Promised, Events!Quiet, Events!Stream!Quiet, Events!Stream!Next,
         Events!Stream!Rest

LEMMA PromiseStep ==
  ASSUME Events!EventBufferAssumption, ~ListenerAnyType
  PROVE  Ordered /\ [Events!Next]_(Events!vars)
           => [destroyed \/ Events!MirrorStale \/ Events!Stream!Next]_<<entryType, out>>
  <1> SUFFICES ASSUME Ordered, Events!Next, ~destroyed, ~Events!MirrorStale PROVE Promised
    BY DEF Promised, Events!vars, Events!upserts
  <1>0. Clocks /\ Books /\ Others /\ Empty /\ Uniform /\ Nested /\ Suspended
    BY DEF Ordered, Buffered
  <1>1. ASSUME NEW f \in Functions, Events!FunctionStep(f) PROVE Promised
    BY <1>1, QuietPromised
       DEF Events!FunctionStep, Events!StartFunction, Events!EndFunction, Events!upserts
  <1>2. ASSUME NEW n \in Nodes, Events!NodeStep(n) PROVE Promised
    <2>1. CASE Events!StartNode(n)
      BY <2>1, QuietPromised DEF Events!StartNode, Events!upserts
    <2>2. CASE Events!EndNode(n)
      BY <1>0, <2>2, EndNodeFlushes, MayFlushStep
    <2> QED BY <1>2, <2>1, <2>2 DEF Events!NodeStep
  <1>3. CASE Events!StartLogin
    BY <1>3, QuietPromised DEF Events!StartLogin, Events!upserts
  <1>4. CASE Events!Timers \/ Events!OfflineDone
    <2>1. MayFlush
      BY <1>0, <1>4, OfflineDoneFlushes, BufferTimeoutFlushes, FlushPendingTimeoutFlushes,
         OnlyBufferTimeoutFlushes
         DEF Events!Timers
    <2> QED BY <1>0, <2>1, MayFlushStep
  <1>5. ASSUME NEW k \in Arriving, NEW t \in Types, Events!EmitUpsert(k, t) PROVE Promised
    <2>0. k \in Keys
      BY DEF Events!EventBufferAssumption
    <2>1. CASE Events!Mismatch(t)
      <3>1. Events!Hand(ToSet(order), messageUpsertsType, {}) /\ Events!NoUpserts
        BY <1>5, <2>1, EventsLibrary DEF Events!EmitUpsert
      <3> QED BY <1>0, <3>1, BatchStep
    <2>2. CASE ~Events!Mismatch(t)
      <3>1. Events!AfterGate(k, t) /\ Fits(t)
        BY <1>5, <2>2, EmitFits DEF Events!EmitUpsert
      <3> QED BY <1>0, <2>0, <3>1, AfterGateStep
    <2> QED BY <2>1, <2>2
  <1>6. ASSUME NEW k \in Keys, Events!EmitDelete(k) PROVE Promised
    <2>1. CASE isBuffering /\ entryType[k] # None
      <3>1. entryType' = [entryType EXCEPT ![k] = None] /\ Events!Silent
        BY <1>6, <2>1 DEF Events!EmitDelete
      <3>2. Events!Stream!Withdraw(k)
        BY <3>1 DEF Events!Stream!Withdraw, Events!Silent, Events!Quiet, Events!Stream!Quiet
      <3> QED BY <3>2 DEF Promised, Events!Stream!Next
    <2>2. CASE isBuffering /\ entryType[k] = None
      BY <1>6, <2>2, QuietPromised DEF Events!EmitDelete, Events!upserts
    <2>3. CASE ~isBuffering
      BY <1>6, <2>3, HandsNoKeys DEF Events!EmitDelete, Events!upserts
    <2> QED BY <2>1, <2>2, <2>3
  <1>7. ASSUME NEW c \in Chats, Events!ChatStep(c) PROVE Promised
    <2>1. entryType' = entryType
      BY <1>7
         DEF Events!ChatStep, Events!EmitChatUpsert, Events!EmitChatUpdate,
             Events!EmitConditional, Events!EmitChatDelete, Events!ChatFrame, Events!upserts
    <2>2. Events!Silent \/ \E rest : Events!Hand({}, None, rest)
      BY <1>7
         DEF Events!ChatStep, Events!EmitChatUpsert, Events!EmitChatUpdate,
             Events!EmitConditional, Events!EmitChatDelete, Events!ChatPasses
    <2> QED BY <2>1, <2>2, QuietPromised, HandsNoKeys
  <1>8. CASE Events!ResumeEmit
    <2>1. reentered # <<>> /\ Events!AfterGate(Head(reentered).key, Head(reentered).type)
      BY <1>8 DEF Events!ResumeEmit
    <2>2. Head(reentered) \in [key : Keys, type : Types]
      BY <1>0, <2>1, HeadTailProperties DEF Suspended
    <2>3. Head(reentered).key \in Keys /\ Head(reentered).type \in Types
      BY <2>2
    <2>4. Fits(Head(reentered).type)
      BY <2>1, ResumeFits
    <2> QED BY <1>0, <2>1, <2>3, <2>4, AfterGateStep
  <1>9. CASE Events!End
    <2>1. CASE isBuffering
      BY <1>0, <1>9, <2>1, HandAllStep DEF Events!End
    <2>2. CASE ~isBuffering
      <3>1. Events!Silent /\ order = <<>> /\ entryType' = [k \in Keys |-> None]
        BY <1>0, <1>9, <2>2 DEF Events!End, Empty, Events!NoUpserts
      <3>2. \A k \in Keys : entryType[k] = None
        BY <1>0, <3>1, BooksUse
      <3>3. entryType' = entryType
        BY <1>0, <3>1, <3>2 DEF Books
      <3> QED BY <3>1, <3>3, QuietPromised
    <2> QED BY <2>1, <2>2
  <1> QED BY <1>1, <1>2, <1>3, <1>4, <1>5, <1>6, <1>7, <1>8, <1>9 DEF Events!Next

LEMMA StreamInit == Events!Init => Events!Stream!Init
  BY DEF Events!Init, Events!Stream!Init, Events!Quiet, Events!Stream!Quiet

\* A message reaches the listeners once and with the type it was emitted with,
\* unless a delete withdrew it; a step that breaks this starts from a stale mirror.
\* Listeners answer a batch with its own type, as in the run: README, section 6.
THEOREM EventBufferKeepsPromise ==
  ASSUME Events!EventBufferAssumption, ~ListenerAnyType PROVE Events!Spec => Events!KeepsPromise
  <1>1. Events!Init => Ordered /\ Events!Stream!Init
    BY OrderedInit, StreamInit
  <1>2. Ordered /\ [Events!Next]_(Events!vars) => Ordered'
    BY OrderedStep
  <1>3. Ordered /\ [Events!Next]_(Events!vars)
          => [destroyed \/ Events!MirrorStale \/ Events!Stream!Next]_<<entryType, out>>
    BY PromiseStep
  <1> QED BY <1>1, <1>2, <1>3, PTL DEF Events!Spec, Events!KeepsPromise

\* The one way the mirror goes stale: a delete takes the last message.
TakesLast == \E k \in Keys : Events!EmitDelete(k) /\ order # <<>> /\ order' = <<>>

Fresh == ~Events!MirrorStale /\ (order = <<>> => messageUpsertsType = None)

LEMMA FreshStep ==
  ASSUME Events!EventBufferAssumption, ~ListenerAnyType
  PROVE  Ordered /\ Fresh /\ [Events!Next /\ ~TakesLast]_(Events!vars) => Fresh'
  <1> SUFFICES ASSUME Ordered, Fresh, [Events!Next /\ ~TakesLast]_(Events!vars) PROVE Fresh'
    OBVIOUS
  <1>0. Clocks /\ Books /\ Others /\ Empty /\ Uniform /\ Nested /\ Suspended
    BY DEF Ordered, Buffered
  <1>1. ASSUME UNCHANGED Events!upserts PROVE Fresh'
    BY <1>1 DEF Fresh, Events!MirrorStale, Events!upserts
  <1>2. ASSUME Events!NoUpserts PROVE Fresh'
    BY <1>2 DEF Fresh, Events!MirrorStale, Events!NoUpserts
  <1>3. ASSUME MayFlush PROVE Fresh'
    BY <1>1, <1>2, <1>3 DEF MayFlush, FlushOrNot, Events!Flush, Events!SwapData
  <1>4. ASSUME NEW k \in Keys, NEW t \in Types, Fits(t), Events!AfterGate(k, t) PROVE Fresh'
    <2>1. CASE ~isBuffering
      BY <1>1, <1>4, <2>1 DEF Events!AfterGate
    <2>2. CASE isBuffering
      <3>1. Events!AppendUpsert(k, t)
        BY <1>4, <2>2 DEF Events!AfterGate
      <3>2. /\ entryType[k] \in {None, t} /\ entryType' = [entryType EXCEPT ![k] = t]
        BY <1>0, <1>4, <3>1, AppendKeepsType DEF Fresh
      <3>3. None \notin Types /\ None # "notify"
        BY DEF Events!EventBufferAssumption
      <3>4. /\ order' = (IF entryType[k] # None THEN order ELSE Append(order, k))
            /\ messageUpsertsType' = IF entryType[k] # None \/ messageUpsertsType # None THEN messageUpsertsType
                                     ELSE IF t = "notify" \/ entryType[k] = "notify" THEN "notify" ELSE t
        BY <3>1 DEF Events!AppendUpsert
      <3>5. CASE order = <<>>
        <4>1. entryType[k] = None
          BY <1>0, <3>5, BooksUse
        <4>2. order' = Append(order, k) /\ messageUpsertsType' = t
          BY <3>3, <3>4, <3>5, <4>1 DEF Fresh
        <4>3. order' # <<>> /\ Head(order') = k
          BY <1>0, <3>5, <4>2, AppendProperties, HeadTailAppend DEF Books
        <4>4. entryType'[k] = t
          BY <1>0, <3>2 DEF Books
        <4> QED BY <4>2, <4>3, <4>4 DEF Fresh, Events!MirrorStale
      <3>6. CASE order # <<>>
        <4>1. messageUpsertsType = t /\ messageUpsertsType' = t /\ entryType[Head(order)] = t
                /\ Head(order) \in Keys
          BY <1>0, <1>4, <3>3, <3>4, <3>6, BooksUse DEF Fits, Fresh, Events!MirrorStale
        <4>2. order' # <<>> /\ Head(order') = Head(order)
          BY <1>0, <3>4, <3>6, AppendProperties, HeadTailAppend DEF Books
        <4>3. entryType'[Head(order)] = t
          BY <1>0, <3>2, <4>1 DEF Books
        <4> QED BY <4>1, <4>2, <4>3 DEF Fresh, Events!MirrorStale
      <3> QED BY <3>5, <3>6
    <2> QED BY <2>1, <2>2
  <1>5. ASSUME NEW k \in Keys, Events!EmitDelete(k), ~TakesLast PROVE Fresh'
    <2>1. CASE isBuffering /\ entryType[k] # None
      <3>1. /\ entryType' = [entryType EXCEPT ![k] = None] /\ order' = Events!RemoveFirst(order, k)
            /\ messageUpsertsCount' = messageUpsertsCount - 1
                 /\ messageUpsertsType' = messageUpsertsType
        BY <1>5, <2>1 DEF Events!EmitDelete
      <3>2. Books' /\ Len(order') = Len(order) - 1
        BY <1>0, <2>1, <3>1, RemoveKeeps
      <3>3. PICK i \in 1..Len(order) :
              order[i] = k /\ \A j \in 1..(Len(order) - 1) : order'[j] = order[IF j < i THEN j ELSE j + 1]
        BY <1>0, <2>1, <3>1, RemoveKeeps
      <3>4. Len(order) \in Nat /\ order # <<>>
        BY <1>0, <3>3, BooksUse
      <3>5. order' # <<>>
        BY <1>5, <3>4 DEF TakesLast
      <3>6. Len(order') > 0 /\ Head(order') = order'[1]
        BY <3>2, <3>5, EmptySeq DEF Books
      <3> DEFINE u == IF 1 < i THEN 1 ELSE 2
      <3>7. u \in 1..Len(order) /\ u # i /\ 1 \in 1..(Len(order) - 1) /\ (u # 1
              => u \in 2..Len(order))
        BY <3>2, <3>4, <3>6
      <3>8. order'[1] = order[u]
        BY <3>3, <3>7
      <3> HIDE DEF u
      <3>9. order[u] \in Keys /\ order[u] # k
        BY <1>0, <3>3, <3>7, BooksUse
      <3>10. entryType[order[u]] = messageUpsertsType
        <4>1. CASE u = 1
          BY <1>0, <3>4, <4>1, BooksUse DEF Fresh, Events!MirrorStale
        <4>2. CASE u # 1
          BY <1>0, <3>7, <4>2 DEF Uniform
        <4> QED BY <4>1, <4>2
      <3>11. entryType'[order[u]] = messageUpsertsType'
        BY <1>0, <3>1, <3>9, <3>10 DEF Books
      <3> QED BY <3>5, <3>6, <3>8, <3>11 DEF Fresh, Events!MirrorStale
    <2>2. CASE ~(isBuffering /\ entryType[k] # None)
      BY <1>1, <1>5, <2>2 DEF Events!EmitDelete
    <2> QED BY <2>1, <2>2
  <1>6. CASE UNCHANGED Events!vars
    BY <1>1, <1>6 DEF Events!vars
  <1>7. CASE Events!Next /\ ~TakesLast
    <2>1. ASSUME NEW f \in Functions, Events!FunctionStep(f) PROVE Fresh'
      BY <1>1, <2>1 DEF Events!FunctionStep, Events!StartFunction, Events!EndFunction
    <2>2. ASSUME NEW n \in Nodes, Events!NodeStep(n) PROVE Fresh'
      BY <1>0, <1>1, <1>3, <2>2, EndNodeFlushes DEF Events!NodeStep, Events!StartNode
    <2>3. CASE Events!StartLogin
      BY <1>1, <2>3 DEF Events!StartLogin
    <2>4. CASE Events!Timers \/ Events!OfflineDone
      BY <1>0, <1>3, <2>4, OfflineDoneFlushes, BufferTimeoutFlushes, FlushPendingTimeoutFlushes,
         OnlyBufferTimeoutFlushes DEF Events!Timers
    <2>5. ASSUME NEW k \in Arriving, NEW t \in Types, Events!EmitUpsert(k, t) PROVE Fresh'
      <3>1. k \in Keys
        BY DEF Events!EventBufferAssumption
      <3>2. CASE Events!Mismatch(t)
        BY <1>2, <2>5, <3>2 DEF Events!EmitUpsert
      <3>3. CASE ~Events!Mismatch(t)
        BY <1>4, <2>5, <3>1, <3>3, EmitFits DEF Events!EmitUpsert
      <3> QED BY <3>2, <3>3
    <2>6. ASSUME NEW k \in Keys, Events!EmitDelete(k) PROVE Fresh'
      BY <1>5, <1>7, <2>6
    <2>7. ASSUME NEW c \in Chats, Events!ChatStep(c) PROVE Fresh'
      BY <1>1, <2>7
         DEF Events!ChatStep, Events!EmitChatUpsert, Events!EmitChatUpdate,
             Events!EmitConditional, Events!EmitChatDelete, Events!ChatFrame
    <2>8. CASE Events!ResumeEmit
      <3>1. reentered # <<>> /\ Events!AfterGate(Head(reentered).key, Head(reentered).type)
        BY <2>8 DEF Events!ResumeEmit
      <3>2. Head(reentered) \in [key : Keys, type : Types]
        BY <1>0, <3>1, HeadTailProperties DEF Suspended
      <3>3. Head(reentered).key \in Keys /\ Head(reentered).type \in Types
        BY <3>2
      <3> QED BY <1>4, <3>1, <3>3, ResumeFits
    <2>9. CASE Events!End
      BY <1>2, <2>9 DEF Events!End
    <2> QED BY <1>7, <2>1, <2>2, <2>3, <2>4, <2>5, <2>6, <2>7, <2>8, <2>9 DEF Events!Next
  <1> QED BY <1>6, <1>7

\* The mirror goes stale in one way only: a delete takes the last buffered message
\* and leaves its type behind.  As long as none does, the promise holds unqualified.
THEOREM EventBufferMirrorTrue ==
  ASSUME Events!EventBufferAssumption, ~ListenerAnyType
  PROVE  Events!Spec /\ [][~TakesLast]_(Events!vars)
           => []~Events!MirrorStale /\ [][destroyed \/ Events!Stream!Next]_<<entryType, out>>
  <1>1. Events!Init => Ordered /\ Fresh
    BY OrderedInit DEF Events!Init, Fresh, Events!MirrorStale
  <1>2. Ordered /\ [Events!Next]_(Events!vars) => Ordered'
    BY OrderedStep
  <1>3. Ordered /\ Fresh /\ [Events!Next /\ ~TakesLast]_(Events!vars) => Fresh'
    BY FreshStep
  <1>4. Ordered /\ [Events!Next]_(Events!vars)
          => [destroyed \/ Events!MirrorStale \/ Events!Stream!Next]_<<entryType, out>>
    BY PromiseStep
  <1>5. Fresh => ~Events!MirrorStale
    BY DEF Fresh
  <1>6. [Events!Next]_(Events!vars) /\ [~TakesLast]_(Events!vars) => [Events!Next
          /\ ~TakesLast]_(Events!vars)
    OBVIOUS
  <1>7. Fresh /\ [destroyed \/ Events!MirrorStale \/ Events!Stream!Next]_<<entryType, out>>
          => [destroyed \/ Events!Stream!Next]_<<entryType, out>>
    BY DEF Fresh
  <1> QED BY <1>1, <1>2, <1>3, <1>4, <1>5, <1>6, <1>7, PTL DEF Events!Spec
=============================================================================
