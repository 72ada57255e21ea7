------------------------------ MODULE Connection ------------------------------
(***************************************************************************)
(* One connection (lib/Socket/socket.js over lib/Socket/Client/websocket.js *)
(* and the handshake half of lib/Utils/noise-handler.js): handshake,        *)
(* queries and their waiters, the keep-alive interval, the QR timer, the    *)
(* login sequence, logout, and end() with its handlers.                     *)
(*                                                                         *)
(* Stanzas are abstracted to what the socket does with them.  The pre-key   *)
(* check of the login is one query here (PreKeys models it) and the flush of *)
(* the event buffer is left to EventBuffer.  The disposal of the key store   *)
(* (TransactionStore) queues on the mutex of its transactions: of those there *)
(* are two here, the one of a relay that asks for devices, and the one of a  *)
(* notification that devices were removed.  Both take devicesMutex too, the  *)
(* relay inside its transaction, the notification around it.                 *)
(***************************************************************************)
EXTENDS Naturals

CONSTANTS
  Queries,       \* queries of the user, and of a relay
  Refs           \* refs of a pair-device stanza

ASSUME ConnectionAssumption ==
  Refs \in Nat /\ Queries \cap {"idle", "caching"} = {}

VARIABLES
  ws,          \* readyState; "closed" is a client without a socket
  dead,        \* the network went silent: nothing arrives, not even a close frame
  hand,        \* validateConnection
  keepAlive,   \* the interval runs
  silence,     \* its ticks since lastDateRecv
  query,       \* the promise of a query
  waiters,     \* pendingWaiters, each with the timer of its query
  relay,       \* relayMessage, from its transaction on; the query it waits for
  notice,      \* handleDevicesNotification with a remove
  login,       \* the CB:success handler
  paired,      \* creds.me
  pairing, refs, qrTimer,
  conn,        \* the last connection.update announced
  logoutPc,
  endPc        \* end(): "idle" until closed is set

qrs == <<pairing, refs, qrTimer>>
asks == <<query, waiters>>
locks == <<relay, notice>>
vars == <<ws, dead, hand, keepAlive, silence, asks, locks, login, paired, qrs, conn, logoutPc, endPc>>

\* Pings, and the queries of the login, which follow each other, have a slot each;
\* a waiter that a failed send of theirs left is one with that of the next.
Slots == Queries \cup {"login", "ping"}

Init ==
  /\ ws = "connecting" /\ dead = FALSE /\ hand = "idle" /\ keepAlive = FALSE /\ silence = 0
  /\ query = [q \in Slots |-> "idle"] /\ waiters = {} /\ login = "idle"
  /\ relay = "idle" /\ notice = "idle"
  /\ paired \in BOOLEAN /\ pairing = "idle" /\ refs = Refs /\ qrTimer = FALSE
  /\ conn = "connecting" /\ logoutPc = "idle" /\ endPc = "idle"

Pending(q) == query[q] \in {"sending", "waiting", "unheard"}
Settled(q) == query[q] \in {"resolved", "rejected"}

-----------------------------------------------------------------------------
(* The two locks.                                                          *)

\* The mutex of the transactions, of a store that end() has not flagged: later
\* transactions run inline.  Nothing takes it from its owner but its end.
Relaying == relay # "idle"
StoreFree == ~Relaying /\ notice # "deleting"
Disposed == endPc \in {"handlers", "done"}

\* Each of the two waits for the lock of the other.
Crossed == relay = "caching" /\ notice = "deleting"

-----------------------------------------------------------------------------
(* end()                                                                   *)

Release(rejected) ==
  /\ keepAlive' = FALSE /\ qrTimer' = FALSE
  /\ query' = [q \in Slots |-> IF q \in rejected /\ Pending(q) THEN "rejected" ELSE query[q]]
  /\ waiters' = waiters \ rejected

Kept == UNCHANGED <<endPc, ws, keepAlive, qrTimer, asks>>

\* Mutant: the waiters are left to their own timers.
EndLeavesWaiters ==
  \/ endPc # "idle" /\ Kept
  \/ endPc = "idle" /\ ws \in {"connecting", "open"}
       /\ Release({}) /\ ws' = "closing" /\ endPc' = "closing"
  \/ endPc = "idle" /\ ws \notin {"connecting", "open"}
       /\ Release({}) /\ endPc' = "handlers" /\ UNCHANGED ws

\* What end() does before its first await: the timers are cleared, every waiter
\* is rejected, the close, open and message listeners are gone, the socket
\* closes unless it already does.
End ==
  \/ endPc # "idle" /\ Kept
  \/ endPc = "idle" /\ ws \in {"connecting", "open"}
       /\ Release(waiters) /\ ws' = "closing" /\ endPc' = "closing"
  \/ endPc = "idle" /\ ws \notin {"connecting", "open"}
       /\ Release(waiters) /\ endPc' = "handlers" /\ UNCHANGED ws

\* The user calls end().
UserEnd ==
  /\ endPc = "idle" /\ End
  /\ UNCHANGED <<dead, locks, hand, silence, login, paired, pairing, refs, conn, logoutPc>>

\* await ws.close(): the peer answers, or the fallback timer terminates.
Closed ==
  /\ endPc = "closing" /\ endPc' = "handlers" /\ ws' = "closed"
  /\ UNCHANGED <<dead, locks, hand, keepAlive, silence, asks, login, paired, qrs, conn, logoutPc>>

\* The handlers are awaited, first the disposal of the key store, which has flagged
\* it and queues on its mutex; then the close is announced and no listener is left.
Handlers ==
  /\ endPc = "handlers" /\ StoreFree
  /\ endPc' = "done" /\ conn' = "close"
  /\ UNCHANGED <<ws, dead, locks, hand, keepAlive, silence, asks, login, paired, qrs, logoutPc>>

-----------------------------------------------------------------------------
(* The socket.                                                             *)

Open ==
  /\ ws = "connecting" /\ ~dead /\ endPc = "idle"
  /\ ws' = "open" /\ hand' = "hello"
  /\ UNCHANGED <<dead, locks, keepAlive, silence, asks, login, paired, qrs, conn, logoutPc, endPc>>

\* handshakeTimeout or a refused connection: an error event.
OpenFails ==
  /\ ws = "connecting" /\ endPc = "idle" /\ End
  /\ UNCHANGED <<dead, locks, hand, silence, login, paired, pairing, refs, conn, logoutPc>>

NetworkDies ==
  /\ ~dead /\ dead' = TRUE
  /\ UNCHANGED <<ws, locks, hand, keepAlive, silence, asks, login, paired, qrs, conn, logoutPc,
                 endPc>>

\* A close frame, or a broken stream.
PeerCloses ==
  /\ ws = "open" /\ ~dead /\ ws' = "closing"
  /\ UNCHANGED <<dead, locks, hand, keepAlive, silence, asks, login, paired, qrs, conn, logoutPc,
                 endPc>>

\* The close event is heard until end() runs; the library gives up waiting for
\* the peer after a timeout of its own.
CloseEvent ==
  /\ ws = "closing" /\ endPc # "closing" /\ ws' = "closed"
  /\ \/ endPc = "idle" /\ Release(waiters) /\ endPc' = "handlers"
     \/ endPc # "idle" /\ UNCHANGED <<keepAlive, qrTimer, asks, endPc>>
  /\ UNCHANGED <<dead, locks, hand, silence, login, paired, pairing, refs, conn, logoutPc>>

-----------------------------------------------------------------------------
(* validateConnection                                                      *)

Listening == ws = "open" /\ ~dead /\ endPc = "idle"

HelloReply ==
  /\ hand = "hello" /\ Listening /\ hand' = "finish" /\ silence' = 0
  /\ UNCHANGED <<ws, dead, locks, keepAlive, asks, login, paired, qrs, conn, logoutPc, endPc>>

\* connectTimeoutMs, a bad certificate, or an error while sending.
HandshakeFails ==
  /\ hand \in {"hello", "finish"} /\ hand' = "failed" /\ End
  /\ UNCHANGED <<dead, locks, silence, login, paired, pairing, refs, conn, logoutPc>>

\* The client finish is written: the transport is ready, the interval starts.
FinishSent ==
  /\ hand = "finish" /\ ws # "closed" /\ hand' = "done" /\ keepAlive' = TRUE
  /\ UNCHANGED <<ws, dead, locks, silence, asks, login, paired, qrs, conn, logoutPc, endPc>>

-----------------------------------------------------------------------------
(* query()                                                                 *)

\* The waiter is parked first; without an open socket the send throws, and the
\* waiter stays behind.  Before the transport is ready the server cannot read it.
Ask(q) ==
  /\ query' = [query EXCEPT ![q] = IF ws # "open" THEN "rejected"
                                   ELSE IF hand = "done" THEN "sending" ELSE "unheard"]
  /\ waiters' = waiters \cup {q}

StartQuery(q) ==
  /\ q \in Queries /\ query[q] = "idle" /\ Ask(q)
  /\ UNCHANGED <<ws, dead, locks, hand, keepAlive, silence, login, paired, qrs, conn, logoutPc,
                 endPc>>

\* The send callback: await the waiter, which may have been answered already.
Sent(q) ==
  /\ query[q] = "sending"
  /\ query' = [query EXCEPT ![q] = IF q \in waiters THEN "waiting" ELSE "resolved"]
  /\ UNCHANGED <<ws, dead, locks, hand, keepAlive, silence, waiters, login, paired, qrs, conn,
                 logoutPc, endPc>>

\* The socket is gone, or connectTimeoutMs is over; the waiter stays.
SendFails(q) ==
  /\ query[q] \in {"sending", "unheard"}
  /\ query' = [query EXCEPT ![q] = "rejected"]
  /\ UNCHANGED <<ws, dead, locks, hand, keepAlive, silence, waiters, login, paired, qrs, conn,
                 logoutPc, endPc>>

\* TAG:<id>.  An error node rejects.
Answer(q) ==
  /\ q \in waiters /\ query[q] \in {"sending", "waiting"} /\ Listening /\ hand = "done"
  /\ waiters' = waiters \ {q} /\ silence' = 0
  /\ \/ query[q] = "sending" /\ UNCHANGED query
     \/ query[q] = "waiting" /\ \E r \in {"resolved", "rejected"} : query' = [query EXCEPT ![q] = r]
  /\ UNCHANGED <<ws, dead, locks, hand, keepAlive, login, paired, qrs, conn, logoutPc, endPc>>

\* A query without a timeout is one whose timer never fires.
WaiterTimeout(q) ==
  /\ q \in waiters /\ waiters' = waiters \ {q}
  /\ query' = IF Pending(q) THEN [query EXCEPT ![q] = "rejected"] ELSE query
  /\ UNCHANGED <<ws, dead, locks, hand, keepAlive, silence, login, paired, qrs, conn, logoutPc,
                 endPc>>

-----------------------------------------------------------------------------
(* A relay and a notification over the two locks.                          *)

\* The work of the transaction asks for the devices, without a lock on their
\* list.  A relay behind the disposal finds no socket to ask on.
BeginRelay(q) ==
  /\ paired /\ StoreFree /\ ~Disposed
  /\ q \in Queries /\ query[q] = "idle" /\ Ask(q) /\ relay' = q
  /\ UNCHANGED <<ws, dead, notice, hand, keepAlive, silence, login, paired, qrs, conn, logoutPc,
                 endPc>>

\* The answer; without one the transaction throws.
RelayAnswered ==
  /\ relay \in Queries /\ Settled(relay)
  /\ relay' = IF query[relay] = "resolved" THEN "caching" ELSE "idle"
  /\ UNCHANGED <<ws, dead, notice, hand, keepAlive, silence, asks, login, paired, qrs, conn,
                 logoutPc, endPc>>

\* The list is cached under devicesMutex.  What the relay asks for after it has no
\* other lock to wait for, and its transaction ends.
RelayCaches ==
  /\ relay = "caching" /\ notice # "deleting" /\ relay' = "idle"
  /\ UNCHANGED <<ws, dead, notice, hand, keepAlive, silence, asks, login, paired, qrs, conn,
                 logoutPc, endPc>>

\* A notification that has arrived since the login, behind others of its chat:
\* devicesMutex is taken, and deleteSession asks for the mutex of the store.  Once
\* that is disposed of, the deletion runs inline and no lock is waited for.
NoticeLocks ==
  /\ notice = "idle" /\ login # "idle" /\ ~Disposed /\ notice' = "deleting"
  /\ UNCHANGED <<ws, dead, relay, hand, keepAlive, silence, asks, login, paired, qrs, conn,
                 logoutPc, endPc>>

\* Sessions deleted, list of the devices updated: both locks are given back.
NoticeDeletes ==
  /\ notice = "deleting" /\ ~Relaying /\ notice' = "idle"
  /\ UNCHANGED <<ws, dead, relay, hand, keepAlive, silence, asks, login, paired, qrs, conn,
                 logoutPc, endPc>>

-----------------------------------------------------------------------------
(* startKeepAliveRequest                                                   *)

\* lastDateRecv is fresh enough.  Pings that overlap are one.
TickPing ==
  /\ keepAlive /\ silence < 2 /\ silence' = silence + 1
  /\ IF ws = "open" /\ ~Pending("ping") /\ "ping" \notin waiters THEN Ask("ping") ELSE UNCHANGED asks
  /\ UNCHANGED <<ws, dead, locks, hand, keepAlive, login, paired, qrs, conn, logoutPc, endPc>>

\* Mutant: a connection is lost only when the socket says so.
TickLostNotOpen ==
  /\ keepAlive /\ silence > 0 /\ ws # "open" /\ endPc = "idle" /\ End
  /\ UNCHANGED <<dead, locks, hand, silence, login, paired, pairing, refs, conn, logoutPc>>

\* More than the interval and five seconds: one tick, or two, without a frame.
TickLost ==
  /\ keepAlive /\ silence > 0 /\ endPc = "idle" /\ End
  /\ UNCHANGED <<dead, locks, hand, silence, login, paired, pairing, refs, conn, logoutPc>>

-----------------------------------------------------------------------------
(* Stanzas.                                                                *)

Receiving == Listening /\ hand = "done" /\ silence' = 0

\* Stream errors, failures, the end of the stream, a frame that cannot be read.
FatalStanza ==
  /\ Receiving /\ End
  /\ UNCHANGED <<dead, locks, hand, login, paired, pairing, refs, conn, logoutPc>>

OtherStanza ==
  /\ Receiving /\ silence > 0
  /\ UNCHANGED <<ws, dead, locks, hand, keepAlive, asks, login, paired, qrs, conn, logoutPc, endPc>>

\* CB:success
Success ==
  /\ Receiving /\ paired /\ login = "idle" /\ login' = "count" /\ Ask("login")
  /\ UNCHANGED <<ws, dead, locks, hand, keepAlive, paired, qrs, conn, logoutPc, endPc>>

\* The pre-key check swallows its errors; a digest is asked for only if the
\* passive iq was answered.
LoginQuery ==
  /\ \/ login = "count" /\ Settled("login") /\ login' = "passive"
     \/ login = "passive" /\ query["login"] = "resolved" /\ login' = "digest"
  /\ Ask("login")
  /\ UNCHANGED <<ws, dead, locks, hand, keepAlive, silence, paired, qrs, conn, logoutPc, endPc>>

LoginOver ==
  \/ login = "passive" /\ query["login"] = "rejected"
  \/ login = "digest" /\ Settled("login")

\* Mutant: the listeners of connection.update outlive the teardown.
OpenedAnyway ==
  /\ LoginOver /\ login' = "done" /\ qrTimer' = FALSE /\ conn' = "open"
  /\ UNCHANGED <<ws, dead, locks, hand, keepAlive, silence, asks, paired, pairing, refs,
                 logoutPc, endPc>>

\* 'open' is announced however the queries went.  After the teardown nobody
\* listens.
Opened ==
  /\ LoginOver /\ login' = "done" /\ qrTimer' = FALSE
  /\ conn' = IF endPc = "done" THEN conn ELSE "open"
  /\ UNCHANGED <<ws, dead, locks, hand, keepAlive, silence, asks, paired, pairing, refs,
                 logoutPc, endPc>>

-----------------------------------------------------------------------------
(* Pairing.                                                                *)

\* CB:iq,type:set,pair-device: the acknowledgement is sent first.
PairDevice ==
  /\ Receiving /\ ~paired /\ pairing = "idle" /\ pairing' = "acking"
  /\ UNCHANGED <<ws, dead, locks, hand, keepAlive, asks, login, paired, refs, qrTimer, conn,
                 logoutPc, endPc>>

ShowQR == refs' = refs - 1 /\ qrTimer' = TRUE /\ UNCHANGED <<ws, keepAlive, asks, endPc>>
NoMoreQR == UNCHANGED refs /\ End

\* genPairQR, after the acknowledgement and whenever the timer fires.
FirstQR ==
  /\ pairing = "acking" /\ pairing' = "showing"
  /\ \/ ws = "open" /\ refs > 0 /\ ShowQR
     \/ ws = "open" /\ refs = 0 /\ NoMoreQR
     \/ ws # "open" /\ UNCHANGED <<ws, keepAlive, refs, qrTimer, asks, endPc>>
  /\ UNCHANGED <<dead, locks, hand, silence, login, paired, conn, logoutPc>>

\* Mutant: one more than there are refs.
NextQROneMore ==
  /\ qrTimer
  /\ \/ ws = "open" /\ ShowQR
     \/ ws # "open" /\ qrTimer' = FALSE /\ UNCHANGED <<ws, keepAlive, refs, asks, endPc>>
  /\ UNCHANGED <<dead, locks, hand, silence, login, paired, pairing, conn, logoutPc>>

NextQR ==
  /\ qrTimer
  /\ \/ ws = "open" /\ refs > 0 /\ ShowQR
     \/ ws = "open" /\ refs = 0 /\ NoMoreQR
     \/ ws # "open" /\ qrTimer' = FALSE /\ UNCHANGED <<ws, keepAlive, refs, asks, endPc>>
  /\ UNCHANGED <<dead, locks, hand, silence, login, paired, pairing, conn, logoutPc>>

\* CB:iq,,pair-success: the credentials are complete; the server then asks for
\* a restart.
PairSuccess ==
  /\ Receiving /\ pairing = "showing" /\ ~paired /\ paired' = TRUE
  /\ UNCHANGED <<ws, dead, locks, hand, keepAlive, asks, login, qrs, conn, logoutPc, endPc>>

-----------------------------------------------------------------------------
(* logout()                                                                *)

Logout ==
  /\ logoutPc = "idle"
  /\ \/ ~paired /\ logoutPc' = "ending" /\ End
     \/ paired /\ logoutPc' = (IF ws = "open" THEN "sending" ELSE "rejected")
        /\ UNCHANGED <<endPc, ws, keepAlive, qrTimer, asks>>
  /\ UNCHANGED <<dead, locks, hand, silence, login, paired, pairing, refs, conn>>

\* An end() that is under way returns at once.
LogoutSent ==
  /\ logoutPc = "sending"
  /\ logoutPc' = (IF endPc = "idle" THEN "ending" ELSE "resolved") /\ End
  /\ UNCHANGED <<dead, locks, hand, silence, login, paired, pairing, refs, conn>>

LogoutSendFails ==
  /\ logoutPc = "sending" /\ logoutPc' = "rejected"
  /\ UNCHANGED <<ws, dead, locks, hand, keepAlive, silence, asks, login, paired, qrs, conn, endPc>>

LogoutDone ==
  /\ logoutPc = "ending" /\ endPc = "done" /\ logoutPc' = "resolved"
  /\ UNCHANGED <<ws, dead, locks, hand, keepAlive, silence, asks, login, paired, qrs, conn, endPc>>

-----------------------------------------------------------------------------
Teardown == UserEnd \/ Closed \/ Handlers
Socket == Open \/ OpenFails \/ NetworkDies \/ PeerCloses \/ CloseEvent
Handshake == HelloReply \/ HandshakeFails \/ FinishSent
KeepAlive == TickPing \/ TickLost
Locking == RelayAnswered \/ RelayCaches \/ NoticeLocks \/ NoticeDeletes
Stanza == FatalStanza \/ OtherStanza \/ Success \/ PairDevice \/ PairSuccess
Login == LoginQuery \/ Opened
QR == FirstQR \/ NextQR
LoggingOut == Logout \/ LogoutSent \/ LogoutSendFails \/ LogoutDone

Next ==
  \/ Teardown \/ Socket \/ Handshake \/ Locking \/ KeepAlive
  \/ Stanza \/ Login \/ QR \/ LoggingOut
  \/ \E q \in Slots : StartQuery(q) \/ BeginRelay(q) \/ Sent(q) \/ SendFails(q) \/ Answer(q) \/ WaiterTimeout(q)

Spec == Init /\ [][Next]_vars

\* The timers of the socket fire, sends call back, a handler whose lock is free
\* goes on, and so does end().  Nothing is asked of the server, the network or the
\* timers of queries, and no lock is assumed to be given back.
Fairness ==
  /\ WF_vars(Closed) /\ WF_vars(Handlers) /\ WF_vars(OpenFails \/ Open) /\ WF_vars(CloseEvent)
  /\ WF_vars(RelayAnswered) /\ WF_vars(RelayCaches) /\ WF_vars(NoticeDeletes)
  /\ WF_vars(HelloReply \/ HandshakeFails \/ FinishSent) /\ WF_vars(TickPing \/ TickLost)
  /\ \A q \in Slots : WF_vars(query[q] = "sending" /\ (Sent(q) \/ SendFails(q)))

FairSpec == Spec /\ Fairness

-----------------------------------------------------------------------------
TypeOK ==
  /\ ws \in {"connecting", "open", "closing", "closed"} /\ dead \in BOOLEAN
  /\ hand \in {"idle", "hello", "finish", "done", "failed"}
  /\ keepAlive \in BOOLEAN /\ silence \in 0..2
  /\ query \in [Slots -> {"idle", "sending", "waiting", "unheard", "resolved", "rejected"}]
  /\ waiters \subseteq Slots
  /\ relay \in {"idle", "caching"} \cup Queries
  /\ notice \in {"idle", "deleting"}
  /\ login \in {"idle", "count", "passive", "digest", "done"} /\ paired \in BOOLEAN
  /\ pairing \in {"idle", "acking", "showing"} /\ refs \in 0..Refs /\ qrTimer \in BOOLEAN
  /\ conn \in {"connecting", "open", "close"}
  /\ logoutPc \in {"idle", "sending", "ending", "resolved", "rejected"}
  /\ endPc \in {"idle", "closing", "handlers", "done"}

\* end() owns its waiters: once it runs, no query waits for an answer, also one
\* that starts or whose send calls back afterwards, and no QR code is waited for,
\* also by a pairing handler that was at its await.
EndOwnsWaiters ==
  endPc # "idle" => ~qrTimer /\ \A q \in Slots : query[q] \notin {"waiting", "unheard"}

\* 'close' is the last thing announced.
ClosedForGood == [][conn = "close" => conn' = "close"]_vars

\* A silent network and an end() under way both lead to 'close', with no
\* timeout on queries and whatever the server does, unless a relay and a
\* notification have crossed on the two locks: for these the transaction that the
\* disposal of the store waits for never ends.
LeadsToClose == (dead \/ endPc # "idle") ~> (conn = "close" \/ Crossed)
=============================================================================
