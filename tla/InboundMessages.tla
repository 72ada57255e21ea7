---------------------------- MODULE InboundMessages ----------------------------
(***************************************************************************)
(* How a message stanza is handled (lib/Socket/messages-recv.js): the       *)
(* backlog of offline stanzas (lib/Utils/offline-node-processor.js), the    *)
(* mapping lock of an alternative address, the lock of a chat, decryption,  *)
(* the answer, the upsert (lib/Socket/chats.js), and after the chat's lock   *)
(* the retry queue with its budget (lib/Utils/message-retry-manager.js) and *)
(* the requests to the phone (requestPlaceholderResend).                    *)
(*                                                                         *)
(* Delivery d is the d-th stanza of the socket.  Several may carry one      *)
(* message.  Every lock is a queue whose head holds it (async-mutex is      *)
(* first come, first served).  What decryption finds is open, within what   *)
(* the stanza allows.                                                       *)
(***************************************************************************)
EXTENDS Naturals, Sequences, SequencesExt

CONSTANTS
  Msgs, Chats, Alts,  \* message ids, chats, alternative addresses
  NoAlt,              \* a stanza without participantAlt and remoteJidAlt
  Traffic,            \* the possible sequences of stanzas
  Keepers,            \* who counts retries: "manager" (enableRecentMessageCache), else
                      \* "cache" or "caller" (msgRetryCounterCache)
  Charged,            \* the retry counts a message may start with
  MaxRetry,           \* maxMsgRetryCount
  MaxQueue,           \* MAX_QUEUE of the offline backlog
  MaxFailures         \* bound on mappings and dispatches that throw and marks that expire

\* What the stanza turns out to be.
Kinds == {"ignored",      \* shouldIgnoreJid
          "msmsg",        \* an enc node of type msmsg
          "ok",           \* decrypted, or one of the peer category
          "history",      \* decrypted, a history sync notification (getHistoryMsg)
          "missingKeys",  \* MISSING_KEYS_ERROR_TEXT
          "excluded",     \* nothing to ask for: excluded type, too old, expired status
          "resend",       \* unavailable, and the phone can be asked
          "error"}        \* any other decryption failure

Stanza == [msg : Msgs, chat : Chats, alt : Alts \cup {NoAlt}, offline : BOOLEAN,
           kinds : SUBSET Kinds]

ASSUME InboundMessagesAssumption ==
  /\ NoAlt \notin Alts /\ Traffic \subseteq Seq(Stanza)
       /\ Keepers \subseteq {"manager", "cache", "caller"}
  /\ MaxRetry \in Nat /\ Charged \subseteq 0..MaxRetry
  /\ MaxQueue \in Nat /\ MaxFailures \in Nat

VARIABLES
  stanza,        \* this connection's stanzas
  keeper,        \* of this socket
  arrived,       \* how many stanzas have arrived
  pc, kind, acked,
  answers,       \* acks, nacks and receipts sent for a delivery
  histReceipts,  \* the second receipt, 'hist_sync', of a history message
  backlog, current,           \* nodes; the one in process, 0 for none
  lidQueue, chatQueue, retryQueue,
  processed,     \* processedMessageCache
  upserts,
  excused,       \* history: upserts whose mark failed, was deferred or has expired
  failures,      \* what MaxFailures bounds
  retryCounters, msgRetryCache,
  count,         \* the retryCount of a retry
  sentCounts,    \* retry receipts sent for a message since its budget was new
  phoneTimer,    \* pendingPhoneRequests: the delivery that scheduled it, or 0
  resend,        \* requestPlaceholderResend on behalf of a delivery
  resendCache,   \* placeholderResendCache
  expiry,        \* the 8 second timers
  asked, forgotten,           \* requests sent; entries deleted
  open, ended    \* ws.isOpen; the end handlers ran

queues == <<lidQueue, chatQueue, retryQueue>>
offline == <<backlog, current>>
handler == <<pc, kind, acked, answers>>
done == <<processed, upserts, excused, histReceipts>>
charges == <<retryCounters, msgRetryCache>>
budget == <<charges, count, sentCounts>>
phone == <<resend, resendCache, expiry, asked, forgotten>>
fixed == <<stanza, keeper>>
conn == <<open, ended>>
vars == <<fixed, arrived, handler, offline, queues, done, failures, budget, phoneTimer, phone, conn>>

Deliveries == DOMAIN stanza
Msg(d) == stanza[d].msg
Chat(d) == stanza[d].chat
Alt(d) == stanza[d].alt

\* What upsertMessage knows a message by: the same id in two chats is two messages.
Identities == Chats \X Msgs \X {"stub", "content"}

Init ==
  /\ stanza \in Traffic /\ keeper \in Keepers
  /\ arrived = 0
  /\ pc = [d \in Deliveries |-> "away"] /\ kind = [d \in Deliveries |-> "ok"]
  /\ acked = [d \in Deliveries |-> FALSE] /\ answers = [d \in Deliveries |-> 0]
  /\ backlog = <<>> /\ current = 0
  /\ lidQueue = [a \in Alts |-> <<>>] /\ chatQueue = [c \in Chats |-> <<>>] /\ retryQueue = <<>>
  /\ processed = {} /\ upserts = [i \in Identities |-> 0] /\ failures = 0
  /\ excused = [i \in Identities |-> 0] /\ histReceipts = [d \in Deliveries |-> 0]
  /\ msgRetryCache \in [Msgs -> Charged]
  /\ retryCounters = [m \in Msgs |-> IF keeper = "manager" THEN msgRetryCache[m] ELSE 0]
  /\ count = [d \in Deliveries |-> 0]
  /\ sentCounts = [m \in Msgs |-> <<>>]
  /\ phoneTimer = [m \in Msgs |-> 0] /\ resend = [d \in Deliveries |-> "none"]
  /\ resendCache = {} /\ expiry = {}
  /\ asked = [m \in Msgs |-> 0] /\ forgotten = [m \in Msgs |-> 0]
  /\ open = TRUE /\ ended = FALSE

-----------------------------------------------------------------------------
(* Sending, and the ways a handler goes on.                                *)

\* sendMessageAck and sendReceipt: nothing leaves a closed socket.
Send(d) == answers' = [answers EXCEPT ![d] = IF open THEN @ + 1 ELSE @]

Goto(d, l) == pc' = [pc EXCEPT ![d] = l]
Holds(d, q) == q # <<>> /\ Head(q) = d

\* Mutant: the answer is not looked at.
CatchAnyway(d) == Send(d) /\ Goto(d, "done") /\ UNCHANGED acked

\* The catch block: a failure before any answer is nacked.
Catch(d) ==
  /\ \/ acked[d] /\ UNCHANGED answers
     \/ ~acked[d] /\ Send(d)
  /\ Goto(d, "done") /\ UNCHANGED acked

JoinChat(d) ==
  /\ pc' = [pc EXCEPT ![d] = "chat"]
  /\ chatQueue' = [chatQueue EXCEPT ![Chat(d)] = Append(@, d)]

LeaveChat(d) == chatQueue' = [chatQueue EXCEPT ![Chat(d)] = Tail(@)]

\* The start of handleMessage, up to its first lock.
Begin(d, k) ==
  /\ kind' = [kind EXCEPT ![d] = k]
  /\ \/ k = "msmsg" /\ Goto(d, "answer") /\ UNCHANGED <<lidQueue, chatQueue>>
     \/ k # "msmsg" /\ Alt(d) = NoAlt /\ JoinChat(d) /\ UNCHANGED lidQueue
     \/ k # "msmsg" /\ Alt(d) # NoAlt /\ Goto(d, "lid")
        /\ lidQueue' = [lidQueue EXCEPT ![Alt(d)] = Append(@, d)] /\ UNCHANGED chatQueue
  /\ UNCHANGED <<acked, answers, retryQueue>>

-----------------------------------------------------------------------------
(* processNode and the offline backlog.                                    *)

Next1 == arrived + 1
Arrives ==
  /\ open /\ Next1 \in Deliveries /\ arrived' = Next1
  /\ UNCHANGED <<fixed, done, failures, budget, phoneTimer, phone, conn>>

Ignore ==
  /\ Arrives /\ "ignored" \in stanza[Next1].kinds
  /\ Send(Next1) /\ Goto(Next1, "done") /\ UNCHANGED <<kind, acked, offline, queues>>

Receive ==
  /\ Arrives /\ ~stanza[Next1].offline
  /\ \E k \in stanza[Next1].kinds \ {"ignored"} : Begin(Next1, k)
  /\ UNCHANGED offline

\* enqueue() drops what the backlog has no room for.
EnqueueFull ==
  /\ Arrives /\ stanza[Next1].offline /\ Len(backlog) >= MaxQueue
  /\ Goto(Next1, "dropped") /\ UNCHANGED <<kind, acked, answers, offline, queues>>

\* Mutant: a running loop is noticed before the node is pushed.
EnqueueForgets ==
  /\ Arrives /\ stanza[Next1].offline /\ Len(backlog) < MaxQueue /\ current # 0
  /\ Goto(Next1, "queued") /\ UNCHANGED <<kind, acked, answers, offline, queues>>

EnqueueWaits ==
  /\ Arrives /\ stanza[Next1].offline /\ Len(backlog) < MaxQueue
  /\ current # 0
  /\ backlog' = Append(backlog, Next1) /\ Goto(Next1, "queued")
  /\ UNCHANGED <<kind, acked, answers, current, queues>>

EnqueueStarts ==
  /\ Arrives /\ stanza[Next1].offline /\ Len(backlog) < MaxQueue
  /\ current = 0
  /\ current' = Next1 /\ UNCHANGED backlog
  /\ \E k \in stanza[Next1].kinds \ {"ignored"} : Begin(Next1, k)

\* The loop goes on when the handler has come back.
BacklogGoesOn == current # 0 /\ pc[current] = "done"

NextQueued ==
  /\ BacklogGoesOn /\ open /\ backlog # <<>>
  /\ current' = Head(backlog) /\ backlog' = Tail(backlog)
  /\ \E k \in stanza[Head(backlog)].kinds \ {"ignored"} : Begin(Head(backlog), k)
  /\ UNCHANGED <<fixed, arrived, done, failures, budget, phoneTimer, phone, conn>>

DropQueued ==
  /\ backlog' = <<>>
  /\ pc' = [d \in Deliveries |-> IF d \in ToSet(backlog) THEN "dropped" ELSE pc[d]]
  /\ UNCHANGED <<fixed, arrived, kind, acked, answers, queues, done, failures, budget, phoneTimer, phone, conn>>

BacklogEnds == BacklogGoesOn /\ (backlog = <<>> \/ ~open) /\ DropQueued /\ current' = 0

-----------------------------------------------------------------------------
(* The mapping lock and the chat's lock.                                   *)

\* The mapping is reconciled, or that throws.
Mapped(d) ==
  /\ pc[d] = "lid" /\ Holds(d, lidQueue[Alt(d)])
  /\ lidQueue' = [lidQueue EXCEPT ![Alt(d)] = Tail(@)]
  /\ \/ JoinChat(d) /\ UNCHANGED <<acked, answers, failures>>
     \/ failures < MaxFailures /\ failures' = failures + 1 /\ Catch(d) /\ UNCHANGED chatQueue
  /\ UNCHANGED <<fixed, arrived, kind, offline, retryQueue, done, budget, phoneTimer, phone, conn>>

\* Mutant: the chats have no lock.
InAnyChat(d) == pc[d] = "chat"

InChat(d) == pc[d] = "chat" /\ Holds(d, chatQueue[Chat(d)])

\* decrypt() and the branch it leads to.  An answer counts as given before it is sent.
Decrypt(d) ==
  /\ InChat(d)
  /\ \E k \in stanza[d].kinds \ {"ignored", "msmsg"} :
       /\ kind' = [kind EXCEPT ![d] = k]
       /\ \/ /\ k = "error" /\ Goto(d, "upsert") /\ UNCHANGED <<acked, phoneTimer, resend>>
          \/ /\ k \in {"ok", "history"} /\ Goto(d, "answer") /\ acked' = [acked EXCEPT ![d] = TRUE]
             /\ phoneTimer' = [phoneTimer EXCEPT ![Msg(d)] = 0] /\ UNCHANGED resend
          \/ /\ k = "resend" /\ Goto(d, "answer") /\ acked' = [acked EXCEPT ![d] = TRUE]
             /\ resend' = [resend EXCEPT ![d] = "waiting"] /\ UNCHANGED phoneTimer
          \/ /\ k \in {"missingKeys", "excluded"} /\ Goto(d, "answer")
             /\ acked' = [acked EXCEPT ![d] = TRUE] /\ UNCHANGED <<phoneTimer, resend>>
  /\ UNCHANGED <<fixed, arrived, answers, offline, queues, done, failures, budget,
                 resendCache, expiry, asked, forgotten, conn>>

\* Only a message that was answered and is to be shown goes on to upsertMessage.
Shows(d) == kind[d] \in {"ok", "history", "resend"}

Answer(d) ==
  /\ pc[d] = "answer" /\ Send(d)
  /\ \/ open /\ kind[d] = "history" /\ Goto(d, "histSync") /\ UNCHANGED chatQueue
     \/ open /\ kind[d] \in {"ok", "resend"} /\ Goto(d, "upsert") /\ UNCHANGED chatQueue
     \/ kind[d] = "msmsg" /\ Goto(d, "done") /\ UNCHANGED chatQueue
     \/ kind[d] # "msmsg" /\ (~open \/ ~Shows(d)) /\ Goto(d, "done") /\ LeaveChat(d)
  /\ UNCHANGED <<fixed, arrived, kind, acked, offline, lidQueue, retryQueue, done, failures,
                 budget, phoneTimer, phone, conn>>

\* The second receipt of a history message; when it cannot be sent, the message
\* that was acknowledged is never shown.
HistReceipt(d) ==
  /\ pc[d] = "histSync"
  /\ \/ open /\ histReceipts' = [histReceipts EXCEPT ![d] = @ + 1]
        /\ Goto(d, "upsert") /\ UNCHANGED chatQueue
     \/ ~open /\ Goto(d, "done") /\ LeaveChat(d) /\ UNCHANGED histReceipts
  /\ UNCHANGED <<fixed, arrived, kind, acked, answers, offline, lidQueue, retryQueue, processed,
                 upserts, excused, failures, budget, phoneTimer, phone, conn>>

\* The body a delivery is hashed with: every stub of a message hashes alike.
Body(d) == IF kind[d] \in {"ok", "history"} THEN "content" ELSE "stub"
Key(d) == <<Chat(d), Msg(d), Body(d)>>

\* After the chat's lock: the retry a failed decryption owes.
AfterChat(d) ==
  /\ LeaveChat(d)
  /\ \/ kind[d] = "error" /\ Goto(d, "retry") /\ retryQueue' = Append(retryQueue, d)
     \/ kind[d] # "error" /\ Goto(d, "done") /\ UNCHANGED retryQueue
  /\ UNCHANGED <<acked, answers>>

\* upsertMessage: a message already processed is not shown again.
SkipUpsert(d) ==
  /\ pc[d] = "upsert" /\ Key(d) \in processed /\ AfterChat(d)
  /\ UNCHANGED <<fixed, arrived, kind, offline, lidQueue, done, failures, budget, phoneTimer, phone, conn>>

Upsert(d) ==
  /\ pc[d] = "upsert" /\ Key(d) \notin processed /\ Goto(d, "process")
  /\ upserts' = [upserts EXCEPT ![Key(d)] = @ + 1]
  /\ UNCHANGED <<fixed, arrived, kind, acked, answers, offline, queues, processed, excused,
                 histReceipts, failures, budget, phoneTimer, phone, conn>>

Excuse(i) == excused' = [excused EXCEPT ![i] = @ + 1]

\* processMessage marks the message last.  It leaves unmarked a content it could not
\* act on yet (deferred), and a self-only message that is not from the own account.
Process(d) ==
  /\ pc[d] = "process" /\ AfterChat(d)
  /\ \/ processed' = processed \cup {Key(d)} /\ UNCHANGED excused
     \/ Body(d) = "content" /\ Excuse(Key(d)) /\ UNCHANGED processed
  /\ UNCHANGED <<fixed, arrived, kind, offline, lidQueue, upserts, histReceipts, failures, budget,
                 phoneTimer, phone, conn>>

\* decrypt() throws, or processMessage, or the app state sync that runs beside it
\* or after it: by then the message may have been marked.
Throws(d) ==
  /\ failures < MaxFailures /\ failures' = failures + 1
  /\ \/ InChat(d) /\ UNCHANGED <<processed, excused>>
     \/ /\ pc[d] = "process" /\ Excuse(Key(d))
        /\ processed' \in {processed, processed \cup {Key(d)}}
  /\ Catch(d) /\ LeaveChat(d)
  /\ UNCHANGED <<fixed, arrived, kind, offline, lidQueue, retryQueue, upserts, histReceipts,
                 budget, phoneTimer, phone, conn>>

\* A mark lives for ten minutes.
MarkExpires(i) ==
  /\ i \in processed /\ processed' = processed \ {i} /\ Excuse(i)
  /\ failures < MaxFailures /\ failures' = failures + 1
  /\ UNCHANGED <<fixed, arrived, handler, offline, queues, upserts, histReceipts, budget,
                 phoneTimer, phone, conn>>

-----------------------------------------------------------------------------
(* The retry queue: sendRetryRequest, the delay, the nack.                 *)

RetryTurn(d) == pc[d] = "retry" /\ Holds(d, retryQueue)

RetrySkipped(d) ==
  /\ RetryTurn(d) /\ ~open
  /\ Goto(d, "done") /\ retryQueue' = Tail(retryQueue)
  /\ UNCHANGED <<fixed, arrived, kind, acked, answers, offline, lidQueue, chatQueue, done,
                 failures, budget, phoneTimer, phone, conn>>

\* What a message has been charged: by the manager, which the cache copies, or by the cache.
Spent(m) == IF keeper = "manager" THEN retryCounters[m] ELSE msgRetryCache[m]

ChargeUpTo(d, limit) ==
  /\ RetryTurn(d) /\ open /\ Spent(Msg(d)) < limit
  /\ msgRetryCache' = [msgRetryCache EXCEPT ![Msg(d)] = Spent(Msg(d)) + 1]
  /\ \/ keeper = "manager" /\ retryCounters' = [retryCounters EXCEPT ![Msg(d)] = @ + 1]
     \/ keeper # "manager" /\ UNCHANGED retryCounters
  /\ Goto(d, "charged")
  /\ UNCHANGED <<fixed, arrived, kind, acked, answers, offline, queues, done, failures, count,
                 sentCounts, phoneTimer, phone, conn>>

\* Mutant: an off-by-one in the limit.
ChargeOneMore(d) == ChargeUpTo(d, MaxRetry + 1)

Charge(d) == ChargeUpTo(d, MaxRetry)

\* A spent budget is cleared, unless the record is the caller's; nothing is asked
\* for this time.
BudgetSpent(d) ==
  /\ RetryTurn(d) /\ open /\ Spent(Msg(d)) >= MaxRetry
  /\ \/ /\ keeper = "manager" /\ retryCounters' = [retryCounters EXCEPT ![Msg(d)] = 0]
        /\ phoneTimer' = [phoneTimer EXCEPT ![Msg(d)] = 0] /\ UNCHANGED msgRetryCache
     \/ /\ keeper = "cache" /\ msgRetryCache' = [msgRetryCache EXCEPT ![Msg(d)] = 0]
        /\ UNCHANGED <<retryCounters, phoneTimer>>
     \/ keeper = "caller" /\ UNCHANGED <<charges, phoneTimer>>
  /\ \/ keeper # "caller" /\ sentCounts' = [sentCounts EXCEPT ![Msg(d)] = <<>>]
     \/ keeper = "caller" /\ UNCHANGED sentCounts
  /\ Goto(d, "nack")
  /\ UNCHANGED <<fixed, arrived, kind, acked, answers, offline, queues, done, failures, count,
                 phone, conn>>

\* The count is read back; the first two retries also ask the phone.
ReadBack(m) == IF msgRetryCache[m] = 0 THEN 1 ELSE msgRetryCache[m]

AskPhone(d) ==
  /\ pc[d] = "charged" /\ count' = [count EXCEPT ![d] = ReadBack(Msg(d))]
  /\ \/ /\ count'[d] <= 2 /\ keeper = "manager" /\ Goto(d, "receipt")
        /\ phoneTimer' = [phoneTimer EXCEPT ![Msg(d)] = d] /\ UNCHANGED resend
     \/ /\ count'[d] <= 2 /\ keeper # "manager" /\ Goto(d, "asking")
        /\ resend' = [resend EXCEPT ![d] = "waiting"] /\ UNCHANGED phoneTimer
     \/ count'[d] > 2 /\ Goto(d, "receipt") /\ UNCHANGED <<phoneTimer, resend>>
  /\ UNCHANGED <<fixed, arrived, kind, acked, answers, offline, queues, done, failures,
                 charges, sentCounts, resendCache, expiry, asked, forgotten, conn>>

\* Without the manager the request is awaited, and its failure ends the retry.
PhoneAsked(d) ==
  /\ pc[d] = "asking"
  /\ \/ resend[d] = "ended" /\ Goto(d, "receipt")
     \/ resend[d] = "failed" /\ Goto(d, "nack")
  /\ UNCHANGED <<fixed, arrived, kind, acked, answers, offline, queues, done, failures, budget,
                 phoneTimer, phone, conn>>

\* The keys of the receipt, its sending or the transaction around may also fail.
SendRetry(d) ==
  /\ pc[d] = "receipt" /\ Goto(d, "nack")
  /\ \/ open /\ sentCounts' = [sentCounts EXCEPT ![Msg(d)] = Append(@, count[d])]
     \/ UNCHANGED sentCounts
  /\ UNCHANGED <<fixed, arrived, kind, acked, answers, offline, queues, done, failures,
                 charges, count, phoneTimer, phone, conn>>

Nack(d) ==
  /\ pc[d] = "nack" /\ acked' = [acked EXCEPT ![d] = TRUE] /\ Send(d) /\ Goto(d, "done")
  /\ retryQueue' = Tail(retryQueue)
  /\ UNCHANGED <<fixed, arrived, kind, offline, lidQueue, chatQueue, done, failures, budget,
                 phoneTimer, phone, conn>>

-----------------------------------------------------------------------------
(* requestPlaceholderResend, on behalf of a delivery.                      *)

handling == <<fixed, arrived, handler, offline, queues, done, failures, budget>>

\* placeholderResendMutex is held between the read that misses and the write.
Unlocked(m) == \A e \in Deliveries : Msg(e) = m => resend[e] # "storing"

\* Mutant: the read and the write are not one critical section.
ResendMissUnlocked(d) ==
  /\ resend[d] = "waiting" /\ Msg(d) \notin resendCache
  /\ resend' = [resend EXCEPT ![d] = "storing"]
  /\ UNCHANGED <<handling, phoneTimer, resendCache, expiry, asked, forgotten, conn>>

ResendMiss(d) ==
  /\ resend[d] = "waiting" /\ Unlocked(Msg(d)) /\ Msg(d) \notin resendCache
  /\ resend' = [resend EXCEPT ![d] = "storing"]
  /\ UNCHANGED <<handling, phoneTimer, resendCache, expiry, asked, forgotten, conn>>

AlreadyRequested(d) ==
  /\ resend[d] = "waiting" /\ Unlocked(Msg(d)) /\ Msg(d) \in resendCache
  /\ resend' = [resend EXCEPT ![d] = "ended"]
  /\ UNCHANGED <<handling, phoneTimer, resendCache, expiry, asked, forgotten, conn>>

ResendStore(d) ==
  /\ resend[d] = "storing"
  /\ resend' = [resend EXCEPT ![d] = "delay"] /\ resendCache' = resendCache \cup {Msg(d)}
  /\ UNCHANGED <<handling, phoneTimer, expiry, asked, forgotten, conn>>

\* After the two seconds.
Resolved(d) ==
  /\ resend[d] = "delay" /\ Msg(d) \notin resendCache
  /\ resend' = [resend EXCEPT ![d] = "ended"]
  /\ UNCHANGED <<handling, phoneTimer, resendCache, expiry, asked, forgotten, conn>>

ResendAsk(d) ==
  /\ resend[d] = "delay" /\ Msg(d) \in resendCache
  /\ expiry' = expiry \cup {d}
  /\ \/ open /\ resend' = [resend EXCEPT ![d] = "ended"]
        /\ asked' = [asked EXCEPT ![Msg(d)] = @ + 1]
     \/ resend' = [resend EXCEPT ![d] = "failed"] /\ UNCHANGED asked
  /\ UNCHANGED <<handling, phoneTimer, resendCache, forgotten, conn>>

Forget(m) ==
  /\ resendCache' = resendCache \ {m}
  /\ forgotten' = [forgotten EXCEPT ![m] = IF m \in resendCache THEN @ + 1 ELSE @]

\* The 8 second timer of one request deletes the entry, whoever it is of by now.
ResendExpires(d) ==
  /\ d \in expiry /\ expiry' = expiry \ {d} /\ Forget(Msg(d))
  /\ UNCHANGED <<handling, phoneTimer, resend, asked, conn>>

\* A response of the phone (processMessage), to any request sent.
PhoneAnswers(m) ==
  /\ open /\ asked[m] > 0 /\ m \in resendCache /\ Forget(m)
  /\ UNCHANGED <<handling, phoneTimer, resend, expiry, asked, conn>>

\* The 3 second timer of schedulePhoneRequest.
PhoneTimer(m) ==
  /\ phoneTimer[m] # 0 /\ phoneTimer' = [phoneTimer EXCEPT ![m] = 0]
  /\ resend' = [resend EXCEPT ![phoneTimer[m]] = "waiting"]
  /\ UNCHANGED <<handling, resendCache, expiry, asked, forgotten, conn>>

-----------------------------------------------------------------------------
(* The connection goes away.                                               *)

Close ==
  /\ open /\ open' = FALSE
  /\ UNCHANGED <<handling, phoneTimer, phone, ended>>

\* The manager is cleared; the timers of requestPlaceholderResend run on.
EndHandlers ==
  /\ ~open /\ ~ended /\ ended' = TRUE
  /\ \/ /\ keeper = "manager" /\ phoneTimer' = [m \in Msgs |-> 0]
       /\ retryCounters' = [m \in Msgs |-> 0]
     \/ keeper # "manager" /\ UNCHANGED <<phoneTimer, retryCounters>>
  /\ UNCHANGED <<fixed, arrived, handler, offline, queues, done, failures, msgRetryCache, count,
                 sentCounts, phone, open>>

-----------------------------------------------------------------------------
Stanzas == Ignore \/ Receive \/ EnqueueFull \/ EnqueueWaits \/ EnqueueStarts
Backlog == NextQueued \/ BacklogEnds

Handle(d) ==
  \/ Mapped(d) \/ Decrypt(d) \/ Answer(d) \/ HistReceipt(d) \/ SkipUpsert(d) \/ Upsert(d)
  \/ Process(d) \/ Throws(d)

Retry(d) ==
  \/ RetrySkipped(d) \/ Charge(d) \/ BudgetSpent(d) \/ AskPhone(d) \/ PhoneAsked(d)
  \/ SendRetry(d) \/ Nack(d)

Resend(d) ==
  \/ ResendMiss(d) \/ AlreadyRequested(d) \/ ResendStore(d) \/ Resolved(d) \/ ResendAsk(d)
  \/ ResendExpires(d)

Next ==
  \/ Stanzas \/ Backlog \/ Close \/ EndHandlers
  \/ \E d \in Deliveries : Handle(d) \/ Retry(d) \/ Resend(d)
  \/ \E m \in Msgs : PhoneAnswers(m) \/ PhoneTimer(m)
  \/ \E i \in Identities : MarkExpires(i)

Spec == Init /\ [][Next]_vars

\* Awaits come back and timers fire; nothing is asked of the server and the phone.
Fairness ==
  WF_vars(Backlog) /\ WF_vars(\E d \in Deliveries : Handle(d) \/ Retry(d) \/ Resend(d))

FairSpec == Spec /\ Fairness

-----------------------------------------------------------------------------
Places == {"away", "queued", "lid", "chat", "answer", "histSync", "upsert", "process", "retry",
           "charged", "asking", "receipt", "nack", "done", "dropped"}

TypeOK ==
  /\ stanza \in Traffic /\ keeper \in Keepers /\ arrived \in 0..Len(stanza)
  /\ pc \in [Deliveries -> Places] /\ kind \in [Deliveries -> Kinds]
  /\ acked \in [Deliveries -> BOOLEAN] /\ answers \in [Deliveries -> Nat]
  /\ histReceipts \in [Deliveries -> Nat] /\ excused \in [Identities -> Nat]
  /\ backlog \in Seq(Deliveries) /\ current \in Deliveries \cup {0}
  /\ lidQueue \in [Alts -> Seq(Deliveries)] /\ chatQueue \in [Chats -> Seq(Deliveries)]
  /\ retryQueue \in Seq(Deliveries)
  /\ processed \subseteq Identities /\ failures \in 0..MaxFailures
       /\ upserts \in [Identities -> Nat]
  /\ retryCounters \in [Msgs -> 0..MaxRetry] /\ msgRetryCache \in [Msgs -> 0..MaxRetry]
  /\ count \in [Deliveries -> 0..MaxRetry]
  /\ sentCounts \in [Msgs -> Seq(0..MaxRetry)]
  /\ phoneTimer \in [Msgs -> Deliveries \cup {0}]
  /\ resend \in [Deliveries -> {"none", "waiting", "storing", "delay", "ended", "failed"}]
  /\ resendCache \subseteq Msgs /\ expiry \subseteq Deliveries
  /\ asked \in [Msgs -> Nat] /\ forgotten \in [Msgs -> Nat]
  /\ open \in BOOLEAN /\ ended \in BOOLEAN

\* No stanza is answered twice, whatever throws after its answer: the server
\* would take a nack after a receipt for a message it may throw away.  Beside its
\* answer a history message gets one receipt more, and never without the answer.
OneAnswer == \A d \in Deliveries : answers[d] <= 1 /\ histReceipts[d] <= answers[d]

\* Stanzas of a chat that take the same way to it are shown in the order they
\* arrived in: the mapping lock, the chat's lock and the backlog overtake none.
Lane(d) == <<Chat(d), Alt(d), stanza[d].offline>>
Inside(d) == pc[d] \in {"histSync", "upsert", "process"} \/ (pc[d] = "answer" /\ kind[d] # "msmsg")
LaneOrder ==
  \A d, e \in Deliveries :
    d < e /\ Lane(d) = Lane(e) /\ pc[d] \in {"queued", "lid", "chat"} => ~Inside(e)

\* However many copies of a message arrive, on whatever ways into its chat, each time
\* it is shown again is paid for: processing an earlier copy had thrown or had been
\* deferred, or the mark it left had expired.
UpsertOnce == \A i \in Identities : upserts[i] <= 1 + excused[i]

\* However copies of a message fail side by side, its retry receipts count up,
\* none repeating a count that is read back after awaits, and the phone is asked
\* for it again only after the first ask was forgotten.
Budgets ==
  \A m \in Msgs :
    /\ \A i, j \in DOMAIN sentCounts[m] : i < j => sentCounts[m][i] < sentCounts[m][j]
    /\ asked[m] <= 1 + forgotten[m]

\* Every stanza that was not dropped is answered, unless the connection closes:
\* again and again nothing that arrived is left to answer.
Settled(d) == answers[d] > 0 \/ (~open /\ pc[d] = "done")
Answered == []<>(\A d \in Deliveries : pc[d] \in {"away", "dropped"} \/ Settled(d))
=============================================================================
