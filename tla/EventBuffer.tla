----------------------------- MODULE EventBuffer -----------------------------
(***************************************************************************)
(* makeEventBuffer of lib/Utils/event-buffer.js with its users: buffered   *)
(* functions, the node handlers of lib/Socket/messages-recv.js             *)
(* (processNodeWithBuffer), the login buffer and the teardown of           *)
(* lib/Socket/socket.js.                                                   *)
(*                                                                         *)
(* Messages are followed by key and type, chats by the entries the buffer  *)
(* keeps of them.  A conditional update waits until the buffer has seen an *)
(* upsert of its chat.  The order of the object keys of messageUpserts is  *)
(* kept, because the label of a batch is the type of its first entry.      *)
(***************************************************************************)
EXTENDS Naturals, Sequences, SequencesExt

CONSTANTS
  Keys, Types, None,  \* message keys, upsert types, a value that is neither
  Chats,              \* chats
  PlainChats,         \* chats that plain updates are emitted for
  ConditionalChats,   \* chats the initial app state sync emits conditional updates for
  Functions,          \* concurrent calls of createBufferedFunction wrappers
  Nodes,              \* stanzas handled by processNodeWithBuffer
  Arriving,           \* keys of messages that arrive; the others are older messages
  Deletable,          \* keys a messages.delete may name
  ListenerAnyType,    \* a listener may answer a batch with any upsert type
  MaxEmits,           \* bound on messages.upsert emissions
  MaxFlushFailures    \* bound on flushes that throw (a logger that throws)

ASSUME EventBufferAssumption ==
  /\ None \notin Types \cup {"notify"} /\ Deletable \subseteq Keys /\ Arriving \subseteq Keys
  /\ PlainChats \subseteq Chats /\ ConditionalChats \subseteq Chats
  /\ ListenerAnyType \in BOOLEAN /\ MaxEmits \in Nat /\ MaxFlushFailures \in Nat

VARIABLES
  isBuffering, bufferCount,
  bufferTimeout, flushPendingTimeout,  \* the two owned timers, armed or not
  onlyBufferTimers,                    \* 100 ms timers of functions that were the only buffer
  order, entryType,                    \* data.messageUpserts: keys by insertion, type per key
  messageUpsertsCount, messageUpsertsType,
  messageDeletes,                      \* data.messageDeletes
  chatUpserts, chatUpdates, chatDeletes,
  reentered,                           \* emits suspended in the type gate, innermost first
  fn, node, login,                     \* users of the buffer
  destroyed, emits, failures,
  out, othersOut                        \* what the last step handed to the listeners

timers  == <<bufferTimeout, flushPendingTimeout, onlyBufferTimers>>
upserts == <<order, entryType, messageUpsertsCount, messageUpsertsType>>
chats   == <<chatUpserts, chatUpdates, chatDeletes>>
others  == <<messageDeletes, chats>>
users   == <<fn, node, login>>
bounds  == <<emits, failures>>
flags   == <<isBuffering, bufferCount>>
vars == <<flags, timers, upserts, others, reentered, users, destroyed, bounds, out, othersOut>>

Quiet == [keys |-> {}, label |-> None]
Silent == out' = Quiet /\ othersOut' = {}
NoUpserts == /\ order' = <<>> /\ entryType' = [k \in Keys |-> None]
             /\ messageUpsertsCount' = 0 /\ messageUpsertsType' = None

Init ==
  /\ isBuffering = FALSE /\ bufferCount = 0
  /\ bufferTimeout = FALSE /\ flushPendingTimeout = FALSE /\ onlyBufferTimers = 0
  /\ order = <<>> /\ entryType = [k \in Keys |-> None]
  /\ messageUpsertsCount = 0 /\ messageUpsertsType = None
  /\ messageDeletes = {} /\ chatUpserts = {} /\ chatDeletes = {}
  /\ chatUpdates = [c \in Chats |-> "none"]
  /\ reentered = <<>>
  /\ fn = [f \in Functions |-> "idle"] /\ node = [n \in Nodes |-> "idle"]
  /\ login = "idle"
  /\ destroyed = FALSE /\ emits = 0 /\ failures = 0
  /\ out = Quiet /\ othersOut = {}

\* JavaScript runs to completion: while an emit is inside the listeners of a
\* batch, only those listeners act.
Idle == reentered = <<>>

-----------------------------------------------------------------------------
(* buffer() and flush().                                                   *)

Buffer ==
  /\ isBuffering' = TRUE
  /\ bufferCount' = IF isBuffering THEN bufferCount + 1 ELSE 1
  /\ bufferTimeout' = TRUE

\* The listeners get the batch unless destroy() removed them.
Hand(keys, label, rest) ==
  /\ out' = IF keys = {} \/ destroyed THEN Quiet ELSE [keys |-> keys, label |-> label]
  /\ othersOut' = IF destroyed THEN {} ELSE rest

Tagged(kind, S) == {<<kind, x>> : x \in S}
Plain == {c \in Chats : chatUpdates[c] = "plain"}
Waiting == {c \in Chats : chatUpdates[c] = "waiting"}

\* consolidateEvents: everything but the waiting conditional updates.
HandAll ==
  Hand(ToSet(order), IF order = <<>> THEN None ELSE entryType[Head(order)],
       Tagged("chats.upsert", chatUpserts) \cup Tagged("chats.update", Plain)
         \cup Tagged("chats.delete", chatDeletes) \cup Tagged("messages.delete", messageDeletes))

\* Mutant: the conditional updates go with the old buffer.
SwapDataWhole ==
  /\ NoUpserts
  /\ messageDeletes' = {} /\ chatUpserts' = {} /\ chatDeletes' = {}
  /\ chatUpdates' = [c \in Chats |-> "none"]

\* The new data after a flush: conditional updates stay behind.
SwapData ==
  /\ NoUpserts
  /\ messageDeletes' = {} /\ chatUpserts' = {} /\ chatDeletes' = {}
  /\ chatUpdates' = [c \in Chats |-> IF c \in Waiting THEN "waiting" ELSE "none"]

Flush ==
  IF ~isBuffering THEN UNCHANGED <<flags, bufferTimeout, flushPendingTimeout, upserts, others>> /\ Silent
  ELSE /\ isBuffering' = FALSE /\ bufferCount' = 0
       /\ bufferTimeout' = FALSE /\ flushPendingTimeout' = FALSE
       /\ HandAll /\ SwapData

\* The first statement of flush() throws: nothing has changed yet.
FlushThrows ==
  /\ isBuffering /\ failures < MaxFlushFailures
  /\ failures' = failures + 1
  /\ UNCHANGED <<flags, upserts, others>> /\ Silent

-----------------------------------------------------------------------------
(* Users.                                                                  *)

StartFunction(f) ==
  /\ fn[f] = "idle" /\ fn' = [fn EXCEPT ![f] = "running"]
  /\ Buffer /\ Silent
  /\ UNCHANGED <<flushPendingTimeout, onlyBufferTimers, upserts, others, reentered, node,
                 login, destroyed, bounds>>

\* Mutant: the count is not kept from going below zero.
EndFunctionBelowZero(f) ==
  /\ Idle /\ fn[f] = "running" /\ fn' = [fn EXCEPT ![f] = "done"]
  /\ \/ onlyBufferTimers' = IF bufferCount = 1 THEN onlyBufferTimers + 1 ELSE onlyBufferTimers
     \/ UNCHANGED onlyBufferTimers
  /\ bufferCount' = bufferCount - 1
  /\ flushPendingTimeout' = (flushPendingTimeout \/ bufferCount' = 0)
  /\ Silent
  /\ UNCHANGED <<isBuffering, bufferTimeout, upserts, others, reentered, node, login,
                 destroyed, bounds>>

\* The tail of a buffered function.  Only a result, not a throw, arms the
\* timer for "the only buffer"; the finally block runs either way.
EndFunction(f) ==
  /\ Idle /\ fn[f] = "running" /\ fn' = [fn EXCEPT ![f] = "done"]
  /\ \/ onlyBufferTimers' = IF bufferCount = 1 THEN onlyBufferTimers + 1 ELSE onlyBufferTimers
     \/ UNCHANGED onlyBufferTimers
  /\ bufferCount' = IF bufferCount > 0 THEN bufferCount - 1 ELSE 0
  /\ flushPendingTimeout' = (flushPendingTimeout \/ bufferCount' = 0)
  /\ Silent
  /\ UNCHANGED <<isBuffering, bufferTimeout, upserts, others, reentered, node, login,
                 destroyed, bounds>>

StartNode(n) ==
  /\ Idle /\ node[n] = "idle" /\ node' = [node EXCEPT ![n] = "running"]
  /\ Buffer /\ Silent
  /\ UNCHANGED <<flushPendingTimeout, onlyBufferTimers, upserts, others, reentered, fn,
                 login, destroyed, bounds>>

EndNode(n) ==
  /\ Idle /\ node[n] = "running" /\ node' = [node EXCEPT ![n] = "done"]
  /\ \/ Flush /\ UNCHANGED failures
     \/ FlushThrows /\ UNCHANGED <<bufferTimeout, flushPendingTimeout>>
  /\ UNCHANGED <<onlyBufferTimers, reentered, fn, login, destroyed, emits>>

\* The nextTick of makeSocket for a logged in account.
StartLogin ==
  /\ Idle /\ login = "idle" /\ login' = "buffering"
  /\ Buffer /\ Silent
  /\ UNCHANGED <<flushPendingTimeout, onlyBufferTimers, upserts, others, reentered, fn, node,
                 destroyed, bounds>>

\* CB:ib,,offline: all offline notifications were handled.
OfflineDone ==
  /\ Idle /\ login = "buffering" /\ login' = "done"
  /\ Flush
  /\ UNCHANGED <<onlyBufferTimers, reentered, fn, node, destroyed, bounds>>

-----------------------------------------------------------------------------
(* Timers.  A deferred flush that throws re-arms the long one.             *)

NotDue == Silent /\ UNCHANGED <<flags, upserts, others, failures>>

\* Mutant: the failure strands the batch.
BufferTimeoutOnce ==
  /\ Idle /\ bufferTimeout
  /\ IF isBuffering
     THEN \/ Flush /\ UNCHANGED failures
          \/ FlushThrows /\ bufferTimeout' = FALSE /\ UNCHANGED flushPendingTimeout
     ELSE NotDue /\ bufferTimeout' = FALSE /\ UNCHANGED flushPendingTimeout
  /\ UNCHANGED <<onlyBufferTimers, reentered, users, destroyed, emits>>

BufferTimeout ==
  /\ Idle /\ bufferTimeout
  /\ IF isBuffering
     THEN \/ Flush /\ UNCHANGED failures
          \/ FlushThrows /\ bufferTimeout' = TRUE /\ UNCHANGED flushPendingTimeout
     ELSE NotDue /\ bufferTimeout' = FALSE /\ UNCHANGED flushPendingTimeout
  /\ UNCHANGED <<onlyBufferTimers, reentered, users, destroyed, emits>>

FlushPendingTimeout ==
  /\ Idle /\ flushPendingTimeout
  /\ IF isBuffering
     THEN \/ Flush /\ UNCHANGED failures
          \/ FlushThrows /\ bufferTimeout' = TRUE /\ flushPendingTimeout' = FALSE
     ELSE NotDue /\ flushPendingTimeout' = FALSE /\ UNCHANGED bufferTimeout
  /\ UNCHANGED <<onlyBufferTimers, reentered, users, destroyed, emits>>

OnlyBufferTimeout ==
  /\ Idle /\ onlyBufferTimers > 0 /\ onlyBufferTimers' = onlyBufferTimers - 1
  /\ IF isBuffering /\ bufferCount = 1
     THEN \/ Flush /\ UNCHANGED failures
          \/ FlushThrows /\ bufferTimeout' = TRUE /\ UNCHANGED flushPendingTimeout
     ELSE NotDue /\ UNCHANGED <<bufferTimeout, flushPendingTimeout>>
  /\ UNCHANGED <<reentered, users, destroyed, emits>>

-----------------------------------------------------------------------------
(* emit().                                                                 *)

\* append's messages.upsert case for one message.
AppendUpsert(k, t) ==
  LET known == entryType[k] # None
      type  == IF t = "notify" \/ entryType[k] = "notify" THEN "notify" ELSE t
  IN  /\ entryType' = [entryType EXCEPT ![k] = type]
      /\ order' = IF known THEN order ELSE Append(order, k)
      /\ messageUpsertsCount' = IF known THEN messageUpsertsCount ELSE messageUpsertsCount + 1
      /\ messageUpsertsType' = IF known \/ messageUpsertsType # None THEN messageUpsertsType
                               ELSE type

\* What follows the gate: append while buffering, else straight to listeners.
AfterGate(k, t) ==
  IF isBuffering
  THEN AppendUpsert(k, t) /\ Silent
  ELSE Hand({k}, t, {}) /\ UNCHANGED upserts

\* A listener answering a batch emits like everybody else.
MayEmit(t) == IF Idle \/ ListenerAnyType THEN TRUE ELSE Head(reentered).type = t

\* Mutant: the gate spares a lone message.
MismatchOfMany(t) == messageUpsertsCount > 1 /\ messageUpsertsType # t

\* The gate: the batch is retired before a message of another type goes in.
Mismatch(t) == messageUpsertsCount > 0 /\ messageUpsertsType # t

EmitUpsert(k, t) ==
  /\ MayEmit(t) /\ emits < MaxEmits /\ emits' = emits + 1
  /\ IF Mismatch(t)
     THEN /\ Hand(ToSet(order), messageUpsertsType, {})
          /\ NoUpserts
          /\ reentered' = <<[key |-> k, type |-> t]>> \o reentered
     ELSE /\ AfterGate(k, t)
          /\ UNCHANGED reentered
  /\ UNCHANGED <<flags, timers, others, users, destroyed, failures>>

\* The listeners of the retired batch return, and the suspended emit goes on.
ResumeEmit ==
  /\ reentered # <<>>
  /\ AfterGate(Head(reentered).key, Head(reentered).type)
  /\ reentered' = Tail(reentered)
  /\ UNCHANGED <<flags, timers, others, users, destroyed, bounds>>

EmitDelete(k) ==
  /\ k \in Deletable
  /\ IF isBuffering
     THEN /\ messageDeletes' = messageDeletes \cup {k}
          /\ IF entryType[k] = None THEN UNCHANGED upserts
             ELSE /\ entryType' = [entryType EXCEPT ![k] = None]
                  /\ order' = RemoveFirst(order, k)
                  /\ messageUpsertsCount' = messageUpsertsCount - 1
                  /\ UNCHANGED messageUpsertsType
          /\ Silent
     ELSE Hand({}, None, Tagged("messages.delete", {k})) /\ UNCHANGED <<upserts, messageDeletes>>
  /\ UNCHANGED <<flags, timers, chats, reentered, users, destroyed, bounds>>

ChatFrame == UNCHANGED <<flags, timers, upserts, messageDeletes, reentered, users, destroyed, bounds>>
ChatPasses(kind, c) == Hand({}, None, Tagged(kind, {c})) /\ UNCHANGED chats

\* chats.upsert absorbs the chat's update; a condition that now says no drops
\* the update with everything merged into it, which ends in the same entries.
EmitChatUpsert(c) ==
  /\ IF ~isBuffering THEN ChatPasses("chats.upsert", c)
     ELSE /\ chatUpserts' = chatUpserts \cup {c} /\ chatDeletes' = chatDeletes \ {c}
          /\ chatUpdates' = [chatUpdates EXCEPT ![c] = "none"]
          /\ Silent
  /\ ChatFrame

\* A plain chats.update is merged into the upsert of its chat, else into the
\* update that is there, a waiting one included.
EmitChatUpdate(c) ==
  /\ c \in PlainChats
  /\ IF ~isBuffering THEN ChatPasses("chats.update", c)
     ELSE /\ chatDeletes' = chatDeletes \ {c} /\ UNCHANGED chatUpserts
          /\ chatUpdates' = IF c \in chatUpserts \cup Waiting THEN chatUpdates
                            ELSE [chatUpdates EXCEPT ![c] = "plain"]
          /\ Silent
  /\ ChatFrame

\* A conditional one is decided at once if the upsert is there; else it takes
\* the place of whatever update there was.
EmitConditional(c) ==
  /\ c \in ConditionalChats
  /\ IF ~isBuffering THEN ChatPasses("chats.update", c)
     ELSE /\ chatDeletes' = chatDeletes \ {c} /\ UNCHANGED chatUpserts
          /\ chatUpdates' = IF c \in chatUpserts THEN chatUpdates
                            ELSE [chatUpdates EXCEPT ![c] = "waiting"]
          /\ Silent
  /\ ChatFrame

EmitChatDelete(c) ==
  /\ IF ~isBuffering THEN ChatPasses("chats.delete", c)
     ELSE /\ chatDeletes' = chatDeletes \cup {c} /\ chatUpserts' = chatUpserts \ {c}
          /\ chatUpdates' = [chatUpdates EXCEPT ![c] = "none"]
          /\ Silent
  /\ ChatFrame

-----------------------------------------------------------------------------
\* end(): flush, then destroy() drops whatever is left.
End ==
  /\ Idle /\ ~destroyed /\ destroyed' = TRUE
  /\ IF isBuffering THEN HandAll ELSE Silent
  /\ isBuffering' = FALSE /\ bufferCount' = 0
  /\ bufferTimeout' = FALSE /\ flushPendingTimeout' = FALSE
  /\ NoUpserts
  /\ messageDeletes' = {} /\ chatUpserts' = {} /\ chatDeletes' = {}
  /\ chatUpdates' = [c \in Chats |-> "none"]
  /\ UNCHANGED <<onlyBufferTimers, reentered, users, bounds>>

Timers == BufferTimeout \/ FlushPendingTimeout \/ OnlyBufferTimeout
FunctionStep(f) == StartFunction(f) \/ EndFunction(f)
NodeStep(n) == StartNode(n) \/ EndNode(n)
ChatStep(c) == EmitChatUpsert(c) \/ EmitChatUpdate(c) \/ EmitConditional(c) \/ EmitChatDelete(c)

Next ==
  \/ \E f \in Functions : FunctionStep(f)
  \/ \E n \in Nodes : NodeStep(n)
  \/ StartLogin \/ OfflineDone
  \/ Timers
  \/ \E k \in Arriving, t \in Types : EmitUpsert(k, t)
  \/ \E k \in Keys : EmitDelete(k)
  \/ \E c \in Chats : ChatStep(c)
  \/ ResumeEmit
  \/ End

Spec == Init /\ [][Next]_vars

\* The event loop runs due timers and returns from listeners.  Nothing makes a
\* stanza, a buffered function or the server's offline marker finish.
Fairness == WF_vars(BufferTimeout) /\ WF_vars(FlushPendingTimeout) /\ WF_vars(ResumeEmit)

FairSpec == Spec /\ Fairness

-----------------------------------------------------------------------------
TypeOK ==
  /\ isBuffering \in BOOLEAN /\ bufferCount \in Nat
  /\ bufferTimeout \in BOOLEAN /\ flushPendingTimeout \in BOOLEAN /\ onlyBufferTimers \in Nat
  /\ order \in Seq(Keys) /\ entryType \in [Keys -> Types \cup {None}]
  /\ messageUpsertsCount \in Nat /\ messageUpsertsType \in Types \cup {None}
  /\ messageDeletes \subseteq Keys
  /\ chatUpserts \subseteq Chats /\ chatDeletes \subseteq Chats
  /\ chatUpdates \in [Chats -> {"none", "plain", "waiting"}]
  /\ reentered \in Seq([key : Keys, type : Types])
  /\ fn \in [Functions -> {"idle", "running", "done"}]
  /\ node \in [Nodes -> {"idle", "running", "done"}]
  /\ login \in {"idle", "buffering", "done"}
  /\ destroyed \in BOOLEAN /\ emits \in 0..MaxEmits /\ failures \in 0..MaxFlushFailures
  /\ out \in [keys : SUBSET Keys, label : Types \cup {None}]
  /\ othersOut \subseteq {"chats.upsert", "chats.update", "chats.delete", "messages.delete"}
                           \X (Chats \cup Keys)

\* append() and flush(): a chat or message delete leaves the buffer only to the
\* listeners (a chat delete also for a later event that revives the chat), a
\* chat upsert also for a delete, and a conditional update only for an upsert
\* or a delete of its chat, until destroy().  A plain update may also be
\* replaced by a conditional one (chats.update stores that over it).
OthersDelivered ==
  [][/\ \A k \in messageDeletes \ messageDeletes' :
          <<"messages.delete", k>> \in othersOut' \/ destroyed
     /\ \A c \in chatUpserts \ chatUpserts' :
          <<"chats.upsert", c>> \in othersOut' \/ c \in chatDeletes' \/ destroyed
     /\ \A c \in chatDeletes \ chatDeletes' :
          \/ <<"chats.delete", c>> \in othersOut' \/ destroyed
          \/ c \in chatUpserts' \/ chatUpdates'[c] # "none"
     /\ \A c \in Plain :
          \/ chatUpdates'[c] # "none" \/ <<"chats.update", c>> \in othersOut' \/ destroyed
          \/ c \in chatUpserts' \cup chatDeletes'
     /\ \A c \in Waiting : \/ chatUpdates'[c] = "waiting" \/ destroyed'
                           \/ c \in chatUpserts' \cup chatDeletes']_vars

\* The scalar mirror has another type than the first entry: a delete took the
\* last buffered message and left its type behind (EmitDelete).
MirrorStale == order # <<>> /\ messageUpsertsType # entryType[Head(order)]

\* The promise to the listeners, until end() has taken them away: each message
\* reaches them with the type it was emitted with, once, or is withdrawn by a
\* delete; the flush of end() is part of it.  A step of a buffer whose mirror
\* is stale may break it, and only such a step.
Stream == INSTANCE EventStream WITH pending <- entryType, out <- out
KeepsPromise == Stream!Init /\ [][destroyed \/ MirrorStale \/ Stream!Next]_<<entryType, out>>

\* Whatever is buffered reaches the listeners or is withdrawn, however the
\* stanzas and functions that hold the buffer behave.
Released == \A k \in Arriving : entryType[k] # None ~> entryType[k] = None
=============================================================================
