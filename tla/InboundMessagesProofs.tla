------------------------- MODULE InboundMessagesProofs -------------------------
(***************************************************************************)
(* One answer per stanza, no overtaking, one upsert per mark, retries       *)
(* that count up and one request to the phone at a time, for all traffic,   *)
(* budgets and failures.                                                    *)
(*                                                                         *)
(* The inductive invariant has a part for each: Once says what acked and    *)
(* the answers are at every place of a handler; Waiting, Lines and Lanes    *)
(* (Passage) say who stands in the backlog and in which lock, behind whom;  *)
(* Shown balances the upserts, Hist the second receipt of a history         *)
(* message, Charges the retry receipts, and Asks the requests to the phone. *)
(* The locks are what Shown, Charges and Asks rest on.                      *)
(***************************************************************************)
EXTENDS InboundMessages, FiniteSetTheorems, TLAPS

Typed ==
  /\ stanza \in Traffic /\ arrived \in Nat
  /\ pc \in [Deliveries -> Places] /\ kind \in [Deliveries -> Kinds]
  /\ acked \in [Deliveries -> BOOLEAN] /\ answers \in [Deliveries -> Nat]

\* Away until it arrives.
InTurn == \A d \in Deliveries : pc[d] = "away" <=> d > arrived

Backlogged ==
  /\ backlog \in Seq(Deliveries)
  /\ \A i \in 1..Len(backlog) : pc[backlog[i]] = "queued"
  /\ \A i, j \in 1..Len(backlog) : backlog[i] = backlog[j] => i = j

Fresh == {"away", "queued", "lid", "chat"}
Owed == {"retry", "charged", "asking", "receipt", "nack"}

OnceAt(d) ==
  /\ answers[d] <= 1
  /\ pc[d] \in Fresh \cup Owed => answers[d] = 0 /\ ~acked[d]
  /\ pc[d] = "answer" => answers[d] = 0 /\ (acked[d] \/ kind[d] = "msmsg")
  /\ pc[d] = "histSync" => answers[d] = 1 /\ acked[d] /\ kind[d] # "error"
  /\ pc[d] \in {"upsert", "process"} =>
       \/ acked[d] /\ kind[d] # "error"
       \/ ~acked[d] /\ answers[d] = 0 /\ kind[d] = "error"

Once == \A d \in Deliveries : OnceAt(d)

Inv == Typed /\ InTurn /\ Backlogged /\ Once

\* The deliveries of a socket are numbered, and their kinds are kinds.
LEMMA StanzasTyped ==
  ASSUME stanza \in Traffic
  PROVE  Deliveries \subseteq Nat /\ \A d \in Deliveries : stanza[d].kinds \subseteq Kinds
<1>1. stanza \in Seq(Stanza)
  BY InboundMessagesAssumption
<1>2. DOMAIN stanza = 1..Len(stanza) /\ \A d \in DOMAIN stanza : stanza[d] \in Stanza
  BY <1>1
<1>3. QED BY <1>2 DEF Deliveries, Stanza

LEMMA InitInv == Init => Inv
<1> SUFFICES ASSUME Init PROVE Inv
  OBVIOUS
<1>1. Deliveries \subseteq Nat /\ stanza \in Traffic
  BY StanzasTyped DEF Init
<1>2. \A d \in Deliveries : d > 0
  <2>1. stanza \in Seq(Stanza)
    BY <1>1, InboundMessagesAssumption
  <2>2. DOMAIN stanza = 1..Len(stanza) /\ Len(stanza) \in Nat
    BY <2>1
  <2>3. QED BY <2>2 DEF Deliveries
<1>3. Typed
  BY <1>1 DEF Init, Typed, Places, Kinds
<1>4. InTurn
  BY <1>1, <1>2 DEF Init, InTurn
<1>5. Backlogged
  BY DEF Init, Backlogged
<1>6. Once
  BY DEF Init, Once, OnceAt, Fresh, Owed
<1>7. QED BY <1>3, <1>4, <1>5, <1>6 DEF Inv

\* Steps that touch neither a handler nor the backlog.
LEMMA QuietStep ==
  ASSUME Inv, UNCHANGED <<fixed, arrived, handler, offline>>
  PROVE  Inv'
<1>1. /\ stanza' = stanza /\ arrived' = arrived /\ pc' = pc /\ kind' = kind
      /\ acked' = acked /\ answers' = answers /\ backlog' = backlog
  BY DEF fixed, handler, offline
<1>2. Deliveries' = Deliveries
  BY <1>1 DEF Deliveries
<1>3. QED BY <1>1, <1>2 DEF Inv, Typed, InTurn, Backlogged, Once, OnceAt

\* A step of one handler, from a place past the backlog to another.
LEMMA HandlerStep ==
  ASSUME Inv, NEW d \in Deliveries, NEW l \in Places \ {"away", "queued"},
         pc[d] \notin {"away", "queued"}, Goto(d, l),
         UNCHANGED <<fixed, arrived, backlog>>,
         kind' \in [Deliveries -> Kinds], acked' \in [Deliveries -> BOOLEAN],
         answers' \in [Deliveries -> Nat],
         \A e \in Deliveries \ {d} :
           kind'[e] = kind[e] /\ acked'[e] = acked[e] /\ answers'[e] = answers[e],
         OnceAt(d)'
  PROVE  Inv'
<1>1. stanza' = stanza /\ Deliveries' = Deliveries
  BY DEF fixed, Deliveries
<1>2. pc' \in [Deliveries -> Places] /\ pc'[d] = l /\ \A e \in Deliveries \ {d} : pc'[e] = pc[e]
  BY DEF Goto, Inv, Typed
<1>3. Typed'
  BY <1>1, <1>2 DEF Inv, Typed
<1>4. InTurn'
  BY <1>1, <1>2 DEF Inv, InTurn
<1>5. Backlogged'
  <2>1. \A i \in 1..Len(backlog) : backlog[i] \in Deliveries \ {d}
    BY DEF Inv, Backlogged
  <2>2. QED BY <1>1, <1>2, <2>1 DEF Inv, Backlogged
<1>6. \A e \in Deliveries \ {d} : OnceAt(e)'
  BY <1>2 DEF Inv, Once, OnceAt
<1>7. Once'
  BY <1>1, <1>6 DEF Once
<1>8. QED BY <1>3, <1>4, <1>5, <1>7 DEF Inv

\* What sending does to the answers.
LEMMA SendCounts ==
  ASSUME Typed, NEW d \in Deliveries, Send(d)
  PROVE  /\ answers' \in [Deliveries -> Nat]
         /\ answers'[d] \in {answers[d], answers[d] + 1}
         /\ \A e \in Deliveries \ {d} : answers'[e] = answers[e]
<1> DEFINE n == IF open THEN answers[d] + 1 ELSE answers[d]
<1>1. answers \in [Deliveries -> Nat] /\ answers[d] \in Nat
  BY DEF Typed
<1>2. n \in Nat /\ n \in {answers[d], answers[d] + 1}
  BY <1>1
<1>3. answers' = [answers EXCEPT ![d] = n]
  BY DEF Send
<1> HIDE DEF n
<1>4. QED BY <1>1, <1>2, <1>3

\* The start of a handler, for a stanza that was not handled before.
LEMMA BeginStep ==
  ASSUME Inv, NEW d \in Deliveries, pc[d] \in Fresh, NEW k \in Kinds, Begin(d, k)
  PROVE  /\ \E l \in {"answer", "chat", "lid"} : Goto(d, l)
         /\ kind' \in [Deliveries -> Kinds] /\ acked' = acked /\ answers' = answers
         /\ \A e \in Deliveries \ {d} : kind'[e] = kind[e]
         /\ OnceAt(d)'
<1>1. kind' = [kind EXCEPT ![d] = k] /\ acked' = acked /\ answers' = answers
  BY DEF Begin
<1>2. /\ kind' \in [Deliveries -> Kinds] /\ kind'[d] = k
      /\ \A e \in Deliveries \ {d} : kind'[e] = kind[e]
  BY <1>1 DEF Inv, Typed
<1>3. \/ Goto(d, "answer") /\ k = "msmsg"
      \/ Goto(d, "chat")
      \/ Goto(d, "lid")
  BY DEF Begin, JoinChat, Goto
<1>4. answers[d] = 0 /\ ~acked[d]
  BY DEF Inv, Once, OnceAt
<1>5. pc \in [Deliveries -> Places]
  BY DEF Inv, Typed
<1>6. OnceAt(d)'
  BY <1>1, <1>2, <1>3, <1>4, <1>5 DEF OnceAt, Goto, Fresh, Owed
<1>7. QED BY <1>1, <1>2, <1>3, <1>6

\* A stanza arrives and gets its place.
LEMMA ArrivalStep ==
  ASSUME Inv, Arrives, NEW d, d = Next1, NEW l \in Places \ {"away"}, Goto(d, l), Backlogged',
         kind' \in [Deliveries -> Kinds], acked' = acked, answers' \in [Deliveries -> Nat],
         \A e \in Deliveries \ {d} : kind'[e] = kind[e] /\ answers'[e] = answers[e],
         OnceAt(d)'
  PROVE  Inv'
<1>1. stanza' = stanza /\ Deliveries' = Deliveries /\ arrived' = Next1 /\ d \in Deliveries
  BY DEF Arrives, fixed, Deliveries
<1>2. /\ pc' \in [Deliveries -> Places] /\ pc'[d] = l
      /\ \A e \in Deliveries \ {d} : pc'[e] = pc[e]
  BY <1>1 DEF Goto, Inv, Typed
<1>3. Deliveries \subseteq Nat /\ arrived \in Nat
  BY StanzasTyped DEF Inv, Typed
<1>4. Typed'
  BY <1>1, <1>2, <1>3 DEF Inv, Typed, Next1
<1>5. InTurn'
  BY <1>1, <1>2, <1>3 DEF Inv, InTurn, Next1
<1>6. \A e \in Deliveries \ {d} : OnceAt(e)'
  BY <1>2 DEF Inv, Once, OnceAt
<1>7. Once'
  BY <1>1, <1>6 DEF Once
<1>8. QED BY <1>4, <1>5, <1>7 DEF Inv

\* The stanza that arrives has not been handled and is not in the backlog.
LEMMA Arriving ==
  ASSUME Inv, Arrives, NEW d, d = Next1
  PROVE  /\ d \in Deliveries /\ pc[d] = "away" /\ answers[d] = 0 /\ ~acked[d]
         /\ \A i \in 1..Len(backlog) : backlog[i] \in Deliveries \ {d}
<1>1. d \in Deliveries
  BY DEF Arrives
<1>2. pc[d] = "away"
  <2>1. arrived \in Nat /\ Deliveries \subseteq Nat
    BY StanzasTyped DEF Inv, Typed
  <2>2. QED BY <1>1, <2>1 DEF Inv, InTurn, Next1
<1>3. answers[d] = 0 /\ ~acked[d]
  BY <1>1, <1>2 DEF Inv, Once, OnceAt, Fresh
<1>4. \A i \in 1..Len(backlog) : backlog[i] \in Deliveries \ {d}
  BY <1>2 DEF Inv, Backlogged
<1>5. QED BY <1>1, <1>2, <1>3, <1>4

\* It leaves the backlog as it is.
LEMMA BacklogKept ==
  ASSUME Inv, Arrives, NEW d, d = Next1, NEW l, Goto(d, l), backlog' = backlog
  PROVE  Backlogged'
<1>1. Deliveries' = Deliveries
  BY DEF Arrives, fixed, Deliveries
<1>2. \A e \in Deliveries \ {d} : pc'[e] = pc[e]
  BY Arriving DEF Goto, Inv, Typed
<1>3. QED BY <1>1, <1>2, Arriving DEF Inv, Backlogged

LEMMA IgnoreInv == Inv /\ Ignore => Inv'
<1> SUFFICES ASSUME Inv, Ignore, NEW d, d = Next1 PROVE Inv'
  OBVIOUS
<1>1. Arrives /\ Send(d) /\ Goto(d, "done") /\ kind' = kind /\ acked' = acked /\ backlog' = backlog
  BY DEF Ignore, offline
<1>2. /\ answers' \in [Deliveries -> Nat] /\ answers'[d] \in {0, 1}
      /\ \A e \in Deliveries \ {d} : answers'[e] = answers[e]
  BY <1>1, Arriving, SendCounts DEF Inv
<1>3. OnceAt(d)'
  BY <1>1, <1>2, Arriving DEF OnceAt, Goto, Inv, Typed, Fresh, Owed
<1>4. Backlogged'
  BY <1>1, BacklogKept
<1>5. kind' \in [Deliveries -> Kinds] /\ "done" \in Places \ {"away"}
  BY <1>1 DEF Inv, Typed, Places
<1>6. QED BY <1>1, <1>2, <1>3, <1>4, <1>5, ArrivalStep

LEMMA StartInv ==
  ASSUME Inv, Arrives, NEW d, d = Next1, NEW k \in Kinds, Begin(d, k), backlog' = backlog
  PROVE  Inv'
<1>1. d \in Deliveries /\ pc[d] \in Fresh
  BY Arriving DEF Fresh
<1>2. PICK l \in {"answer", "chat", "lid"} : Goto(d, l)
  BY <1>1, BeginStep
<1>3. /\ kind' \in [Deliveries -> Kinds] /\ acked' = acked /\ answers' = answers
      /\ \A e \in Deliveries \ {d} : kind'[e] = kind[e]
      /\ OnceAt(d)'
  BY <1>1, BeginStep
<1>4. Backlogged'
  BY <1>2, BacklogKept
<1>5. l \in Places \ {"away"} /\ answers' \in [Deliveries -> Nat]
  BY <1>3 DEF Places, Inv, Typed
<1>6. QED BY <1>2, <1>3, <1>4, <1>5, ArrivalStep

LEMMA ReceiveInv == Inv /\ (Receive \/ EnqueueStarts) => Inv'
<1> SUFFICES ASSUME Inv, Receive \/ EnqueueStarts, NEW d, d = Next1 PROVE Inv'
  OBVIOUS
<1>1. /\ Arrives /\ backlog' = backlog
      /\ \E k \in stanza[d].kinds \ {"ignored"} : Begin(d, k)
  BY DEF Receive, EnqueueStarts, offline
<1>2. stanza[d].kinds \subseteq Kinds
  BY <1>1, StanzasTyped, Arriving DEF Inv, Typed
<1>3. PICK k \in Kinds : Begin(d, k)
  BY <1>1, <1>2
<1>4. QED BY <1>1, <1>3, StartInv

LEMMA EnqueueFullInv == Inv /\ EnqueueFull => Inv'
<1> SUFFICES ASSUME Inv, EnqueueFull, NEW d, d = Next1 PROVE Inv'
  OBVIOUS
<1>1. /\ Arrives /\ Goto(d, "dropped") /\ kind' = kind /\ acked' = acked
      /\ answers' = answers /\ backlog' = backlog
  BY DEF EnqueueFull, offline
<1>2. OnceAt(d)'
  BY <1>1, Arriving DEF OnceAt, Goto, Inv, Typed, Fresh, Owed
<1>3. Backlogged'
  BY <1>1, BacklogKept
<1>4. "dropped" \in Places \ {"away"} /\ kind' \in [Deliveries -> Kinds]
        /\ answers' \in [Deliveries -> Nat]
  BY <1>1 DEF Places, Inv, Typed
<1>5. QED BY <1>1, <1>2, <1>3, <1>4, ArrivalStep

LEMMA EnqueueWaitsInv == Inv /\ EnqueueWaits => Inv'
<1> SUFFICES ASSUME Inv, EnqueueWaits, NEW d, d = Next1 PROVE Inv'
  OBVIOUS
<1>1. /\ Arrives /\ Goto(d, "queued") /\ kind' = kind /\ acked' = acked
      /\ answers' = answers /\ backlog' = Append(backlog, d)
  BY DEF EnqueueWaits
<1>2. OnceAt(d)'
  BY <1>1, Arriving DEF OnceAt, Goto, Inv, Typed, Fresh, Owed
<1>3. Deliveries' = Deliveries
  BY <1>1 DEF Arrives, fixed, Deliveries
<1>4. pc'[d] = "queued" /\ \A e \in Deliveries \ {d} : pc'[e] = pc[e]
  BY <1>1, Arriving DEF Goto, Inv, Typed
<1>5. backlog \in Seq(Deliveries) /\ Len(backlog) \in Nat
  BY DEF Inv, Backlogged
<1>6. /\ backlog' \in Seq(Deliveries) /\ Len(backlog') = Len(backlog) + 1
      /\ \A i \in 1..Len(backlog) : backlog'[i] = backlog[i]
      /\ backlog'[Len(backlog) + 1] = d
  BY <1>1, <1>5, Arriving
<1>7. \A i \in 1..Len(backlog') : i \in 1..Len(backlog) \/ i = Len(backlog) + 1
  BY <1>5, <1>6
<1>8. \A i \in 1..Len(backlog) : pc[backlog[i]] = "queued" /\ backlog[i] \in Deliveries \ {d}
  BY Arriving, <1>1 DEF Inv, Backlogged
<1>9. \A i \in 1..Len(backlog') : pc'[backlog'[i]] = "queued"
  BY <1>4, <1>6, <1>7, <1>8
<1>10. \A i, j \in 1..Len(backlog) : backlog[i] = backlog[j] => i = j
  BY DEF Inv, Backlogged
<1>11. \A i, j \in 1..Len(backlog') : backlog'[i] = backlog'[j] => i = j
  BY <1>6, <1>7, <1>8, <1>10
<1>12. Backlogged'
  BY <1>3, <1>6, <1>9, <1>11 DEF Backlogged
<1>13. "queued" \in Places \ {"away"} /\ kind' \in [Deliveries -> Kinds]
         /\ answers' \in [Deliveries -> Nat]
  BY <1>1 DEF Places, Inv, Typed
<1>14. QED BY <1>1, <1>2, <1>12, <1>13, ArrivalStep

\* The head of the backlog is handled next.
LEMMA NextQueuedInv == Inv /\ NextQueued => Inv'
<1> SUFFICES ASSUME Inv, NextQueued, NEW d, d = Head(backlog) PROVE Inv'
  OBVIOUS
<1>1. /\ backlog # <<>> /\ backlog' = Tail(backlog) /\ fixed' = fixed /\ arrived' = arrived
      /\ \E k \in stanza[d].kinds \ {"ignored"} : Begin(d, k)
  BY DEF NextQueued
<1>2. backlog \in Seq(Deliveries) /\ Len(backlog) \in Nat \ {0} /\ d = backlog[1]
  BY <1>1 DEF Inv, Backlogged
<1>3. d \in Deliveries /\ pc[d] = "queued"
  BY <1>2 DEF Inv, Backlogged
<1>4. PICK k \in Kinds : Begin(d, k)
  BY <1>1, <1>3, StanzasTyped DEF Inv, Typed
<1>5. d \in Deliveries /\ pc[d] \in Fresh
  BY <1>3 DEF Fresh
<1>6. PICK l \in {"answer", "chat", "lid"} : Goto(d, l)
  BY <1>4, <1>5, BeginStep
<1>7. /\ kind' \in [Deliveries -> Kinds] /\ acked' = acked /\ answers' = answers
      /\ \A e \in Deliveries \ {d} : kind'[e] = kind[e]
      /\ OnceAt(d)'
  BY <1>4, <1>5, BeginStep
<1>8. stanza' = stanza /\ Deliveries' = Deliveries
  BY <1>1 DEF fixed, Deliveries
<1>9. pc' \in [Deliveries -> Places] /\ pc'[d] = l /\ \A e \in Deliveries \ {d} : pc'[e] = pc[e]
  BY <1>3, <1>6 DEF Goto, Inv, Typed, Places
<1>10. Typed'
  BY <1>1, <1>7, <1>8, <1>9 DEF Inv, Typed
<1>11. InTurn'
  BY <1>1, <1>3, <1>8, <1>9 DEF Inv, InTurn
<1>12. Backlogged'
  <2>1. /\ backlog' \in Seq(Deliveries) /\ Len(backlog') = Len(backlog) - 1
        /\ \A i \in 1..Len(backlog') : backlog'[i] = backlog[i + 1]
    BY <1>1, <1>2
  <2>2. \A i \in 1..Len(backlog') : i + 1 \in 1..Len(backlog) /\ i + 1 # 1
    BY <1>2, <2>1
  <2>3. \A i, j \in 1..Len(backlog) : backlog[i] = backlog[j] => i = j
    BY DEF Inv, Backlogged
  <2>4. \A i \in 1..Len(backlog) : backlog[i] \in Deliveries /\ pc[backlog[i]] = "queued"
    BY <1>2 DEF Inv, Backlogged
  <2>5. \A i \in 1..Len(backlog') : backlog'[i] \in Deliveries \ {d} /\ pc[backlog'[i]] = "queued"
    BY <1>2, <2>1, <2>2, <2>3, <2>4
  <2>6. \A i \in 1..Len(backlog') : pc'[backlog'[i]] = "queued"
    BY <1>9, <2>5
  <2>7. \A i, j \in 1..Len(backlog') : backlog'[i] = backlog'[j] => i = j
    <3> SUFFICES ASSUME NEW i \in 1..Len(backlog'), NEW j \in 1..Len(backlog'),
                        backlog'[i] = backlog'[j]
                 PROVE  i = j
      OBVIOUS
    <3>1. i + 1 = j + 1
      BY <2>1, <2>2, <2>3
    <3>2. i \in Int /\ j \in Int
      BY <1>2, <2>1
    <3>3. QED BY <3>1, <3>2
  <2>8. QED BY <1>8, <2>1, <2>6, <2>7 DEF Backlogged
<1>13. \A e \in Deliveries \ {d} : OnceAt(e)'
  BY <1>7, <1>9 DEF Inv, Once, OnceAt
<1>14. Once'
  BY <1>7, <1>8, <1>13 DEF Once
<1>15. QED BY <1>10, <1>11, <1>12, <1>14 DEF Inv

\* What is left in the backlog of a closed connection is dropped unhandled.
LEMMA BacklogEndsInv == Inv /\ BacklogEnds => Inv'
<1> SUFFICES ASSUME Inv, BacklogEnds PROVE Inv'
  OBVIOUS
<1>1. /\ backlog' = <<>> /\ fixed' = fixed /\ arrived' = arrived /\ kind' = kind
      /\ acked' = acked /\ answers' = answers
      /\ pc' = [d \in Deliveries |-> IF d \in ToSet(backlog) THEN "dropped" ELSE pc[d]]
  BY DEF BacklogEnds, DropQueued
<1>2. stanza' = stanza /\ Deliveries' = Deliveries
  BY <1>1 DEF fixed, Deliveries
<1>3. \A d \in Deliveries : d \in ToSet(backlog) => pc[d] = "queued"
  <2>1. backlog \in Seq(Deliveries) /\ \A i \in 1..Len(backlog) : pc[backlog[i]] = "queued"
    BY DEF Inv, Backlogged
  <2>2. DOMAIN backlog = 1..Len(backlog)
    BY <2>1
  <2>3. QED BY <2>1, <2>2 DEF ToSet
<1>4. \A d \in Deliveries : pc'[d] = pc[d] \/ (pc[d] = "queued" /\ pc'[d] = "dropped")
  BY <1>1, <1>3
<1>5. pc' \in [Deliveries -> Places]
  BY <1>1, <1>4 DEF Inv, Typed, Places
<1>6. Typed'
  BY <1>1, <1>2, <1>5 DEF Inv, Typed
<1>7. InTurn'
  BY <1>1, <1>2, <1>4 DEF Inv, InTurn
<1>8. Backlogged'
  BY <1>1 DEF Backlogged
<1>9. Once'
  BY <1>1, <1>2, <1>4 DEF Inv, Once, OnceAt, Fresh, Owed
<1>10. QED BY <1>6, <1>7, <1>8, <1>9 DEF Inv

\* HandlerStep for the steps that answer nothing and keep acked and kind.
LEMMA SilentStep ==
  ASSUME Inv, NEW d \in Deliveries, NEW l \in Places \ {"away", "queued"},
         pc[d] \notin {"away", "queued"}, Goto(d, l),
         UNCHANGED <<fixed, arrived, backlog, kind, acked, answers>>,
         OnceAt(d)'
  PROVE  Inv'
BY HandlerStep DEF Inv, Typed

\* HandlerStep for the answers.
LEMMA SendStep ==
  ASSUME Inv, NEW d \in Deliveries, NEW l \in {"done", "upsert"},
         pc[d] \notin {"away", "queued"}, Goto(d, l), Send(d), answers[d] = 0,
         l = "upsert" => acked[d] /\ kind[d] # "error",
         UNCHANGED <<fixed, arrived, backlog, kind>>,
         \/ acked' = acked
         \/ acked' = [acked EXCEPT ![d] = TRUE]
  PROVE  Inv'
<1>1. /\ answers' \in [Deliveries -> Nat] /\ answers'[d] \in {0, 1}
      /\ \A e \in Deliveries \ {d} : answers'[e] = answers[e]
  BY SendCounts DEF Inv
<1>2. /\ acked' \in [Deliveries -> BOOLEAN] /\ (acked[d] => acked'[d])
      /\ \A e \in Deliveries \ {d} : acked'[e] = acked[e]
  BY DEF Inv, Typed
<1>3. OnceAt(d)'
  <2>1. pc'[d] = l
    BY DEF Goto, Inv, Typed
  <2>2. answers'[d] <= 1
    BY <1>1
  <2>3. l = "upsert" => acked'[d] /\ kind'[d] # "error"
    BY <1>2
  <2>4. QED BY <2>1, <2>2, <2>3 DEF OnceAt, Fresh, Owed
<1>4. l \in Places \ {"away", "queued"} /\ kind' \in [Deliveries -> Kinds]
  BY DEF Places, Inv, Typed
<1>5. QED BY <1>1, <1>2, <1>3, <1>4, HandlerStep

\* The catch block ends a handler with one answer in all.
LEMMA CatchStep ==
  ASSUME Inv, NEW d \in Deliveries, pc[d] \in {"lid", "chat", "process"}, Catch(d),
         UNCHANGED <<fixed, arrived, backlog, kind>>
  PROVE  Inv'
<1>1. Goto(d, "done") /\ acked' = acked
  BY DEF Catch
<1>2. CASE ~acked[d]
  <2>1. Send(d)
    BY <1>2 DEF Catch
  <2>2. answers[d] = 0
    BY <1>2 DEF Inv, Once, OnceAt, Fresh
  <2>3. QED BY <1>1, <2>1, <2>2, SendStep
<1>3. CASE acked[d]
  <2>1. answers' = answers
    BY <1>3 DEF Catch
  <2>2. OnceAt(d)'
    BY <1>1, <2>1 DEF OnceAt, Goto, Inv, Typed, Once, Fresh, Owed
  <2>3. "done" \in Places \ {"away", "queued"}
    BY DEF Places
  <2>4. QED BY <1>1, <2>1, <2>2, <2>3, SilentStep
<1>4. QED BY <1>2, <1>3

\* Every step of a handler.
LEMMA HandleInv == ASSUME Inv, NEW d \in Deliveries, Handle(d) PROVE Inv'
<1>1. CASE Mapped(d)
  <2>1. pc[d] = "lid" /\ UNCHANGED <<fixed, arrived, backlog, kind>>
    BY <1>1 DEF Mapped, offline
  <2>2. \/ Goto(d, "chat") /\ acked' = acked /\ answers' = answers
        \/ Catch(d)
    BY <1>1 DEF Mapped, JoinChat, Goto
  <2>3. CASE Goto(d, "chat") /\ acked' = acked /\ answers' = answers
    <3>1. OnceAt(d)'
      BY <2>1, <2>3 DEF OnceAt, Goto, Inv, Typed, Once, Fresh, Owed
    <3>2. "chat" \in Places \ {"away", "queued"}
      BY DEF Places
    <3>3. QED BY <2>1, <2>3, <3>1, <3>2, SilentStep
  <2>4. QED BY <2>1, <2>2, <2>3, CatchStep
<1>2. CASE Decrypt(d)
  <2>1. /\ pc[d] = "chat" /\ UNCHANGED <<fixed, arrived, backlog, answers>>
        /\ answers[d] = 0 /\ ~acked[d]
    BY <1>2 DEF Decrypt, InChat, offline, Inv, Once, OnceAt, Fresh
  <2>2. PICK k \in Kinds :
          /\ kind' = [kind EXCEPT ![d] = k]
          /\ \/ k = "error" /\ Goto(d, "upsert") /\ acked' = acked
             \/ k # "error" /\ Goto(d, "answer") /\ acked' = [acked EXCEPT ![d] = TRUE]
    BY <1>2, StanzasTyped DEF Decrypt, Inv, Typed
  <2>3. /\ kind' \in [Deliveries -> Kinds] /\ kind'[d] = k
        /\ \A e \in Deliveries \ {d} : kind'[e] = kind[e]
    BY <2>2 DEF Inv, Typed
  <2>4. /\ acked' \in [Deliveries -> BOOLEAN]
        /\ \A e \in Deliveries \ {d} : acked'[e] = acked[e]
    BY <2>2 DEF Inv, Typed
  <2>5. answers' \in [Deliveries -> Nat] /\ answers'[d] = 0
    BY <2>1 DEF Inv, Typed
  <2>6. CASE k = "error"
    <3>1. Goto(d, "upsert") /\ acked' = acked
      BY <2>2, <2>6
    <3>2. OnceAt(d)'
      BY <2>1, <2>3, <2>5, <2>6, <3>1 DEF OnceAt, Goto, Inv, Typed, Fresh, Owed
    <3>3. "upsert" \in Places \ {"away", "queued"}
      BY DEF Places
    <3>4. QED BY <2>1, <2>3, <2>4, <2>5, <3>1, <3>2, <3>3, HandlerStep
  <2>7. CASE k # "error"
    <3>1. Goto(d, "answer") /\ acked' = [acked EXCEPT ![d] = TRUE]
      BY <2>2, <2>7
    <3>2. pc'[d] = "answer" /\ acked'[d]
      BY <3>1 DEF Goto, Inv, Typed
    <3>3. OnceAt(d)'
      BY <2>5, <3>2 DEF OnceAt, Fresh, Owed
    <3>4. "answer" \in Places \ {"away", "queued"}
      BY DEF Places
    <3>5. QED BY <2>1, <2>3, <2>4, <2>5, <3>1, <3>3, <3>4, HandlerStep
  <2>8. QED BY <2>6, <2>7
<1>3. CASE Answer(d)
  <2>1. /\ pc[d] = "answer" /\ Send(d) /\ acked' = acked
        /\ UNCHANGED <<fixed, arrived, backlog, kind>>
    BY <1>3 DEF Answer, offline
  <2>2. answers[d] = 0 /\ (acked[d] \/ kind[d] = "msmsg")
    BY <2>1 DEF Inv, Once, OnceAt
  <2>3. CASE open /\ kind[d] = "history" /\ Goto(d, "histSync")
    <3>1. /\ answers' \in [Deliveries -> Nat] /\ answers'[d] = 1
          /\ \A e \in Deliveries \ {d} : answers'[e] = answers[e]
      BY <2>1, <2>2, <2>3 DEF Send, Inv, Typed
    <3>2. pc'[d] = "histSync" /\ kind'[d] # "error" /\ acked'[d]
      BY <2>1, <2>2, <2>3 DEF Goto, Inv, Typed
    <3>3. OnceAt(d)'
      BY <3>1, <3>2 DEF OnceAt, Fresh, Owed
    <3>4. /\ "histSync" \in Places \ {"away", "queued"} /\ kind' \in [Deliveries -> Kinds]
          /\ acked' \in [Deliveries -> BOOLEAN]
      BY <2>1 DEF Places, Inv, Typed
    <3>5. QED BY <2>1, <2>3, <3>1, <3>3, <3>4, HandlerStep
  <2>4. CASE \E l \in {"done", "upsert"} :
               Goto(d, l) /\ (l = "upsert" => kind[d] \in {"ok", "resend"})
    <3>1. PICK l \in {"done", "upsert"} :
            Goto(d, l) /\ (l = "upsert" => kind[d] \in {"ok", "resend"})
      BY <2>4
    <3>2. l = "upsert" => acked[d] /\ kind[d] # "error"
      BY <2>2, <3>1
    <3>3. QED BY <2>1, <2>2, <3>1, <3>2, SendStep
  <2>5. QED BY <1>3, <2>3, <2>4 DEF Answer
<1>4. CASE SkipUpsert(d) \/ Process(d)
  <2>1. /\ pc[d] \in {"upsert", "process"}
        /\ UNCHANGED <<fixed, arrived, backlog, kind, acked, answers>>
        /\ \/ kind[d] = "error" /\ Goto(d, "retry")
           \/ kind[d] # "error" /\ Goto(d, "done")
    BY <1>4 DEF SkipUpsert, Process, AfterChat, offline
  <2>2. PICK l \in {"retry", "done"} : Goto(d, l) /\ (l = "retry" => kind[d] = "error")
    BY <2>1
  <2>3. OnceAt(d)'
    BY <2>1, <2>2 DEF OnceAt, Goto, Inv, Typed, Once, Fresh, Owed
  <2>4. l \in Places \ {"away", "queued"}
    BY DEF Places
  <2>5. QED BY <2>1, <2>2, <2>3, <2>4, SilentStep
<1>5. CASE Upsert(d)
  <2>1. /\ pc[d] = "upsert" /\ Goto(d, "process")
        /\ UNCHANGED <<fixed, arrived, backlog, kind, acked, answers>>
    BY <1>5 DEF Upsert, offline
  <2>2. OnceAt(d)'
    BY <2>1 DEF OnceAt, Goto, Inv, Typed, Once, Fresh, Owed
  <2>3. "process" \in Places \ {"away", "queued"}
    BY DEF Places
  <2>4. QED BY <2>1, <2>2, <2>3, SilentStep
<1>6. CASE Throws(d)
  <2>1. /\ pc[d] \in {"chat", "process"} /\ Catch(d)
        /\ UNCHANGED <<fixed, arrived, backlog, kind>>
    BY <1>6 DEF Throws, InChat, offline
  <2>2. QED BY <2>1, CatchStep
<1>7. CASE HistReceipt(d)
  <2>1. /\ pc[d] = "histSync" /\ UNCHANGED <<fixed, arrived, backlog, kind, acked, answers>>
    BY <1>7 DEF HistReceipt, offline
  <2>2. PICK l \in {"upsert", "done"} : Goto(d, l)
    BY <1>7 DEF HistReceipt
  <2>3. OnceAt(d)'
    BY <2>1, <2>2 DEF OnceAt, Goto, Inv, Typed, Once, Fresh, Owed
  <2>4. l \in Places \ {"away", "queued"}
    BY DEF Places
  <2>5. QED BY <2>1, <2>2, <2>3, <2>4, SilentStep
<1>8. QED BY <1>1, <1>2, <1>3, <1>4, <1>5, <1>6, <1>7 DEF Handle

\* Every step of a retry: only its nack answers.
LEMMA RetryInv == ASSUME Inv, NEW d \in Deliveries, Retry(d) PROVE Inv'
<1>1. CASE Nack(d)
  <2>1. /\ pc[d] = "nack" /\ Goto(d, "done") /\ Send(d)
        /\ acked' = [acked EXCEPT ![d] = TRUE] /\ UNCHANGED <<fixed, arrived, backlog, kind>>
    BY <1>1 DEF Nack, offline
  <2>2. answers[d] = 0
    BY <2>1 DEF Inv, Once, OnceAt, Owed
  <2>3. QED BY <2>1, <2>2, SendStep
<1>2. CASE ~Nack(d)
  <2>1. /\ pc[d] \in Owed /\ UNCHANGED <<fixed, arrived, backlog, kind, acked, answers>>
        /\ \E l \in Owed \cup {"done"} : Goto(d, l)
    <3>1. CASE RetrySkipped(d)
      BY <3>1 DEF RetrySkipped, RetryTurn, offline, Owed
    <3>2. CASE Charge(d)
      BY <3>2 DEF Charge, ChargeUpTo, RetryTurn, offline, Owed
    <3>3. CASE BudgetSpent(d)
      BY <3>3 DEF BudgetSpent, RetryTurn, offline, Owed
    <3>4. CASE AskPhone(d)
      BY <3>4 DEF AskPhone, offline, Owed
    <3>5. CASE PhoneAsked(d)
      BY <3>5 DEF PhoneAsked, offline, Owed
    <3>6. CASE SendRetry(d)
      BY <3>6 DEF SendRetry, offline, Owed
    <3>7. QED BY <1>2, <3>1, <3>2, <3>3, <3>4, <3>5, <3>6 DEF Retry
  <2>2. PICK l \in Owed \cup {"done"} : Goto(d, l)
    BY <2>1
  <2>3. OnceAt(d)'
    BY <2>1, <2>2 DEF OnceAt, Goto, Inv, Typed, Once, Fresh, Owed
  <2>4. l \in Places \ {"away", "queued"} /\ pc[d] \notin {"away", "queued"}
    BY <2>1 DEF Places, Owed
  <2>5. QED BY <2>1, <2>2, <2>3, <2>4, SilentStep
<1>3. QED BY <1>1, <1>2

\* Everything else answers nothing.
LEMMA OtherInv ==
  ASSUME Inv,
         \/ \E d \in Deliveries : Resend(d)
         \/ \E m \in Msgs : PhoneAnswers(m) \/ PhoneTimer(m)
         \/ \E i \in Identities : MarkExpires(i)
         \/ Close \/ EndHandlers \/ UNCHANGED vars
  PROVE  Inv'
<1>1. UNCHANGED <<fixed, arrived, handler, offline>>
  <2>1. ASSUME NEW d \in Deliveries, Resend(d)
        PROVE  UNCHANGED <<fixed, arrived, handler, offline>>
    BY <2>1 DEF Resend, ResendMiss, AlreadyRequested, ResendStore, Resolved, ResendAsk,
                ResendExpires, handling
  <2>2. ASSUME NEW m \in Msgs, PhoneAnswers(m) \/ PhoneTimer(m)
        PROVE  UNCHANGED <<fixed, arrived, handler, offline>>
    BY <2>2 DEF PhoneAnswers, PhoneTimer, handling
  <2>3. CASE Close \/ EndHandlers \/ UNCHANGED vars \/ \E i \in Identities : MarkExpires(i)
    BY <2>3 DEF Close, EndHandlers, handling, vars, MarkExpires
  <2>4. QED BY <2>1, <2>2, <2>3
<1>2. QED BY <1>1, QuietStep

LEMMA NextInv == Inv /\ [Next]_vars => Inv'
<1> SUFFICES ASSUME Inv, [Next]_vars PROVE Inv'
  OBVIOUS
<1>1. CASE Stanzas
  BY <1>1, IgnoreInv, ReceiveInv, EnqueueFullInv, EnqueueWaitsInv DEF Stanzas
<1>2. CASE Backlog
  BY <1>2, NextQueuedInv, BacklogEndsInv DEF Backlog
<1>3. CASE \E d \in Deliveries : Handle(d) \/ Retry(d)
  BY <1>3, HandleInv, RetryInv
<1>4. QED BY <1>1, <1>2, <1>3, OtherInv DEF Next

-----------------------------------------------------------------------------
(* Queues whose head holds the lock                                        *)

\* Those in the queue stand in it once, and only its head is past the lock.
Line(q, in, at) ==
  /\ q \in Seq(in) /\ \A d \in in : \E i \in DOMAIN q : q[i] = d
  /\ \A i, j \in DOMAIN q : q[i] = q[j] => i = j
  /\ \A d \in at : Holds(d, q)

Ahead(q, d, e) == \A i, j \in DOMAIN q : q[i] = d /\ q[j] = e => i < j

LEMMA LineEmpty == Line(<<>>, {}, {})
  BY DEF Line

LEMMA LineJoins ==
  ASSUME NEW q, NEW in, NEW at, Line(q, in, at), NEW d, d \notin in
  PROVE  /\ Line(Append(q, d), in \cup {d}, at)
         /\ \A e \in in : Ahead(Append(q, d), e, d)
         /\ \A e, f \in in : Ahead(q, e, f) => Ahead(Append(q, d), e, f)
  <1> DEFINE r == Append(q, d)
  <1>1. /\ q \in Seq(in) /\ \A e \in in : \E i \in DOMAIN q : q[i] = e
        /\ \A i, j \in DOMAIN q : q[i] = q[j] => i = j
    BY DEF Line
  <1>2. q \in Seq(in \cup {d})
    <2>1. \A i \in 1..Len(q) : q[i] \in in \cup {d}
      BY <1>1
    <2> QED BY <1>1, <2>1
  <1>3. r \in Seq(in \cup {d}) /\ Len(r) = Len(q) + 1 /\ r[Len(q) + 1] = d
          /\ \A i \in 1..Len(q) : r[i] = q[i]
    BY <1>2
  <1>4. DOMAIN q = 1..Len(q) /\ DOMAIN r = 1..Len(q) + 1 /\ Len(q) \in Nat
    BY <1>2, <1>3
  <1>5. \A i \in DOMAIN r : i \in DOMAIN q \/ i = Len(q) + 1
    BY <1>4
  <1>6. \A i \in DOMAIN q : i \in DOMAIN r /\ r[i] = q[i] /\ q[i] \in in
    BY <1>1, <1>3, <1>4
  <1> HIDE DEF r
  <1>7. \A e \in in \cup {d} : \E i \in DOMAIN r : r[i] = e
    BY <1>1, <1>3, <1>4, <1>6
  <1>8. \A i, j \in DOMAIN r : r[i] = r[j] => i = j
    BY <1>1, <1>3, <1>5, <1>6
  <1>9. \A e \in at : Holds(e, r)
    <2> SUFFICES ASSUME NEW e \in at PROVE r # <<>> /\ Head(r) = e
      BY DEF Holds
    <2>1. q # <<>> /\ Head(q) = e
      BY DEF Line, Holds
    <2>2. Len(q) > 0 /\ q[1] = e
      BY <1>2, <2>1
    <2>3. r[1] = e /\ Len(r) > 0
      BY <1>3, <1>4, <2>2
    <2> QED BY <1>3, <2>3
  <1>10. \A e \in in : Ahead(r, e, d)
    <2> SUFFICES ASSUME NEW e \in in, NEW i \in DOMAIN r, NEW j \in DOMAIN r, r[i] = e, r[j] = d
                 PROVE  i < j
      BY DEF Ahead
    <2>1. i \in DOMAIN q /\ j = Len(q) + 1
      BY <1>3, <1>5, <1>6
    <2> QED BY <1>4, <2>1
  <1>11. \A e, f \in in : Ahead(q, e, f) => Ahead(r, e, f)
    <2> SUFFICES ASSUME NEW e \in in, NEW f \in in, Ahead(q, e, f),
                        NEW i \in DOMAIN r, NEW j \in DOMAIN r, r[i] = e, r[j] = f
                 PROVE  i < j
      BY DEF Ahead
    <2>1. i \in DOMAIN q /\ j \in DOMAIN q
      BY <1>3, <1>5
    <2> QED BY <1>6, <2>1 DEF Ahead
  <1>12. Line(r, in \cup {d}, at)
    BY <1>3, <1>7, <1>8, <1>9 DEF Line
  <1> QED BY <1>10, <1>11, <1>12 DEF r

LEMMA LineHead ==
  ASSUME NEW q, NEW in, NEW at, Line(q, in, at), NEW d, Holds(d, q)
  PROVE  /\ d \in in /\ at \subseteq {d} /\ Line(q, in, {d})
         /\ \A e \in in : ~Ahead(q, e, d)
  <1>1. q \in Seq(in) /\ q # <<>> /\ q[1] = d /\ 1 \in DOMAIN q
    BY DEF Line, Holds
  <1>2. d \in in
    BY <1>1
  <1>3. at \subseteq {d}
    BY DEF Line, Holds
  <1>4. Line(q, in, {d})
    BY DEF Line
  <1>5. \A e \in in : ~Ahead(q, e, d)
    <2> SUFFICES ASSUME NEW e \in in, Ahead(q, e, d) PROVE FALSE
      OBVIOUS
    <2>1. PICK i \in DOMAIN q : q[i] = e
      BY DEF Line
    <2>2. i \in Nat \ {0}
      BY <1>1
    <2> QED BY <1>1, <2>1, <2>2 DEF Ahead
  <1> QED BY <1>2, <1>3, <1>4, <1>5

LEMMA LineLeaves ==
  ASSUME NEW q, NEW in, NEW at, Line(q, in, at), NEW d, Holds(d, q)
  PROVE  /\ Line(Tail(q), in \ {d}, {})
         /\ \A e, f : Ahead(q, e, f) => Ahead(Tail(q), e, f)
  <1> DEFINE r == Tail(q)
  <1>1. /\ q \in Seq(in) /\ q # <<>> /\ q[1] = d /\ Len(q) \in Nat \ {0} /\ DOMAIN q = 1..Len(q)
        /\ \A e \in in : \E i \in DOMAIN q : q[i] = e
        /\ \A i, j \in DOMAIN q : q[i] = q[j] => i = j
    BY DEF Line, Holds
  <1>2. r \in Seq(in) /\ Len(r) = Len(q) - 1 /\ \A i \in 1..Len(r) : r[i] = q[i + 1]
    BY <1>1
  <1>3. DOMAIN r = 1..Len(q) - 1
    BY <1>2
  <1>4. \A i \in DOMAIN r : i + 1 \in DOMAIN q /\ i + 1 # 1 /\ r[i] = q[i + 1]
    BY <1>1, <1>2, <1>3
  <1>5. \A i \in DOMAIN r : r[i] \in in \ {d}
    BY <1>1, <1>4
  <1> HIDE DEF r
  <1>6. r \in Seq(in \ {d})
    BY <1>2, <1>3, <1>5
  <1>7. \A e \in in \ {d} : \E i \in DOMAIN r : r[i] = e
    <2> SUFFICES ASSUME NEW e \in in \ {d} PROVE \E i \in DOMAIN r : r[i] = e
      OBVIOUS
    <2>1. PICK i \in 1..Len(q) : q[i] = e
      BY <1>1
    <2>2. i - 1 \in DOMAIN r /\ (i - 1) + 1 = i
      BY <1>1, <1>3, <2>1
    <2> QED BY <1>4, <2>1, <2>2
  <1>8. \A i, j \in DOMAIN r : r[i] = r[j] => i = j
    <2> SUFFICES ASSUME NEW i \in DOMAIN r, NEW j \in DOMAIN r, r[i] = r[j] PROVE i = j
      OBVIOUS
    <2>1. i + 1 = j + 1
      BY <1>1, <1>4
    <2> QED BY <1>1, <1>3, <2>1
  <1>9. Line(r, in \ {d}, {})
    BY <1>6, <1>7, <1>8 DEF Line
  <1>10. ASSUME NEW e, NEW f, Ahead(q, e, f) PROVE Ahead(r, e, f)
    <2> SUFFICES ASSUME NEW i \in DOMAIN r, NEW j \in DOMAIN r, r[i] = e, r[j] = f PROVE i < j
      BY DEF Ahead
    <2>1. i + 1 < j + 1
      BY <1>4, <1>10 DEF Ahead
    <2> QED BY <1>1, <1>3, <2>1
  <1> QED BY <1>9, <1>10 DEF r

-----------------------------------------------------------------------------
(* The three kinds of locks                                                *)

LidSet(a) == {d \in Deliveries : pc[d] = "lid" /\ Alt(d) = a}
InLine(d) == pc[d] = "chat" \/ Inside(d)
ChatSet(c) == {d \in Deliveries : InLine(d) /\ Chat(d) = c}
EnteredSet(c) == {d \in Deliveries : Inside(d) /\ Chat(d) = c}
RetrySet == {d \in Deliveries : pc[d] \in Owed}
RetryingSet == {d \in Deliveries : pc[d] \in Owed \ {"retry"}}

LidLines ==
  /\ lidQueue \in [Alts -> Seq(Deliveries)]
  /\ \A d \in Deliveries : pc[d] = "lid" => Alt(d) \in Alts
  /\ \A a \in Alts : Line(lidQueue[a], LidSet(a), {})
ChatLines ==
  /\ chatQueue \in [Chats -> Seq(Deliveries)]
  /\ \A c \in Chats : Line(chatQueue[c], ChatSet(c), EnteredSet(c))
RetryLine == Line(retryQueue, RetrySet, RetryingSet)
Lines == LidLines /\ ChatLines /\ RetryLine

LEMMA StanzaTyped ==
  ASSUME Typed, NEW d \in Deliveries
  PROVE  stanza[d] \in Stanza /\ Msg(d) \in Msgs /\ Chat(d) \in Chats
           /\ Alt(d) \in Alts \cup {NoAlt}
  <1>1. stanza \in Seq(Stanza)
    BY InboundMessagesAssumption DEF Typed
  <1>2. stanza[d] \in Stanza
    BY <1>1 DEF Deliveries
  <1> QED BY <1>2 DEF Stanza, Msg, Chat, Alt

\* Only delivery d gets on.
Rest(d) ==
  stanza' = stanza /\ \A e \in Deliveries \ {d} : pc'[e] = pc[e] /\ kind'[e] = kind[e]

\* What a step of d may do to each of the locks: nothing, wait for it, pass it or leave it.
LidMove(d) ==
  \/ pc[d] # "lid" /\ pc'[d] # "lid" /\ UNCHANGED lidQueue
  \/ /\ pc[d] # "lid" /\ pc'[d] = "lid" /\ Alt(d) \in Alts
     /\ lidQueue' = [lidQueue EXCEPT ![Alt(d)] = Append(@, d)]
  \/ /\ pc[d] = "lid" /\ pc'[d] # "lid" /\ Holds(d, lidQueue[Alt(d)])
     /\ lidQueue' = [lidQueue EXCEPT ![Alt(d)] = Tail(@)]
ChatMove(d) ==
  \/ ~InLine(d) /\ ~InLine(d)' /\ UNCHANGED chatQueue
  \/ ~InLine(d) /\ pc'[d] = "chat" /\ chatQueue' = [chatQueue EXCEPT ![Chat(d)] = Append(@, d)]
  \/ InLine(d) /\ Inside(d)' /\ Holds(d, chatQueue[Chat(d)]) /\ UNCHANGED chatQueue
  \/ InLine(d) /\ ~InLine(d)' /\ Holds(d, chatQueue[Chat(d)]) /\ LeaveChat(d)
RetryMove(d) ==
  \/ pc[d] \notin Owed /\ pc'[d] \notin Owed /\ UNCHANGED retryQueue
  \/ pc[d] \notin Owed /\ pc'[d] = "retry" /\ retryQueue' = Append(retryQueue, d)
  \/ pc[d] \in Owed /\ pc'[d] \in Owed \ {"retry"} /\ Holds(d, retryQueue) /\ UNCHANGED retryQueue
  \/ pc[d] \in Owed /\ pc'[d] \notin Owed /\ Holds(d, retryQueue) /\ retryQueue' = Tail(retryQueue)

\* Those behind d in a lock stay behind it, and nobody passes whoever stands before.
LidOrder(d) ==
  \A x \in Deliveries : pc[x] = "lid" =>
    /\ \A y \in Deliveries : pc[y] = "lid" /\ Ahead(lidQueue[Alt(x)], x, y)
         => Ahead(lidQueue'[Alt(x)], x, y)
    /\ Alt(x) = Alt(d) /\ pc[d] # "lid" /\ pc'[d] = "lid" => Ahead(lidQueue'[Alt(x)], x, d)
    /\ Alt(x) = Alt(d) /\ pc[d] = "lid" /\ pc'[d] # "lid" => ~Ahead(lidQueue[Alt(x)], x, d)
ChatOrder(d) ==
  \A x \in Deliveries : InLine(x) =>
    /\ \A y \in Deliveries : InLine(y) /\ Ahead(chatQueue[Chat(x)], x, y)
         => Ahead(chatQueue'[Chat(x)], x, y)
    /\ Chat(x) = Chat(d) /\ ~InLine(d) /\ pc'[d] = "chat" => Ahead(chatQueue'[Chat(x)], x, d)
    /\ Chat(x) = Chat(d) /\ InLine(d) /\ Inside(d)' => ~Ahead(chatQueue[Chat(x)], x, d)

LEMMA LidStep ==
  ASSUME Typed, LidLines, NEW d \in Deliveries, Rest(d), LidMove(d)
  PROVE  LidLines' /\ LidOrder(d)
  <1>1. stanza' = stanza /\ Deliveries' = Deliveries /\ \A e : Alt(e)' = Alt(e)
    BY DEF Rest, Deliveries, Alt
  <1>2. \A e \in Deliveries \ {d} : pc'[e] = pc[e]
    BY DEF Rest
  <1>3. \A a : LidSet(a)' \ {d} = LidSet(a) \ {d}
    BY <1>1, <1>2 DEF LidSet
  <1>4. \A a \in Alts \ {Alt(d)} : LidSet(a)' = LidSet(a)
    BY <1>1, <1>2 DEF LidSet
  <1>5. \A x \in Deliveries : pc[x] = "lid" => x \in LidSet(Alt(x)) /\ Alt(x) \in Alts
    BY DEF LidSet, LidLines
  <1>6. CASE pc[d] # "lid" /\ pc'[d] # "lid" /\ UNCHANGED lidQueue
    <2>1. \A a : LidSet(a)' = LidSet(a)
      BY <1>1, <1>2, <1>6 DEF LidSet
    <2>2. LidLines'
      BY <1>1, <1>2, <1>6, <2>1 DEF LidLines
    <2> QED BY <1>6, <2>2 DEF LidOrder
  <1>7. CASE /\ pc[d] # "lid" /\ pc'[d] = "lid" /\ Alt(d) \in Alts
             /\ lidQueue' = [lidQueue EXCEPT ![Alt(d)] = Append(@, d)]
    <2>1. LidSet(Alt(d))' = LidSet(Alt(d)) \cup {d} /\ d \notin LidSet(Alt(d))
      BY <1>1, <1>2, <1>7 DEF LidSet
    <2>2. /\ lidQueue'[Alt(d)] = Append(lidQueue[Alt(d)], d)
          /\ \A a \in Alts \ {Alt(d)} : lidQueue'[a] = lidQueue[a]
          /\ Line(lidQueue[Alt(d)], LidSet(Alt(d)), {})
      BY <1>7 DEF LidLines
    <2>3. /\ Line(lidQueue'[Alt(d)], LidSet(Alt(d))', {})
          /\ \A e \in LidSet(Alt(d)) : Ahead(lidQueue'[Alt(d)], e, d)
          /\ \A e, f \in LidSet(Alt(d)) : Ahead(lidQueue[Alt(d)], e, f)
               => Ahead(lidQueue'[Alt(d)], e, f)
      <3> DEFINE q == lidQueue[Alt(d)]
                 in == LidSet(Alt(d))
      <3>1. Line(q, in, {}) /\ d \notin in
        BY <2>1, <2>2
      <3> HIDE DEF q, in
      <3>2. /\ Line(Append(q, d), in \cup {d}, {})
            /\ \A e \in in : Ahead(Append(q, d), e, d)
            /\ \A e, f \in in : Ahead(q, e, f) => Ahead(Append(q, d), e, f)
        BY <3>1, LineJoins
      <3> QED BY <2>1, <2>2, <3>2 DEF q, in
    <2>4. lidQueue' \in [Alts -> Seq(Deliveries)]
      BY <1>7 DEF LidLines
    <2>5. LidLines'
      BY <1>1, <1>2, <1>4, <1>7, <2>2, <2>3, <2>4 DEF LidLines
    <2>6. LidOrder(d)
      <3> SUFFICES ASSUME NEW x \in Deliveries, pc[x] = "lid"
                   PROVE  /\ \A y \in Deliveries : pc[y] = "lid" /\ Ahead(lidQueue[Alt(x)], x, y)
                                                     => Ahead(lidQueue'[Alt(x)], x, y)
                          /\ Alt(x) = Alt(d) => Ahead(lidQueue'[Alt(x)], x, d)
        BY <1>7 DEF LidOrder
      <3>1. CASE Alt(x) = Alt(d)
        <4>1. x \in LidSet(Alt(d))
          BY <1>5, <3>1
        <4>2. Ahead(lidQueue'[Alt(x)], x, d)
          BY <2>3, <3>1, <4>1
        <4>3. ASSUME NEW y \in Deliveries, pc[y] = "lid", Ahead(lidQueue[Alt(x)], x, y)
              PROVE  Ahead(lidQueue'[Alt(x)], x, y)
          <5>1. CASE Alt(y) = Alt(d)
            BY <1>5, <2>3, <3>1, <4>1, <4>3, <5>1
          <5>2. CASE Alt(y) # Alt(d)
            <6>1. y \notin LidSet(Alt(d))'
              BY <1>1, <5>2 DEF LidSet
            <6>2. \A j \in DOMAIN lidQueue'[Alt(d)] : lidQueue'[Alt(d)][j] \in LidSet(Alt(d))'
              BY <2>3 DEF Line
            <6> QED BY <3>1, <6>1, <6>2 DEF Ahead
          <5> QED BY <5>1, <5>2
        <4> QED BY <4>2, <4>3
      <3>2. CASE Alt(x) # Alt(d)
        BY <1>5, <2>2, <3>2
      <3> QED BY <3>1, <3>2
    <2> QED BY <2>5, <2>6
  <1>8. CASE /\ pc[d] = "lid" /\ pc'[d] # "lid" /\ Holds(d, lidQueue[Alt(d)])
             /\ lidQueue' = [lidQueue EXCEPT ![Alt(d)] = Tail(@)]
    <2>1. LidSet(Alt(d))' = LidSet(Alt(d)) \ {d} /\ Alt(d) \in Alts
      BY <1>1, <1>2, <1>5, <1>8 DEF LidSet
    <2>2. /\ lidQueue'[Alt(d)] = Tail(lidQueue[Alt(d)])
          /\ \A a \in Alts \ {Alt(d)} : lidQueue'[a] = lidQueue[a]
          /\ Line(lidQueue[Alt(d)], LidSet(Alt(d)), {})
      BY <1>8, <2>1 DEF LidLines
    <2>3. /\ Line(lidQueue'[Alt(d)], LidSet(Alt(d))', {})
          /\ \A e, f : Ahead(lidQueue[Alt(d)], e, f) => Ahead(lidQueue'[Alt(d)], e, f)
      BY <1>8, <2>1, <2>2, LineLeaves
    <2>4. \A e \in LidSet(Alt(d)) : ~Ahead(lidQueue[Alt(d)], e, d)
      BY <1>8, <2>2, LineHead
    <2>5. lidQueue' \in [Alts -> Seq(Deliveries)]
      <3>1. Tail(lidQueue[Alt(d)]) \in Seq(Deliveries)
        BY <1>8, <2>1 DEF LidLines, Holds
      <3> QED BY <1>8, <2>1, <3>1 DEF LidLines
    <2>6. LidLines'
      BY <1>1, <1>2, <1>4, <1>8, <2>2, <2>3, <2>5 DEF LidLines
    <2>7. LidOrder(d)
      BY <1>5, <1>8, <2>2, <2>3, <2>4 DEF LidOrder
    <2> QED BY <2>6, <2>7
  <1> QED BY <1>6, <1>7, <1>8 DEF LidMove

LEMMA ChatStep ==
  ASSUME Typed, ChatLines, NEW d \in Deliveries, Rest(d), ChatMove(d)
  PROVE  ChatLines' /\ ChatOrder(d)
  <1>1. stanza' = stanza /\ Deliveries' = Deliveries /\ \A e : Chat(e)' = Chat(e)
    BY DEF Rest, Deliveries, Chat
  <1>2. \A e \in Deliveries \ {d} : InLine(e)' = InLine(e) /\ Inside(e)' = Inside(e)
    BY DEF Rest, InLine, Inside
  <1>3. \A e : Inside(e) => InLine(e)
    BY DEF InLine
  <1>4. \A c \in Chats \ {Chat(d)} : ChatSet(c)' = ChatSet(c) /\ EnteredSet(c)' = EnteredSet(c)
    BY <1>1, <1>2 DEF ChatSet, EnteredSet
  <1>5. \A x \in Deliveries : InLine(x) => x \in ChatSet(Chat(x)) /\ Chat(x) \in Chats
    BY StanzaTyped DEF ChatSet
  <1>6. Chat(d) \in Chats
    BY StanzaTyped
  <1> DEFINE q == chatQueue[Chat(d)]
             in == ChatSet(Chat(d))
             at == EnteredSet(Chat(d))
  <1>7. Line(q, in, at)
    BY <1>6 DEF ChatLines
  <1>8. CASE ~InLine(d) /\ ~InLine(d)' /\ UNCHANGED chatQueue
    <2>1. \A c : ChatSet(c)' = ChatSet(c) /\ EnteredSet(c)' = EnteredSet(c)
      BY <1>1, <1>2, <1>8 DEF ChatSet, EnteredSet, InLine
    <2>2. ChatLines'
      BY <1>1, <1>8, <2>1 DEF ChatLines
    <2> QED BY <1>8, <2>2 DEF ChatOrder, InLine
  <1>9. CASE ~InLine(d) /\ pc'[d] = "chat"
               /\ chatQueue' = [chatQueue EXCEPT ![Chat(d)] = Append(@, d)]
    <2>1. InLine(d)' /\ ~Inside(d)' /\ ~Inside(d)
      BY <1>9 DEF InLine, Inside
    <2>2. ChatSet(Chat(d))' = in \cup {d} /\ EnteredSet(Chat(d))' = at /\ d \notin in
      BY <1>1, <1>2, <1>9, <2>1 DEF ChatSet, EnteredSet
    <2>3. chatQueue'[Chat(d)] = Append(q, d)
            /\ \A c \in Chats \ {Chat(d)} : chatQueue'[c] = chatQueue[c]
      BY <1>6, <1>9 DEF ChatLines
    <2>4. /\ Line(Append(q, d), in \cup {d}, at)
          /\ \A e \in in : Ahead(Append(q, d), e, d)
          /\ \A e, f \in in : Ahead(q, e, f) => Ahead(Append(q, d), e, f)
      <3>1. d \notin in
        BY <2>2
      <3> HIDE DEF q, in, at
      <3> QED BY <1>7, <3>1, LineJoins
    <2>5. chatQueue' \in [Chats -> Seq(Deliveries)]
      <3>1. Append(chatQueue[Chat(d)], d) \in Seq(Deliveries)
        BY <1>6 DEF ChatLines
      <3> QED BY <1>9, <3>1 DEF ChatLines
    <2>6. ChatLines'
      BY <1>1, <1>4, <2>2, <2>3, <2>4, <2>5 DEF ChatLines
    <2>7. ChatOrder(d)
      <3> SUFFICES ASSUME NEW x \in Deliveries, InLine(x)
                   PROVE  /\ \A y \in Deliveries : InLine(y) /\ Ahead(chatQueue[Chat(x)], x, y)
                                                     => Ahead(chatQueue'[Chat(x)], x, y)
                          /\ Chat(x) = Chat(d) => Ahead(chatQueue'[Chat(x)], x, d)
        BY <1>9 DEF ChatOrder
      <3>1. CASE Chat(x) = Chat(d)
        <4>1. x \in in
          BY <1>5, <3>1
        <4>2. Ahead(chatQueue'[Chat(x)], x, d)
          BY <2>3, <2>4, <3>1, <4>1
        <4>3. ASSUME NEW y \in Deliveries, InLine(y), Ahead(chatQueue[Chat(x)], x, y)
              PROVE  Ahead(chatQueue'[Chat(x)], x, y)
          <5>1. CASE Chat(y) = Chat(d)
            <6>1. y \in in
              BY <1>5, <4>3, <5>1
            <6> QED BY <2>3, <2>4, <3>1, <4>1, <4>3, <6>1
          <5>2. CASE Chat(y) # Chat(d)
            <6>1. y \notin in \cup {d}
              BY <5>2 DEF ChatSet
            <6>2. \A j \in DOMAIN Append(q, d) : Append(q, d)[j] \in in \cup {d}
              <7> HIDE DEF q, in, at
              <7> QED BY <2>4 DEF Line
            <6> QED BY <2>3, <3>1, <6>1, <6>2 DEF Ahead
          <5> QED BY <5>1, <5>2
        <4> QED BY <4>2, <4>3
      <3>2. CASE Chat(x) # Chat(d)
        BY <1>5, <2>3, <3>2
      <3> QED BY <3>1, <3>2
    <2> QED BY <2>6, <2>7
  <1>10. CASE InLine(d) /\ Inside(d)' /\ Holds(d, chatQueue[Chat(d)]) /\ UNCHANGED chatQueue
    <2>1. ChatSet(Chat(d))' = in
      BY <1>1, <1>2, <1>10 DEF ChatSet, InLine
    <2>2. EnteredSet(Chat(d))' \subseteq at \cup {d}
      BY <1>1, <1>2 DEF EnteredSet
    <2>3. at \subseteq {d} /\ Line(q, in, {d}) /\ \A e \in in : ~Ahead(q, e, d)
      <3>1. Holds(d, q)
        BY <1>10
      <3> HIDE DEF q, in, at
      <3> QED BY <1>7, <3>1, LineHead
    <2>4. Line(q, in, EnteredSet(Chat(d))')
      <3> HIDE DEF q, in
      <3> QED BY <2>2, <2>3 DEF Line
    <2>5. ChatLines'
      BY <1>1, <1>4, <1>10, <2>1, <2>4 DEF ChatLines
    <2>6. ChatOrder(d)
      BY <1>5, <1>10, <2>3 DEF ChatOrder
    <2> QED BY <2>5, <2>6
  <1>11. CASE InLine(d) /\ ~InLine(d)' /\ Holds(d, chatQueue[Chat(d)]) /\ LeaveChat(d)
    <2>1. ChatSet(Chat(d))' = in \ {d} /\ EnteredSet(Chat(d))' = at \ {d}
      BY <1>1, <1>2, <1>11 DEF ChatSet, EnteredSet, InLine
    <2>2. chatQueue'[Chat(d)] = Tail(q) /\ \A c \in Chats \ {Chat(d)} : chatQueue'[c] = chatQueue[c]
      BY <1>6, <1>11 DEF ChatLines, LeaveChat
    <2>3. /\ Line(Tail(q), in \ {d}, {}) /\ at \ {d} = {}
          /\ \A e, f : Ahead(q, e, f) => Ahead(Tail(q), e, f)
      <3>1. Holds(d, q)
        BY <1>11
      <3> HIDE DEF q, in, at
      <3>2. at \subseteq {d}
        BY <1>7, <3>1, LineHead
      <3> QED BY <1>7, <3>1, <3>2, LineLeaves
    <2>4. chatQueue' \in [Chats -> Seq(Deliveries)]
      <3>1. Tail(q) \in Seq(Deliveries)
        BY <1>6, <1>11 DEF ChatLines, Holds
      <3> QED BY <1>11, <3>1 DEF ChatLines, LeaveChat
    <2>5. ChatLines'
      BY <1>1, <1>4, <2>1, <2>2, <2>3, <2>4 DEF ChatLines
    <2>6. ~Inside(d)' /\ pc'[d] # "chat"
      BY <1>11 DEF InLine
    <2>7. ChatOrder(d)
      BY <1>5, <1>11, <2>2, <2>3, <2>6 DEF ChatOrder
    <2> QED BY <2>5, <2>7
  <1> QED BY <1>8, <1>9, <1>10, <1>11 DEF ChatMove

LEMMA RetryStep ==
  ASSUME RetryLine, NEW d \in Deliveries, Rest(d), RetryMove(d)
  PROVE  RetryLine'
  <1>1. Deliveries' = Deliveries /\ \A e \in Deliveries \ {d} : pc'[e] = pc[e]
    BY DEF Rest, Deliveries
  <1> DEFINE q == retryQueue
             in == RetrySet
             at == RetryingSet
  <1>2. Line(q, in, at)
    BY DEF RetryLine
  <1>3. CASE pc[d] \notin Owed /\ pc'[d] \notin Owed /\ UNCHANGED retryQueue
    <2>1. RetrySet' = RetrySet /\ RetryingSet' = RetryingSet
      BY <1>1, <1>3 DEF RetrySet, RetryingSet
    <2> QED BY <1>3, <2>1 DEF RetryLine
  <1>4. CASE pc[d] \notin Owed /\ pc'[d] = "retry" /\ retryQueue' = Append(retryQueue, d)
    <2>1. RetrySet' = in \cup {d} /\ RetryingSet' = at /\ d \notin in
      BY <1>1, <1>4 DEF RetrySet, RetryingSet, Owed
    <2>2. Line(Append(q, d), in \cup {d}, at)
      <3>1. d \notin in
        BY <2>1
      <3> HIDE DEF q, in, at
      <3> QED BY <1>2, <3>1, LineJoins
    <2> QED BY <1>4, <2>1, <2>2 DEF RetryLine
  <1>5. CASE /\ pc[d] \in Owed /\ pc'[d] \in Owed \ {"retry"} /\ Holds(d, retryQueue)
             /\ UNCHANGED retryQueue
    <2>1. RetrySet' = in /\ RetryingSet' = at \cup {d}
      BY <1>1, <1>5 DEF RetrySet, RetryingSet
    <2>2. at \cup {d} = {d} /\ Line(q, in, {d})
      <3>1. Holds(d, q)
        BY <1>5
      <3> HIDE DEF q, in, at
      <3>2. at \subseteq {d} /\ Line(q, in, {d})
        BY <1>2, <3>1, LineHead
      <3> QED BY <3>2
    <2> QED BY <1>5, <2>1, <2>2 DEF RetryLine
  <1>6. CASE /\ pc[d] \in Owed /\ pc'[d] \notin Owed /\ Holds(d, retryQueue)
             /\ retryQueue' = Tail(retryQueue)
    <2>1. RetrySet' = in \ {d} /\ RetryingSet' = at \ {d}
      BY <1>1, <1>6 DEF RetrySet, RetryingSet
    <2>2. at \ {d} = {} /\ Line(Tail(q), in \ {d}, {})
      <3>1. Holds(d, q)
        BY <1>6
      <3> HIDE DEF q, in, at
      <3>2. at \subseteq {d}
        BY <1>2, <3>1, LineHead
      <3> QED BY <1>2, <3>1, <3>2, LineLeaves
    <2> QED BY <1>6, <2>1, <2>2 DEF RetryLine
  <1> QED BY <1>3, <1>4, <1>5, <1>6 DEF RetryMove

\* Inside a chat, and on with its retry, a delivery is at the head.
LEMMA InsideHolds ==
  ASSUME Typed, ChatLines, NEW d \in Deliveries, Inside(d)
  PROVE  Holds(d, chatQueue[Chat(d)])
  <1>1. Chat(d) \in Chats /\ d \in EnteredSet(Chat(d))
    BY StanzaTyped DEF EnteredSet
  <1> QED BY <1>1 DEF ChatLines, Line

LEMMA RetryingHolds ==
  ASSUME RetryLine, NEW d \in Deliveries, pc[d] \in Owed \ {"retry"}
  PROVE  Holds(d, retryQueue)
  BY DEF RetryLine, Line, RetryingSet

-----------------------------------------------------------------------------
(* Nobody is overtaken                                                     *)

NotBegun == {"away", "queued", "dropped", "done"}

\* Of two stanzas that take the same way, d the earlier: e has not begun while d is in the backlog, is
\* behind d in the mapping lock while d is there, and behind d in the lock of the chat.
InOrder(d, e) ==
  /\ pc[d] = "queued" => pc[e] \in NotBegun
  /\ pc[d] = "lid" => ~InLine(e) /\ (pc[e] = "lid" => Ahead(lidQueue[Alt(d)], d, e))
  /\ pc[d] = "chat" => ~Inside(e) /\ (pc[e] = "chat" => Ahead(chatQueue[Chat(d)], d, e))

Lanes == \A d, e \in Deliveries : d < e /\ Lane(d) = Lane(e) => InOrder(d, e)

\* The ways through the locks.
Course(d) ==
  /\ pc[d] \notin {"done", "dropped"}
  /\ pc'[d] = "queued" => pc[d] = "away" /\ \A x \in Deliveries : x > d => pc[x] = "away"
  /\ pc'[d] = "lid" => pc[d] \in {"away", "queued"}
  /\ pc'[d] = "chat" => pc[d] = "lid" \/ (pc[d] \in {"away", "queued"} /\ Alt(d) = NoAlt)
  /\ Inside(d)' => InLine(d)

\* Where d may begin: nothing later of its lane has begun, nothing earlier waits in the backlog.
First(d) ==
  \A x \in Deliveries :
    Lane(x) = Lane(d) => (d < x => pc[x] \in NotBegun) /\ (x < d => pc[x] # "queued")

Begins(d) == pc[d] \in {"away", "queued"} /\ pc'[d] \notin NotBegun

LEMMA LaneStep ==
  ASSUME Inv, LidLines, Lanes, NEW d \in Deliveries, Rest(d), Course(d), Begins(d) => First(d),
         LidOrder(d), ChatOrder(d)
  PROVE  Lanes'
  <1>1. stanza' = stanza /\ Deliveries' = Deliveries /\ \A e : Alt(e)' = Alt(e)
          /\ Chat(e)' = Chat(e) /\ Lane(e)' = Lane(e)
    BY DEF Rest, Deliveries, Alt, Chat, Lane
  <1>2. \A e \in Deliveries \ {d} : pc'[e] = pc[e] /\ InLine(e)' = InLine(e)
          /\ Inside(e)' = Inside(e)
    BY DEF Rest, InLine, Inside
  <1>3. Deliveries \subseteq Nat
    BY StanzasTyped DEF Inv, Typed
  <1>4. \A e \in Deliveries : Lane(e) = <<Chat(e), Alt(e), stanza[e].offline>>
    BY DEF Lane
  <1> SUFFICES ASSUME NEW x \in Deliveries, NEW y \in Deliveries, x < y, Lane(x) = Lane(y)
               PROVE  InOrder(x, y)'
    BY <1>1 DEF Lanes
  <1>5. Alt(x) = Alt(y) /\ Chat(x) = Chat(y) /\ InOrder(x, y)
    BY <1>4 DEF Lanes
  <1>6. x # y
    BY <1>3
  <1>7. \A e : Inside(e) => InLine(e)
    BY DEF InLine
  <1>8. pc[y] \in NotBegun => pc[y] # "lid" /\ ~InLine(y) /\ ~Inside(y)
    BY DEF NotBegun, InLine, Inside
  <1>9. CASE x # d /\ y # d
    <2>1. /\ pc'[x] = pc[x] /\ pc'[y] = pc[y] /\ InLine(y)' = InLine(y) /\ Inside(y)' = Inside(y)
          /\ InLine(x)' = InLine(x)
      BY <1>2, <1>9
    <2>2. pc[x] = "chat" => InLine(x)
      BY DEF InLine
    <2>3. pc[y] = "chat" => InLine(y)
      BY DEF InLine
    <2> QED BY <1>1, <1>5, <2>1, <2>2, <2>3 DEF InOrder, LidOrder, ChatOrder
  <1>10. CASE x = d
    <2>1. pc'[y] = pc[y] /\ InLine(y)' = InLine(y) /\ Inside(y)' = Inside(y)
      BY <1>2, <1>6, <1>10
    <2>2. CASE pc'[x] = "queued"
      <3>1. pc[y] = "away"
        BY <1>3, <1>10, <2>2 DEF Course
      <3> QED BY <2>1, <2>2, <3>1 DEF InOrder, NotBegun
    <2>3. CASE pc'[x] = "lid"
      <3>1. pc[y] \in NotBegun
        BY <1>10, <2>3 DEF Course, Begins, First, NotBegun
      <3> QED BY <1>8, <2>1, <2>3, <3>1 DEF InOrder
    <2>4. CASE pc'[x] = "chat"
      <3>1. CASE pc[x] = "lid"
        <4>1. ~InLine(y)
          BY <1>5, <3>1 DEF InOrder
        <4>2. pc[y] # "chat"
          BY <4>1 DEF InLine
        <4> QED BY <1>7, <2>1, <2>4, <4>1, <4>2 DEF InOrder
      <3>2. CASE pc[x] # "lid"
        <4>1. pc[y] \in NotBegun
          BY <1>10, <2>4, <3>2 DEF Course, Begins, First, NotBegun
        <4>2. pc[y] # "chat"
          BY <4>1 DEF NotBegun
        <4> QED BY <1>8, <2>1, <2>4, <4>1, <4>2 DEF InOrder
      <3> QED BY <3>1, <3>2
    <2> QED BY <2>2, <2>3, <2>4 DEF InOrder
  <1>11. CASE y = d
    <2>1. pc'[x] = pc[x] /\ InLine(x)' = InLine(x)
      BY <1>2, <1>6, <1>11
    <2>2. CASE pc[x] = "queued"
      <3>1. pc[y] \in {"away", "queued"}
        BY <1>5, <1>11, <2>2 DEF InOrder, Course, NotBegun
      <3>2. ~Begins(d)
        BY <1>11, <2>2 DEF First
      <3>3. pc'[y] \in NotBegun
        BY <1>11, <3>1, <3>2 DEF Begins
      <3> QED BY <2>1, <2>2, <3>3 DEF InOrder
    <2>3. CASE pc[x] = "lid"
      <3>1. ~InLine(y) /\ (pc[y] = "lid" => Ahead(lidQueue[Alt(x)], x, y))
        BY <1>5, <2>3 DEF InOrder
      <3>2. Alt(x) \in Alts /\ NoAlt \notin Alts
        BY <2>3, InboundMessagesAssumption DEF LidLines
      <3>3. pc'[y] # "chat"
        <4>1. ~(pc[y] = "lid" /\ pc'[y] # "lid")
          BY <1>5, <1>11, <2>3, <3>1 DEF LidOrder
        <4>2. Alt(y) # NoAlt
          BY <1>5, <3>2
        <4> QED BY <1>11, <4>1, <4>2 DEF Course
      <3>4. ~Inside(y)'
        BY <1>11, <3>1 DEF Course
      <3>5. ~InLine(y)'
        BY <3>3, <3>4 DEF InLine
      <3>6. pc'[y] = "lid" => Ahead(lidQueue'[Alt(x)], x, y)
        <4>1. pc'[y] = "lid" => pc[y] # "lid"
          BY <1>11 DEF Course
        <4> QED BY <1>5, <1>11, <2>3, <4>1 DEF LidOrder
      <3> QED BY <1>1, <2>1, <2>3, <3>5, <3>6 DEF InOrder
    <2>4. CASE pc[x] = "chat"
      <3>1. ~Inside(y) /\ (pc[y] = "chat" => Ahead(chatQueue[Chat(x)], x, y)) /\ InLine(x)
        BY <1>5, <2>4 DEF InOrder, InLine
      <3>2. ~Inside(y)'
        <4>1. SUFFICES ASSUME Inside(y)' PROVE FALSE
          OBVIOUS
        <4>2. pc[y] = "chat" /\ InLine(y)
          BY <1>11, <3>1, <4>1 DEF Course, InLine
        <4> QED BY <1>5, <1>11, <3>1, <4>1, <4>2 DEF ChatOrder
      <3>3. pc'[y] = "chat" => Ahead(chatQueue'[Chat(x)], x, y)
        <4>1. pc'[y] = "chat" => ~InLine(y)
          BY <1>11 DEF Course, InLine, Inside
        <4> QED BY <1>5, <1>11, <3>1, <4>1 DEF ChatOrder
      <3> QED BY <1>1, <2>1, <2>4, <3>2, <3>3 DEF InOrder
    <2> QED BY <2>1, <2>2, <2>3, <2>4 DEF InOrder
  <1> QED BY <1>9, <1>10, <1>11

LEMMA MoveStep ==
  ASSUME Inv, Lines, Lanes, NEW d \in Deliveries, Rest(d), LidMove(d), ChatMove(d), RetryMove(d),
         Course(d), Begins(d) => First(d)
  PROVE  Lines' /\ Lanes'
  <1>1. LidLines' /\ LidOrder(d)
    BY LidStep DEF Lines, Inv
  <1>2. ChatLines' /\ ChatOrder(d)
    BY ChatStep DEF Lines, Inv
  <1>3. RetryLine'
    BY RetryStep DEF Lines
  <1>4. Lanes'
    BY <1>1, <1>2, LaneStep DEF Lines
  <1> QED BY <1>1, <1>2, <1>3, <1>4 DEF Lines

-----------------------------------------------------------------------------
(* The backlog is worked off in the order of arrival                       *)

Waiting ==
  /\ current \in Deliveries \cup {0} /\ arrived \in 0..Len(stanza)
  /\ \A d \in Deliveries : pc[d] = "queued" => \E i \in DOMAIN backlog : backlog[i] = d
  /\ \A i, j \in DOMAIN backlog : i < j => backlog[i] < backlog[j]
  /\ \A i \in DOMAIN backlog : stanza[backlog[i]].offline
  /\ backlog # <<>> => current # 0

LEMMA DeliveryNumbers ==
  ASSUME stanza \in Traffic
  PROVE  Deliveries = 1..Len(stanza) /\ Len(stanza) \in Nat
  <1>1. stanza \in Seq(Stanza)
    BY InboundMessagesAssumption
  <1> QED BY <1>1 DEF Deliveries

LEMMA WaitingKept ==
  ASSUME Waiting, stanza' = stanza, backlog' = backlog,
         current' \in Deliveries \cup {0}, current' = 0 => current = 0,
         arrived' \in 0..Len(stanza),
         \A e \in Deliveries : pc'[e] = "queued" => pc[e] = "queued"
  PROVE  Waiting'
  BY DEF Waiting, Deliveries

LEMMA ArrivalCounts ==
  ASSUME Inv, Arrives
  PROVE  arrived' \in 0..Len(stanza) /\ Next1 \in Deliveries /\ Next1 # 0 /\ stanza' = stanza
  <1>1. Deliveries = 1..Len(stanza) /\ Len(stanza) \in Nat
    BY DeliveryNumbers DEF Inv, Typed
  <1> QED BY <1>1 DEF Arrives, fixed

LEMMA WaitingJoins == ASSUME Inv, Waiting, EnqueueWaits PROVE Waiting'
  <1> DEFINE d == Next1
  <1>1. Arrives /\ current # 0 /\ current' = current /\ backlog' = Append(backlog, d)
          /\ Goto(d, "queued") /\ stanza[d].offline
    BY DEF EnqueueWaits
  <1>2. arrived' \in 0..Len(stanza) /\ d \in Deliveries /\ stanza' = stanza
          /\ Deliveries' = Deliveries
    BY <1>1, ArrivalCounts DEF Deliveries
  <1>3. backlog \in Seq(Deliveries) /\ Len(backlog) \in Nat
    BY DEF Inv, Backlogged
  <1>4. /\ DOMAIN backlog = 1..Len(backlog) /\ DOMAIN backlog' = 1..Len(backlog) + 1
        /\ \A i \in 1..Len(backlog) : backlog'[i] = backlog[i] /\ backlog[i] \in Deliveries
        /\ backlog'[Len(backlog) + 1] = d
    BY <1>1, <1>2, <1>3
  <1>5. \A i \in DOMAIN backlog : pc[backlog[i]] = "queued"
    BY <1>4 DEF Inv, Backlogged
  <1>6. \A e \in Deliveries : e > arrived <=> pc[e] = "away"
    BY DEF Inv, InTurn
  <1>7. \A i \in DOMAIN backlog : backlog[i] < d
    <2> SUFFICES ASSUME NEW i \in DOMAIN backlog PROVE backlog[i] < d
      OBVIOUS
    <2>1. backlog[i] \in Deliveries /\ pc[backlog[i]] = "queued"
      BY <1>4, <1>5
    <2>2. ~(backlog[i] > arrived)
      BY <1>6, <2>1
    <2>3. backlog[i] \in Nat /\ arrived \in Nat
      BY <2>1, StanzasTyped DEF Inv, Typed
    <2> QED BY <2>2, <2>3 DEF Next1
  <1> HIDE DEF d
  <1>8. pc'[d] = "queued" /\ \A e \in Deliveries \ {d} : pc'[e] = pc[e]
    BY <1>1, <1>2 DEF Goto, Inv, Typed
  <1>9. \A e \in Deliveries : pc'[e] = "queued" => \E i \in DOMAIN backlog' : backlog'[i] = e
    <2> SUFFICES ASSUME NEW e \in Deliveries, pc'[e] = "queued"
                 PROVE  \E i \in DOMAIN backlog' : backlog'[i] = e
      OBVIOUS
    <2>1. CASE e = d
      BY <1>3, <1>4, <2>1
    <2>2. CASE e # d
      <3>1. PICK i \in DOMAIN backlog : backlog[i] = e
        BY <1>8, <2>2 DEF Waiting
      <3> QED BY <1>3, <1>4, <3>1
    <2> QED BY <2>1, <2>2
  <1>10. \A i, j \in DOMAIN backlog' : i < j => backlog'[i] < backlog'[j]
    <2> SUFFICES ASSUME NEW i \in DOMAIN backlog', NEW j \in DOMAIN backlog', i < j
                 PROVE  backlog'[i] < backlog'[j]
      OBVIOUS
    <2>1. i \in DOMAIN backlog
      BY <1>3, <1>4
    <2>2. CASE j \in DOMAIN backlog
      BY <1>4, <2>1, <2>2 DEF Waiting
    <2>3. CASE j = Len(backlog) + 1
      BY <1>4, <1>7, <2>1, <2>3
    <2> QED BY <1>3, <1>4, <2>2, <2>3
  <1>11. \A i \in DOMAIN backlog' : stanza[backlog'[i]].offline
    <2> SUFFICES ASSUME NEW i \in DOMAIN backlog' PROVE stanza[backlog'[i]].offline
      OBVIOUS
    <2>1. CASE i \in DOMAIN backlog
      BY <1>4, <2>1 DEF Waiting
    <2>2. CASE i = Len(backlog) + 1
      BY <1>1, <1>4, <2>2 DEF d
    <2> QED BY <1>3, <1>4, <2>1, <2>2
  <1>12. current' \in Deliveries' \cup {0} /\ current' # 0
    BY <1>1, <1>2 DEF Waiting
  <1> QED BY <1>2, <1>9, <1>10, <1>11, <1>12 DEF Waiting

\* The head of the backlog is the earliest of it.
LEMMA BacklogHead ==
  ASSUME Inv, Waiting, backlog # <<>>, NEW d, d = Head(backlog)
  PROVE  /\ d \in Deliveries /\ pc[d] = "queued"
         /\ \A x \in Deliveries : x < d => pc[x] # "queued"
  <1>1. backlog \in Seq(Deliveries) /\ Len(backlog) \in Nat \ {0} /\ d = backlog[1]
          /\ DOMAIN backlog = 1..Len(backlog)
    BY DEF Inv, Backlogged
  <1>2. d \in Deliveries /\ pc[d] = "queued"
    BY <1>1 DEF Inv, Backlogged
  <1>3. Deliveries \subseteq Nat
    BY StanzasTyped DEF Inv, Typed
  <1>4. ASSUME NEW x \in Deliveries, x < d, pc[x] = "queued" PROVE FALSE
    <2>1. PICK i \in DOMAIN backlog : backlog[i] = x
      BY <1>4 DEF Waiting
    <2>2. i # 1
      BY <1>1, <1>2, <1>3, <1>4, <2>1
    <2>3. 1 \in DOMAIN backlog /\ 1 < i
      BY <1>1, <2>1, <2>2
    <2>4. backlog[1] < backlog[i]
      BY <2>3 DEF Waiting
    <2> QED BY <1>1, <1>2, <1>3, <1>4, <2>1, <2>4
  <1> QED BY <1>2, <1>4

LEMMA WaitingAdvances ==
  ASSUME Inv, Waiting, NextQueued, NEW d, d = Head(backlog),
         \A e \in Deliveries : pc'[e] = "queued" => e # d /\ pc[e] = "queued"
  PROVE  Waiting'
  <1>1. /\ backlog # <<>> /\ backlog' = Tail(backlog) /\ current' = d /\ stanza' = stanza
        /\ arrived' = arrived
    BY DEF NextQueued, fixed
  <1>2. /\ backlog \in Seq(Deliveries) /\ Len(backlog) \in Nat \ {0} /\ d = backlog[1]
        /\ DOMAIN backlog = 1..Len(backlog)
    BY <1>1 DEF Inv, Backlogged
  <1>3. /\ DOMAIN backlog' = 1..Len(backlog) - 1
        /\ \A i \in DOMAIN backlog' : backlog'[i] = backlog[i + 1] /\ i + 1 \in DOMAIN backlog
    <2>1. backlog' \in Seq(Deliveries) /\ Len(backlog') = Len(backlog) - 1
      BY <1>1, <1>2
    <2>2. \A i \in 1..Len(backlog') : backlog'[i] = backlog[i + 1]
      BY <1>1, <1>2
    <2> QED BY <1>2, <2>1, <2>2
  <1>4. d \in Deliveries /\ d # 0 /\ Deliveries' = Deliveries
    <2>1. d \in Deliveries
      BY <1>1, BacklogHead
    <2> QED BY <1>1, <2>1, DeliveryNumbers DEF Inv, Typed, Deliveries
  <1>5. \A e \in Deliveries : pc'[e] = "queued" => \E i \in DOMAIN backlog' : backlog'[i] = e
    <2> SUFFICES ASSUME NEW e \in Deliveries, pc'[e] = "queued"
                 PROVE  \E i \in DOMAIN backlog' : backlog'[i] = e
      OBVIOUS
    <2>1. PICK i \in DOMAIN backlog : backlog[i] = e
      BY DEF Waiting
    <2>2. i # 1
      BY <1>2, <2>1
    <2>3. i - 1 \in DOMAIN backlog' /\ (i - 1) + 1 = i
      BY <1>2, <1>3, <2>1, <2>2
    <2> QED BY <1>3, <2>1, <2>3
  <1>6. \A i, j \in DOMAIN backlog' : i < j => backlog'[i] < backlog'[j]
    <2> SUFFICES ASSUME NEW i \in DOMAIN backlog', NEW j \in DOMAIN backlog', i < j
                 PROVE  backlog'[i] < backlog'[j]
      OBVIOUS
    <2>1. i + 1 < j + 1 /\ i + 1 \in DOMAIN backlog /\ j + 1 \in DOMAIN backlog
      BY <1>2, <1>3
    <2> QED BY <1>3, <2>1 DEF Waiting
  <1>7. \A i \in DOMAIN backlog' : stanza[backlog'[i]].offline
    BY <1>3 DEF Waiting
  <1> QED BY <1>1, <1>4, <1>5, <1>6, <1>7 DEF Waiting

\* When the backlog ends, nothing waits.
LEMMA WaitingEnds == ASSUME Inv, Waiting, BacklogEnds PROVE Waiting'
  <1>1. /\ backlog' = <<>> /\ current' = 0 /\ stanza' = stanza /\ arrived' = arrived
        /\ pc' = [d \in Deliveries |-> IF d \in ToSet(backlog) THEN "dropped" ELSE pc[d]]
    BY DEF BacklogEnds, DropQueued, fixed
  <1>2. \A e \in Deliveries : pc'[e] # "queued"
    <2> SUFFICES ASSUME NEW e \in Deliveries, pc'[e] = "queued" PROVE FALSE
      OBVIOUS
    <2>1. e \notin ToSet(backlog) /\ pc[e] = "queued"
      BY <1>1
    <2>2. PICK i \in DOMAIN backlog : backlog[i] = e
      BY <2>1 DEF Waiting
    <2> QED BY <2>1, <2>2 DEF ToSet
  <1>3. Deliveries' = Deliveries /\ DOMAIN backlog' = {}
    BY <1>1 DEF Deliveries
  <1> QED BY <1>1, <1>2, <1>3 DEF Waiting

-----------------------------------------------------------------------------
(* What every step does to the locks                                       *)

Moved(d) == Rest(d) /\ LidMove(d) /\ ChatMove(d) /\ RetryMove(d) /\ Course(d)

LEMMA Went ==
  ASSUME Typed, NEW d \in Deliveries, NEW l, Goto(d, l)
  PROVE  pc'[d] = l /\ \A e \in Deliveries \ {d} : pc'[e] = pc[e]
  BY DEF Goto, Typed

LEMMA BeginMoved ==
  ASSUME Typed, NEW d \in Deliveries, pc[d] \in {"away", "queued"}, NEW k, Begin(d, k),
         fixed' = fixed
  PROVE  Moved(d) /\ pc'[d] \in {"answer", "lid", "chat"}
  <1>1. stanza' = stanza /\ Deliveries' = Deliveries /\ Alt(d) \in Alts \cup {NoAlt}
    BY StanzaTyped DEF fixed, Deliveries
  <1>2. kind'[d] = k /\ \A e \in Deliveries \ {d} : kind'[e] = kind[e]
    BY DEF Begin, Typed
  <1>3. ~InLine(d) /\ pc[d] # "lid" /\ pc[d] \notin Owed /\ retryQueue' = retryQueue
    BY DEF InLine, Inside, Owed, Begin
  <1>4. CASE k = "msmsg" /\ Goto(d, "answer") /\ UNCHANGED <<lidQueue, chatQueue>>
    <2>1. pc'[d] = "answer" /\ \A e \in Deliveries \ {d} : pc'[e] = pc[e]
      BY <1>4, Went
    <2>2. ~InLine(d)' /\ ~Inside(d)'
      BY <1>2, <1>4, <2>1 DEF InLine, Inside
    <2> QED BY <1>1, <1>2, <1>3, <1>4, <2>1, <2>2
         DEF Moved, Rest, LidMove, ChatMove, RetryMove, Course, Owed
  <1>5. CASE Alt(d) = NoAlt /\ JoinChat(d) /\ UNCHANGED lidQueue
    <2>1. /\ pc'[d] = "chat" /\ \A e \in Deliveries \ {d} : pc'[e] = pc[e]
          /\ chatQueue' = [chatQueue EXCEPT ![Chat(d)] = Append(@, d)]
      BY <1>5, Went DEF JoinChat, Goto
    <2>2. ~Inside(d)'
      BY <2>1 DEF Inside
    <2> QED BY <1>1, <1>2, <1>3, <1>5, <2>1, <2>2
         DEF Moved, Rest, LidMove, ChatMove, RetryMove, Course, Owed
  <1>6. CASE /\ Alt(d) # NoAlt /\ Goto(d, "lid") /\ UNCHANGED chatQueue
             /\ lidQueue' = [lidQueue EXCEPT ![Alt(d)] = Append(@, d)]
    <2>1. pc'[d] = "lid" /\ \A e \in Deliveries \ {d} : pc'[e] = pc[e]
      BY <1>6, Went
    <2>2. ~InLine(d)' /\ ~Inside(d)' /\ Alt(d) \in Alts
      BY <1>1, <1>6, <2>1 DEF InLine, Inside
    <2> QED BY <1>1, <1>2, <1>3, <1>6, <2>1, <2>2
         DEF Moved, Rest, LidMove, ChatMove, RetryMove, Course, Owed
  <1> QED BY <1>4, <1>5, <1>6 DEF Begin

\* A stanza that arrives and waits or is never handled.
LEMMA AsideMoved ==
  ASSUME Inv, Arrives, NEW d, d = Next1, NEW l \in {"done", "dropped", "queued"}, Goto(d, l),
         UNCHANGED <<kind, queues>>
  PROVE  Moved(d) /\ pc'[d] = l
  <1>1. d \in Deliveries /\ pc[d] = "away" /\ stanza' = stanza
    BY Arriving DEF Arrives, fixed
  <1>2. pc'[d] = l /\ \A e \in Deliveries \ {d} : pc'[e] = pc[e]
    BY <1>1, Went DEF Inv
  <1>3. \A x \in Deliveries : x > d => pc[x] = "away"
    <2>1. arrived \in Nat /\ Deliveries \subseteq Nat
      BY StanzasTyped DEF Inv, Typed
    <2> QED BY <2>1 DEF Inv, InTurn, Next1
  <1>4. ~InLine(d) /\ ~InLine(d)' /\ ~Inside(d)'
    BY <1>1, <1>2 DEF InLine, Inside
  <1> QED BY <1>1, <1>2, <1>3, <1>4 DEF Moved, Rest, LidMove, ChatMove, RetryMove, Course, Owed,
      queues

LEMMA CaughtPc == ASSUME Typed, NEW d \in Deliveries, Catch(d)
  PROVE  pc'[d] = "done" /\ \A e \in Deliveries \ {d} : pc'[e] = pc[e]
  BY Went DEF Catch

LEMMA MappedMoved == ASSUME Inv, Lines, NEW d \in Deliveries, Mapped(d) PROVE Moved(d)
  <1>1. /\ pc[d] = "lid" /\ Holds(d, lidQueue[Alt(d)]) /\ stanza' = stanza /\ kind' = kind
             /\ retryQueue' = retryQueue
        /\ lidQueue' = [lidQueue EXCEPT ![Alt(d)] = Tail(@)]
    BY DEF Mapped, fixed
  <1>2. ~InLine(d) /\ pc[d] \notin Owed /\ Typed
    BY <1>1 DEF InLine, Inside, Owed, Inv
  <1>3. CASE JoinChat(d)
    <2>1. /\ pc'[d] = "chat" /\ \A e \in Deliveries \ {d} : pc'[e] = pc[e]
          /\ chatQueue' = [chatQueue EXCEPT ![Chat(d)] = Append(@, d)]
      BY <1>2, <1>3, Went DEF JoinChat, Goto
    <2>2. ~Inside(d)'
      BY <2>1 DEF Inside
    <2> QED BY <1>1, <1>2, <2>1, <2>2 DEF Moved, Rest, LidMove, ChatMove, RetryMove, Course, Owed
  <1>4. CASE Catch(d) /\ UNCHANGED chatQueue
    <2>1. pc'[d] = "done" /\ \A e \in Deliveries \ {d} : pc'[e] = pc[e]
      BY <1>2, <1>4, CaughtPc
    <2>2. ~InLine(d)' /\ ~Inside(d)'
      BY <2>1 DEF InLine, Inside
    <2> QED BY <1>1, <1>2, <1>4, <2>1, <2>2 DEF Moved, Rest, LidMove, ChatMove, RetryMove, Course,
        Owed
  <1> QED BY <1>3, <1>4 DEF Mapped

\* A step of one that holds the lock of its chat: it goes on inside, or leaves.
LEMMA InsideMoved ==
  ASSUME Typed, NEW d \in Deliveries, InLine(d), Holds(d, chatQueue[Chat(d)]), stanza' = stanza,
         \A e \in Deliveries \ {d} : pc'[e] = pc[e] /\ kind'[e] = kind[e],
         lidQueue' = lidQueue,
         \/ Inside(d)' /\ UNCHANGED <<chatQueue, retryQueue>>
         \/ pc'[d] = "done" /\ LeaveChat(d) /\ UNCHANGED retryQueue
         \/ pc'[d] = "retry" /\ LeaveChat(d) /\ retryQueue' = Append(retryQueue, d)
  PROVE  Moved(d)
  <1>1. /\ pc[d] \in {"chat", "answer", "histSync", "upsert", "process"}
        /\ pc'[d] \in {"answer", "histSync", "upsert", "process", "done", "retry"}
    BY DEF InLine, Inside
  <1>2. pc'[d] \in {"done", "retry"} => ~InLine(d)' /\ ~Inside(d)'
    BY DEF InLine, Inside
  <1>3. Rest(d)
    BY DEF Rest
  <1>4. LidMove(d)
    BY <1>1 DEF LidMove
  <1>5. ChatMove(d)
    BY <1>2 DEF ChatMove
  <1>6. RetryMove(d)
    <2>1. CASE Inside(d)' /\ UNCHANGED <<chatQueue, retryQueue>>
      <3>1. pc'[d] \in {"answer", "histSync", "upsert", "process"}
        BY <2>1 DEF Inside
      <3> QED BY <1>1, <2>1, <3>1 DEF RetryMove, Owed
    <2> QED BY <1>1, <2>1 DEF RetryMove, Owed
  <1>7. Course(d)
    BY <1>1, <1>2 DEF Course
  <1> QED BY <1>3, <1>4, <1>5, <1>6, <1>7 DEF Moved

LEMMA DecryptMoved == ASSUME Inv, Lines, NEW d \in Deliveries, Decrypt(d) PROVE Moved(d)
  <1>1. /\ InLine(d) /\ Holds(d, chatQueue[Chat(d)]) /\ stanza' = stanza /\ Typed
        /\ UNCHANGED <<lidQueue, chatQueue, retryQueue>>
    BY DEF Decrypt, InChat, InLine, fixed, queues, Inv
  <1>2. PICK k : k # "msmsg" /\ kind' = [kind EXCEPT ![d] = k]
          /\ (Goto(d, "upsert") \/ Goto(d, "answer"))
    BY DEF Decrypt
  <1>3. PICK l \in {"upsert", "answer"} : Goto(d, l)
    BY <1>2
  <1>4. pc'[d] = l /\ kind'[d] = k /\ \A e \in Deliveries \ {d} : pc'[e] = pc[e]
          /\ kind'[e] = kind[e]
    BY <1>1, <1>2, <1>3, Went DEF Typed
  <1>5. Inside(d)'
    BY <1>2, <1>4 DEF Inside
  <1> QED BY <1>1, <1>4, <1>5, InsideMoved

LEMMA AnswerMoved == ASSUME Inv, Lines, NEW d \in Deliveries, Answer(d) PROVE Moved(d)
  <1>1. /\ pc[d] = "answer" /\ stanza' = stanza /\ kind' = kind /\ Typed
        /\ UNCHANGED <<lidQueue, retryQueue>>
    BY DEF Answer, fixed, Inv
  <1>2. CASE kind[d] = "msmsg"
    <2>1. Goto(d, "done") /\ UNCHANGED chatQueue
      BY <1>2 DEF Answer
    <2>2. pc'[d] = "done" /\ \A e \in Deliveries \ {d} : pc'[e] = pc[e]
      BY <1>1, <2>1, Went
    <2>3. ~InLine(d) /\ ~InLine(d)' /\ ~Inside(d)'
      BY <1>1, <1>2, <2>2 DEF InLine, Inside
    <2> QED BY <1>1, <2>1, <2>2, <2>3 DEF Moved, Rest, LidMove, ChatMove, RetryMove, Course, Owed
  <1>3. CASE kind[d] # "msmsg"
    <2>1. Inside(d) /\ InLine(d)
      BY <1>1, <1>3 DEF Inside, InLine
    <2>2. Holds(d, chatQueue[Chat(d)])
      BY <1>1, <2>1, InsideHolds DEF Lines
    <2>3. CASE \E l \in {"upsert", "histSync"} : Goto(d, l) /\ UNCHANGED chatQueue
      <3>1. pc'[d] \in {"upsert", "histSync"} /\ \A e \in Deliveries \ {d} : pc'[e] = pc[e]
        BY <1>1, <2>3, Went
      <3>2. Inside(d)'
        BY <3>1 DEF Inside
      <3> QED BY <1>1, <2>1, <2>2, <2>3, <3>1, <3>2, InsideMoved
    <2>4. CASE Goto(d, "done") /\ LeaveChat(d)
      <3>1. pc'[d] = "done" /\ \A e \in Deliveries \ {d} : pc'[e] = pc[e]
        BY <1>1, <2>4, Went
      <3> QED BY <1>1, <2>1, <2>2, <2>4, <3>1, InsideMoved
    <2> QED BY <1>3, <2>3, <2>4 DEF Answer
  <1> QED BY <1>2, <1>3

LEMMA HistReceiptMoved == ASSUME Inv, Lines, NEW d \in Deliveries, HistReceipt(d) PROVE Moved(d)
  <1>1. /\ pc[d] = "histSync" /\ stanza' = stanza /\ kind' = kind /\ Typed
        /\ UNCHANGED <<lidQueue, retryQueue>>
    BY DEF HistReceipt, fixed, Inv
  <1>2. Inside(d) /\ InLine(d)
    BY <1>1 DEF Inside, InLine
  <1>3. Holds(d, chatQueue[Chat(d)])
    BY <1>1, <1>2, InsideHolds DEF Lines
  <1>4. CASE Goto(d, "upsert") /\ UNCHANGED chatQueue
    <2>1. pc'[d] = "upsert" /\ \A e \in Deliveries \ {d} : pc'[e] = pc[e]
      BY <1>1, <1>4, Went
    <2>2. Inside(d)'
      BY <2>1 DEF Inside
    <2> QED BY <1>1, <1>2, <1>3, <1>4, <2>1, <2>2, InsideMoved
  <1>5. CASE Goto(d, "done") /\ LeaveChat(d)
    <2>1. pc'[d] = "done" /\ \A e \in Deliveries \ {d} : pc'[e] = pc[e]
      BY <1>1, <1>5, Went
    <2> QED BY <1>1, <1>2, <1>3, <1>5, <2>1, InsideMoved
  <1> QED BY <1>4, <1>5 DEF HistReceipt

LEMMA ShowMoved ==
  ASSUME Inv, Lines, NEW d \in Deliveries, SkipUpsert(d) \/ Upsert(d) \/ Process(d)
  PROVE  Moved(d)
  <1>1. /\ pc[d] \in {"upsert", "process"} /\ stanza' = stanza /\ kind' = kind /\ Typed
        /\ UNCHANGED lidQueue
    BY DEF SkipUpsert, Upsert, Process, fixed, queues, Inv
  <1>2. Inside(d) /\ InLine(d)
    BY <1>1 DEF Inside, InLine
  <1>3. Holds(d, chatQueue[Chat(d)])
    BY <1>1, <1>2, InsideHolds DEF Lines
  <1>4. CASE Upsert(d)
    <2>1. Goto(d, "process") /\ UNCHANGED <<chatQueue, retryQueue>>
      BY <1>4 DEF Upsert, queues
    <2>2. pc'[d] = "process" /\ \A e \in Deliveries \ {d} : pc'[e] = pc[e]
      BY <1>1, <2>1, Went
    <2>3. Inside(d)'
      BY <2>2 DEF Inside
    <2> QED BY <1>1, <1>2, <1>3, <2>1, <2>2, <2>3, InsideMoved
  <1>5. CASE AfterChat(d)
    <2>1. PICK l \in {"retry", "done"} :
            /\ Goto(d, l) /\ LeaveChat(d)
            /\ l = "retry" => retryQueue' = Append(retryQueue, d)
            /\ l = "done" => UNCHANGED retryQueue
      BY <1>5 DEF AfterChat
    <2>2. pc'[d] = l /\ \A e \in Deliveries \ {d} : pc'[e] = pc[e]
      BY <1>1, <2>1, Went
    <2> QED BY <1>1, <1>2, <1>3, <2>1, <2>2, InsideMoved
  <1> QED BY <1>4, <1>5 DEF SkipUpsert, Process

LEMMA ThrowsMoved == ASSUME Inv, Lines, NEW d \in Deliveries, Throws(d) PROVE Moved(d)
  <1>1. /\ stanza' = stanza /\ kind' = kind /\ Typed /\ UNCHANGED <<lidQueue, retryQueue>>
        /\ LeaveChat(d) /\ Catch(d)
    BY DEF Throws, fixed, Inv
  <1>2. InLine(d) /\ Holds(d, chatQueue[Chat(d)])
    <2>1. CASE InChat(d)
      BY <2>1 DEF InChat, InLine
    <2>2. CASE pc[d] = "process"
      BY <1>1, <2>2, InsideHolds DEF Inside, InLine, Lines
    <2> QED BY <2>1, <2>2 DEF Throws
  <1>3. pc'[d] = "done" /\ \A e \in Deliveries \ {d} : pc'[e] = pc[e]
    BY <1>1, CaughtPc
  <1> QED BY <1>1, <1>2, <1>3, InsideMoved

LEMMA HandleMoved == ASSUME Inv, Lines, NEW d \in Deliveries, Handle(d) PROVE Moved(d) /\ ~Begins(d)
  <1>1. Moved(d)
    BY MappedMoved, DecryptMoved, AnswerMoved, HistReceiptMoved, ShowMoved, ThrowsMoved DEF Handle
  <1>2. pc[d] \in {"lid", "chat", "answer", "histSync", "upsert", "process"}
    BY DEF Handle, Mapped, Decrypt, InChat, Answer, HistReceipt, SkipUpsert, Upsert, Process, Throws
  <1> QED BY <1>1, <1>2 DEF Begins

LEMMA RetryMoved == ASSUME Inv, Lines, NEW d \in Deliveries, Retry(d) PROVE Moved(d) /\ ~Begins(d)
  <1>1. /\ pc[d] \in Owed /\ stanza' = stanza /\ kind' = kind /\ Typed
        /\ UNCHANGED <<lidQueue, chatQueue>>
    BY DEF Retry, RetrySkipped, Charge, ChargeUpTo, BudgetSpent, AskPhone, PhoneAsked, SendRetry,
        Nack,
           RetryTurn, fixed, queues, Owed, Inv
  <1>2. Holds(d, retryQueue)
    <2>1. CASE RetryTurn(d)
      BY <2>1 DEF RetryTurn
    <2>2. CASE pc[d] \in Owed \ {"retry"}
      BY <2>2, RetryingHolds DEF Lines
    <2>3. RetryTurn(d) \/ pc[d] \in {"charged", "asking", "receipt", "nack"}
      BY DEF Retry, RetrySkipped, Charge, ChargeUpTo, BudgetSpent, AskPhone, PhoneAsked,
          SendRetry, Nack
    <2> QED BY <2>1, <2>2, <2>3 DEF Owed
  <1>3. \/ \E l \in Owed \ {"retry"} : Goto(d, l) /\ UNCHANGED retryQueue
        \/ Goto(d, "done") /\ retryQueue' = Tail(retryQueue)
    <2>1. CASE RetrySkipped(d) \/ Nack(d)
      BY <2>1 DEF RetrySkipped, Nack
    <2>2. CASE Charge(d)
      BY <2>2 DEF Charge, ChargeUpTo, queues, Owed
    <2>3. CASE BudgetSpent(d)
      BY <2>3 DEF BudgetSpent, queues, Owed
    <2>4. CASE AskPhone(d)
      BY <2>4 DEF AskPhone, queues, Owed
    <2>5. CASE PhoneAsked(d) \/ SendRetry(d)
      BY <2>5 DEF PhoneAsked, SendRetry, queues, Owed
    <2> QED BY <2>1, <2>2, <2>3, <2>4, <2>5 DEF Retry
  <1>4. \A e \in Deliveries \ {d} : pc'[e] = pc[e]
    BY <1>1, <1>3, Went
  <1>5. \/ pc'[d] \in Owed \ {"retry"} /\ UNCHANGED retryQueue
        \/ pc'[d] = "done" /\ retryQueue' = Tail(retryQueue)
    BY <1>1, <1>3, Went
  <1>6. ~InLine(d) /\ ~InLine(d)' /\ ~Inside(d)' /\ pc[d] # "lid" /\ pc'[d] # "lid"
    BY <1>1, <1>5 DEF InLine, Inside, Owed
  <1>7. RetryMove(d)
    BY <1>1, <1>2, <1>5 DEF RetryMove, Owed
  <1>8. Course(d) /\ ~Begins(d)
    BY <1>1, <1>5, <1>6 DEF Course, Begins, Owed
  <1> QED BY <1>1, <1>4, <1>6, <1>7, <1>8 DEF Moved, Rest, LidMove, ChatMove

-----------------------------------------------------------------------------
(* The order of a lane                                                     *)

Passage == Inv /\ Waiting /\ Lines /\ Lanes

LEMMA PassageStep ==
  ASSUME Passage, Inv', NEW d \in Deliveries, Moved(d), Begins(d) => First(d), Waiting'
  PROVE  Passage'
  BY MoveStep DEF Passage, Moved

\* Steps that move nobody.
LEMMA PassageKept ==
  ASSUME Passage, Inv', UNCHANGED <<fixed, arrived, pc, kind, offline, queues>>
  PROVE  Passage'
  <1>1. /\ stanza' = stanza /\ pc' = pc /\ kind' = kind /\ lidQueue' = lidQueue
        /\ chatQueue' = chatQueue /\ retryQueue' = retryQueue /\ Deliveries' = Deliveries
    BY DEF fixed, queues, Deliveries
  <1>2. Waiting'
    <2>1. backlog' = backlog /\ current' = current /\ arrived' = arrived
      BY DEF offline
    <2> QED BY <1>1, <2>1, WaitingKept DEF Passage, Waiting
  <1>3. Lines'
    <2>1. /\ \A a : LidSet(a)' = LidSet(a)
          /\ \A c : ChatSet(c)' = ChatSet(c) /\ EnteredSet(c)' = EnteredSet(c)
          /\ RetrySet' = RetrySet /\ RetryingSet' = RetryingSet
      BY <1>1 DEF LidSet, ChatSet, EnteredSet, RetrySet, RetryingSet, InLine, Inside, Alt, Chat
    <2>2. \A d : Alt(d)' = Alt(d)
      BY <1>1 DEF Alt
    <2> QED BY <1>1, <2>1, <2>2 DEF Passage, Lines, LidLines, ChatLines, RetryLine
  <1>4. Lanes'
    <2>1. \A d : /\ Lane(d)' = Lane(d) /\ InLine(d)' = InLine(d) /\ Inside(d)' = Inside(d)
                 /\ Alt(d)' = Alt(d) /\ Chat(d)' = Chat(d)
      BY <1>1 DEF Lane, InLine, Inside, Alt, Chat
    <2> QED BY <1>1, <2>1 DEF Passage, Lanes, InOrder
  <1> QED BY <1>2, <1>3, <1>4 DEF Passage

\* A step of a handler past the backlog.
LEMMA PassageHandled ==
  ASSUME Passage, Inv', NEW d \in Deliveries, Handle(d) \/ Retry(d)
  PROVE  Passage'
  <1>1. Moved(d) /\ ~Begins(d)
    BY HandleMoved, RetryMoved DEF Passage
  <1>2. UNCHANGED <<fixed, arrived, offline>>
    <2>1. CASE Handle(d)
      BY <2>1 DEF Handle, Mapped, Decrypt, Answer, HistReceipt, SkipUpsert, Upsert, Process, Throws
    <2>2. CASE Retry(d)
      BY <2>2 DEF Retry, RetrySkipped, Charge, ChargeUpTo, BudgetSpent, AskPhone, PhoneAsked,
                  SendRetry, Nack
    <2> QED BY <2>1, <2>2
  <1>3. \A e \in Deliveries : pc'[e] = "queued" => pc[e] = "queued"
    <2>1. pc[d] # "away"
      <3>1. CASE Handle(d)
        BY <3>1 DEF Handle, Mapped, Decrypt, InChat, Answer, HistReceipt, SkipUpsert, Upsert,
                    Process, Throws
      <3>2. CASE Retry(d)
        BY <3>2 DEF Retry, RetrySkipped, Charge, ChargeUpTo, BudgetSpent, AskPhone, PhoneAsked,
                    SendRetry, Nack, RetryTurn
      <3> QED BY <3>1, <3>2
    <2> QED BY <1>1, <2>1 DEF Moved, Rest, Course
  <1>4. Waiting'
    <2>1. backlog' = backlog /\ current' = current /\ arrived' = arrived /\ stanza' = stanza
      BY <1>2 DEF offline, fixed
    <2> QED BY <1>3, <2>1, WaitingKept DEF Passage, Waiting
  <1> QED BY <1>1, <1>4, PassageStep

\* Nothing of its lane waits before a stanza that is handled on arrival.
LEMMA StartFirst ==
  ASSUME Inv, Waiting, Arrives, NEW d, d = Next1, ~stanza[d].offline \/ current = 0
  PROVE  First(d)
  <1>1. arrived \in Nat /\ Deliveries \subseteq Nat
    BY StanzasTyped DEF Inv, Typed
  <1> SUFFICES ASSUME NEW x \in Deliveries, Lane(x) = Lane(d)
               PROVE  (d < x => pc[x] \in NotBegun) /\ pc[x] # "queued"
    BY <1>1 DEF First
  <1>2. d < x => pc[x] = "away"
    BY <1>1 DEF Inv, InTurn, Next1
  <1>3. ASSUME pc[x] = "queued" PROVE FALSE
    <2>1. PICK i \in DOMAIN backlog : backlog[i] = x
      BY <1>3 DEF Waiting
    <2>2. stanza[x].offline /\ current # 0
      <3>1. backlog # <<>>
        BY <2>1
      <3> QED BY <2>1, <3>1 DEF Waiting
    <2>3. stanza[d].offline = stanza[x].offline
      BY DEF Lane
    <2> QED BY <2>2, <2>3
  <1> QED BY <1>2, <1>3 DEF NotBegun

LEMMA PassageArrives == ASSUME Passage, Inv', Stanzas PROVE Passage'
  <1> DEFINE d == Next1
  <1>1. Arrives /\ Inv /\ Waiting
    BY DEF Stanzas, Ignore, Receive, EnqueueFull, EnqueueWaits, EnqueueStarts, Passage
  <1>2. arrived' \in 0..Len(stanza) /\ d \in Deliveries /\ d # 0 /\ stanza' = stanza
          /\ pc[d] = "away"
    BY <1>1, ArrivalCounts, Arriving
  <1> HIDE DEF d
  <1>3. CASE Ignore \/ EnqueueFull
    <2>1. PICK l \in {"done", "dropped"} : Goto(d, l) /\ UNCHANGED <<kind, queues, offline>>
      BY <1>3 DEF Ignore, EnqueueFull, d
    <2>2. Moved(d) /\ pc'[d] = l
      BY <1>1, <2>1, AsideMoved DEF d
    <2>3. ~Begins(d)
      BY <2>2 DEF Begins, NotBegun
    <2>4. \A e \in Deliveries : pc'[e] = "queued" => pc[e] = "queued"
      BY <2>2 DEF Moved, Rest
    <2>5. Waiting'
      <3>1. backlog' = backlog /\ current' = current
        BY <2>1 DEF offline
      <3> QED BY <1>1, <1>2, <2>4, <3>1, WaitingKept DEF Waiting
    <2> QED BY <1>2, <2>2, <2>3, <2>5, PassageStep
  <1>4. CASE EnqueueWaits
    <2>1. Goto(d, "queued") /\ UNCHANGED <<kind, queues>>
      BY <1>4 DEF EnqueueWaits, d
    <2>2. Moved(d) /\ pc'[d] = "queued"
      BY <1>1, <2>1, AsideMoved DEF d
    <2>3. ~Begins(d)
      BY <2>2 DEF Begins, NotBegun
    <2> QED BY <1>1, <1>2, <1>4, <2>2, <2>3, WaitingJoins, PassageStep
  <1>5. CASE Receive \/ EnqueueStarts
    <2>1. /\ \E k : Begin(d, k)
          /\ backlog' = backlog /\ current' \in {current, d}
          /\ ~stanza[d].offline \/ current = 0
      BY <1>5 DEF Receive, EnqueueStarts, offline, d
    <2>2. PICK k : Begin(d, k)
      BY <2>1
    <2>3. Moved(d) /\ pc'[d] # "queued"
      BY <1>1, <1>2, <2>2, BeginMoved DEF Inv, Arrives
    <2>4. First(d)
      BY <1>1, <2>1, StartFirst DEF d
    <2>5. \A e \in Deliveries : pc'[e] = "queued" => pc[e] = "queued"
      BY <2>3 DEF Moved, Rest
    <2>6. Waiting'
      <3>1. current' \in Deliveries \cup {0} /\ (current' = 0 => current = 0)
        BY <1>1, <1>2, <2>1 DEF Waiting
      <3> QED BY <1>1, <1>2, <2>1, <2>5, <3>1, WaitingKept
    <2> QED BY <1>2, <2>3, <2>4, <2>6, PassageStep
  <1> QED BY <1>3, <1>4, <1>5 DEF Stanzas

LEMMA PassageNext == ASSUME Passage, Inv', NextQueued PROVE Passage'
  <1> DEFINE d == Head(backlog)
  <1>1. backlog # <<>> /\ fixed' = fixed /\ Inv /\ Waiting /\ \E k : Begin(d, k)
    BY DEF NextQueued, Passage
  <1>2. /\ d \in Deliveries /\ pc[d] = "queued"
        /\ \A x \in Deliveries : x < d => pc[x] # "queued"
    BY <1>1, BacklogHead
  <1>3. PICK k : Begin(d, k)
    BY <1>1
  <1> HIDE DEF d
  <1>4. Moved(d) /\ pc'[d] # "queued"
    BY <1>1, <1>2, <1>3, BeginMoved DEF Inv
  <1>5. First(d)
    BY <1>2 DEF First, Passage, Lanes, InOrder
  <1>6. \A e \in Deliveries : pc'[e] = "queued" => e # d /\ pc[e] = "queued"
    BY <1>4 DEF Moved, Rest
  <1>7. Waiting'
    BY <1>1, <1>6, WaitingAdvances DEF d
  <1> QED BY <1>2, <1>4, <1>5, <1>7, PassageStep

LEMMA PassageEnds == ASSUME Passage, Inv', BacklogEnds PROVE Passage'
  <1>1. /\ stanza' = stanza /\ kind' = kind /\ UNCHANGED <<lidQueue, chatQueue, retryQueue>>
        /\ pc' = [d \in Deliveries |-> IF d \in ToSet(backlog) THEN "dropped" ELSE pc[d]]
    BY DEF BacklogEnds, DropQueued, fixed, queues
  <1>2. \A d \in Deliveries : d \in ToSet(backlog) => pc[d] = "queued"
    <2>1. backlog \in Seq(Deliveries) /\ \A i \in 1..Len(backlog) : pc[backlog[i]] = "queued"
      BY DEF Passage, Inv, Backlogged
    <2>2. DOMAIN backlog = 1..Len(backlog)
      BY <2>1
    <2> QED BY <2>1, <2>2 DEF ToSet
  <1>3. \A d \in Deliveries : pc'[d] = pc[d] \/ (pc[d] = "queued" /\ pc'[d] = "dropped")
    BY <1>1, <1>2
  <1>4. Deliveries' = Deliveries /\ \A d : Alt(d)' = Alt(d) /\ Chat(d)' = Chat(d)
          /\ Lane(d)' = Lane(d)
    BY <1>1 DEF Deliveries, Alt, Chat, Lane
  <1>5. \A d \in Deliveries : InLine(d)' = InLine(d) /\ Inside(d)' = Inside(d)
    BY <1>1, <1>3 DEF InLine, Inside
  <1>6. Waiting'
    BY WaitingEnds DEF Passage
  <1>7. Lines'
    <2>1. /\ \A a : LidSet(a)' = LidSet(a)
          /\ \A c : ChatSet(c)' = ChatSet(c) /\ EnteredSet(c)' = EnteredSet(c)
          /\ RetrySet' = RetrySet /\ RetryingSet' = RetryingSet
      BY <1>3, <1>4, <1>5 DEF LidSet, ChatSet, EnteredSet, RetrySet, RetryingSet, Owed
    <2> QED BY <1>1, <1>3, <1>4, <2>1 DEF Passage, Lines, LidLines, ChatLines, RetryLine
  <1>8. Lanes'
    BY <1>1, <1>3, <1>4, <1>5 DEF Passage, Lanes, InOrder, NotBegun
  <1> QED BY <1>6, <1>7, <1>8 DEF Passage

LEMMA InitPassage == Init => Passage
  <1> SUFFICES ASSUME Init PROVE Passage
    OBVIOUS
  <1>1. Inv
    BY InitInv
  <1>2. \A d \in Deliveries : pc[d] = "away"
    BY DEF Init
  <1>3. Waiting
    <2>1. Len(stanza) \in Nat
      BY <1>1, DeliveryNumbers DEF Inv, Typed
    <2> QED BY <1>2, <2>1 DEF Init, Waiting
  <1>4. /\ \A a : LidSet(a) = {} /\ \A c : ChatSet(c) = {} /\ EnteredSet(c) = {}
        /\ RetrySet = {} /\ RetryingSet = {}
    BY <1>2 DEF LidSet, ChatSet, EnteredSet, RetrySet, RetryingSet, InLine, Inside, Owed
  <1>5. Lines
    <2>1. LidLines
      <3>1. lidQueue \in [Alts -> Seq(Deliveries)] /\ \A a \in Alts : lidQueue[a] = <<>>
        BY DEF Init
      <3> QED BY <1>2, <1>4, <3>1, LineEmpty DEF LidLines
    <2>2. ChatLines
      <3>1. chatQueue \in [Chats -> Seq(Deliveries)] /\ \A c \in Chats : chatQueue[c] = <<>>
        BY DEF Init
      <3> QED BY <1>4, <3>1, LineEmpty DEF ChatLines
    <2>3. RetryLine
      BY <1>4, LineEmpty DEF Init, RetryLine
    <2> QED BY <2>1, <2>2, <2>3 DEF Lines
  <1>6. Lanes
    BY <1>2 DEF Lanes, InOrder
  <1> QED BY <1>1, <1>3, <1>5, <1>6 DEF Passage

\* The steps that are neither of a handler nor of the backlog.
LEMMA OtherKept ==
  ASSUME \/ \E d \in Deliveries : Resend(d)
         \/ \E m \in Msgs : PhoneAnswers(m) \/ PhoneTimer(m)
         \/ \E i \in Identities : MarkExpires(i)
         \/ Close \/ EndHandlers \/ UNCHANGED vars
  PROVE  UNCHANGED <<fixed, arrived, handler, offline, queues>>
  <1>1. ASSUME NEW d \in Deliveries, Resend(d)
        PROVE  UNCHANGED <<fixed, arrived, handler, offline, queues>>
    BY <1>1 DEF Resend, ResendMiss, AlreadyRequested, ResendStore, Resolved, ResendAsk,
                ResendExpires, handling
  <1>2. ASSUME NEW m \in Msgs, PhoneAnswers(m) \/ PhoneTimer(m)
        PROVE  UNCHANGED <<fixed, arrived, handler, offline, queues>>
    BY <1>2 DEF PhoneAnswers, PhoneTimer, handling
  <1>3. CASE Close \/ EndHandlers \/ UNCHANGED vars \/ \E i \in Identities : MarkExpires(i)
    BY <1>3 DEF Close, EndHandlers, handling, vars, MarkExpires
  <1> QED BY <1>1, <1>2, <1>3

LEMMA NextPassage == Passage /\ [Next]_vars => Passage'
  <1> SUFFICES ASSUME Passage, [Next]_vars PROVE Passage'
    OBVIOUS
  <1>1. Inv'
    BY NextInv DEF Passage
  <1>2. CASE Stanzas
    BY <1>1, <1>2, PassageArrives
  <1>3. CASE Backlog
    BY <1>1, <1>3, PassageNext, PassageEnds DEF Backlog
  <1>4. CASE \E d \in Deliveries : Handle(d) \/ Retry(d)
    BY <1>1, <1>4, PassageHandled
  <1>5. CASE \/ \E d \in Deliveries : Resend(d)
             \/ \E m \in Msgs : PhoneAnswers(m) \/ PhoneTimer(m)
             \/ \E i \in Identities : MarkExpires(i)
             \/ Close \/ EndHandlers \/ UNCHANGED vars
    <2>1. UNCHANGED <<fixed, arrived, pc, kind, offline, queues>>
      BY <1>5, OtherKept DEF handler
    <2> QED BY <1>1, <2>1, PassageKept
  <1> QED BY <1>2, <1>3, <1>4, <1>5 DEF Next

(***************************************************************************)
(* Nobody is overtaken: two stanzas of a chat that take the same way to it  *)
(* (lib/Socket/messages-recv.js: the backlog, the mapping lock, the lock of *)
(* the chat) are shown in the order they arrived in, whatever throws, is    *)
(* ignored or dropped between them.                                        *)
(***************************************************************************)
THEOREM InboundMessagesLaneOrder == Spec => []LaneOrder
<1>1. Passage => LaneOrder
  <2> SUFFICES ASSUME Passage, NEW d \in Deliveries, NEW e \in Deliveries, d < e, Lane(d) = Lane(e),
                      pc[d] \in {"queued", "lid", "chat"}
               PROVE  ~Inside(e)
    BY DEF LaneOrder
  <2>1. InOrder(d, e)
    BY DEF Passage, Lanes
  <2> QED BY <2>1 DEF InOrder, NotBegun, InLine, Inside
<1>2. QED BY <1>1, InitPassage, NextPassage, PTL DEF Spec

-----------------------------------------------------------------------------
(* A message is shown once                                                 *)

Processing(i) == \E d \in Deliveries : pc[d] = "process" /\ Key(d) = i
Credit(i) == IF i \in processed \/ Processing(i) THEN 1 ELSE 0

\* A message was shown once for every time it was left without a mark, and once more
\* if it is being processed or is marked.  Nobody processes what is marked.
Shown ==
  /\ processed \subseteq Identities /\ failures \in 0..MaxFailures
  /\ upserts \in [Identities -> Nat] /\ excused \in [Identities -> Nat]
  /\ \A i \in Identities : upserts[i] <= excused[i] + Credit(i)
  /\ \A d \in Deliveries : pc[d] = "process" => Key(d) \notin processed

LEMMA KeyTyped == ASSUME Typed, NEW d \in Deliveries
  PROVE  Key(d) \in Identities /\ Key(d)[1] = Chat(d)
  <1>1. Chat(d) \in Chats /\ Msg(d) \in Msgs /\ Body(d) \in {"stub", "content"}
    BY StanzaTyped DEF Body
  <1> QED BY <1>1 DEF Key, Identities

\* One at a time is inside a chat.
LEMMA OneInside ==
  ASSUME Typed, ChatLines, NEW d \in Deliveries, NEW e \in Deliveries, Inside(d), Inside(e),
         Chat(d) = Chat(e)
  PROVE  d = e
  BY InsideHolds DEF Holds

\* Steps that neither begin nor end the processing of a message.
LEMMA ShownKept ==
  ASSUME Shown, stanza' = stanza, UNCHANGED <<processed, upserts, excused>>,
         failures' \in 0..MaxFailures,
         \A e \in Deliveries : /\ pc'[e] = "process" <=> pc[e] = "process"
                               /\ pc[e] = "process" => kind'[e] = kind[e]
  PROVE  Shown'
  <1>1. Deliveries' = Deliveries /\ Identities' = Identities
    BY DEF Deliveries, Identities
  <1>2. \A e \in Deliveries : pc[e] = "process" => Key(e)' = Key(e)
    BY DEF Key, Chat, Msg, Body
  <1>3. \A i : Processing(i)' <=> Processing(i)
    BY <1>1, <1>2 DEF Processing
  <1>4. \A i : Credit(i)' = Credit(i)
    BY <1>3 DEF Credit
  <1> QED BY <1>1, <1>2, <1>4 DEF Shown

\* What MaxFailures bounds stays within it.
LEMMA OneMoreFailure ==
  ASSUME Shown, failures < MaxFailures, failures' = failures + 1
  PROVE  failures' \in 0..MaxFailures
  BY InboundMessagesAssumption DEF Shown

\* A message that ends being processed, or loses its mark, with k excused or marked.
LEMMA ShownPaid ==
  ASSUME Shown, stanza' = stanza, upserts' = upserts, failures' \in 0..MaxFailures,
         NEW k \in Identities, processed' \subseteq Identities,
         \A e \in Deliveries : pc'[e] = "process" =>
           pc[e] = "process" /\ kind'[e] = kind[e] /\ Key(e) # k,
         \A i \in Identities \ {k} :
           /\ (i \in processed' <=> i \in processed) /\ (Processing(i) => Processing(i)'),
         \/ excused' = excused /\ k \in processed'
         \/ Excuse(k)
  PROVE  Shown'
  <1>1. Deliveries' = Deliveries /\ Identities' = Identities
    BY DEF Deliveries, Identities
  <1>2. excused' \in [Identities -> Nat] /\ \A i \in Identities : excused'[i] >= excused[i]
    <2>1. CASE excused' = excused
      BY <2>1 DEF Shown
    <2>2. CASE Excuse(k)
      <3>1. excused \in [Identities -> Nat] /\ excused[k] + 1 \in Nat
        BY DEF Shown
      <3>2. excused' = [excused EXCEPT ![k] = excused[k] + 1]
        BY <2>2 DEF Excuse
      <3> QED BY <3>1, <3>2
    <2> QED BY <2>1, <2>2
  <1>3. \A i \in Identities : upserts'[i] <= excused'[i] + Credit(i)'
    <2> SUFFICES ASSUME NEW i \in Identities PROVE upserts'[i] <= excused'[i] + Credit(i)'
      OBVIOUS
    <2>1. /\ upserts[i] \in Nat /\ excused[i] \in Nat /\ excused'[i] \in Nat
          /\ upserts[i] <= excused[i] + Credit(i) /\ excused'[i] >= excused[i]
      BY <1>2 DEF Shown
    <2>2. Credit(i) \in {0, 1} /\ Credit(i)' \in {0, 1}
      BY DEF Credit
    <2>3. CASE i # k
      <3>1. Credit(i) <= Credit(i)'
        BY <2>3 DEF Credit
      <3> QED BY <2>1, <2>2, <3>1
    <2>4. CASE i = k /\ k \in processed'
      <3>1. Credit(i)' = 1
        BY <2>4 DEF Credit
      <3> QED BY <2>1, <2>2, <3>1
    <2>5. CASE i = k /\ Excuse(k)
      <3>1. excused'[i] = excused[i] + 1
        BY <2>5 DEF Excuse, Shown
      <3> QED BY <2>1, <2>2, <3>1
    <2> QED BY <2>3, <2>4, <2>5
  <1>4. \A e \in Deliveries : pc'[e] = "process" => Key(e)' \notin processed'
    <2> SUFFICES ASSUME NEW e \in Deliveries, pc'[e] = "process" PROVE Key(e)' \notin processed'
      OBVIOUS
    <2>1. pc[e] = "process" /\ Key(e) # k /\ Key(e)' = Key(e) /\ Key(e) \notin processed
      BY DEF Key, Chat, Msg, Body, Shown
    <2> QED BY <2>1
  <1> QED BY <1>1, <1>2, <1>3, <1>4 DEF Shown

LEMMA ShownUpsert == ASSUME Inv, Lines, Shown, NEW d \in Deliveries, Upsert(d) PROVE Shown'
  <1> SUFFICES ASSUME NEW CONSTANT k, k = Key(d) PROVE Shown'
    OBVIOUS
  <1>1. /\ pc[d] = "upsert" /\ k \notin processed /\ processed' = processed
        /\ UNCHANGED <<excused, failures>>
        /\ upserts' = [upserts EXCEPT ![k] = @ + 1] /\ stanza' = stanza /\ kind' = kind /\ Typed
    BY DEF Upsert, fixed, Inv
  <1>2. pc'[d] = "process" /\ \A e \in Deliveries \ {d} : pc'[e] = pc[e]
    BY <1>1, Went DEF Upsert
  <1>3. Deliveries' = Deliveries /\ Identities' = Identities /\ \A e : Key(e)' = Key(e)
    BY <1>1 DEF Deliveries, Identities, Key, Chat, Msg, Body
  <1>4. k \in Identities
    BY <1>1, KeyTyped
  <1>5. ~Processing(k)
    <2> SUFFICES ASSUME NEW e \in Deliveries, pc[e] = "process", Key(e) = k PROVE FALSE
      BY DEF Processing
    <2>1. Chat(e) = Chat(d) /\ Inside(e) /\ Inside(d)
      BY <1>1, KeyTyped DEF Inside
    <2> QED BY <1>1, <2>1, OneInside DEF Lines
  <1>6. \A i : Processing(i)' <=> Processing(i) \/ i = k
    BY <1>1, <1>2, <1>3 DEF Processing
  <1>7. Credit(k) = 0 /\ Credit(k)' = 1 /\ \A i : i # k => Credit(i)' = Credit(i)
    BY <1>1, <1>5, <1>6 DEF Credit
  <1>8. \A i \in Identities : upserts'[i] <= excused'[i] + Credit(i)'
    <2> SUFFICES ASSUME NEW i \in Identities PROVE upserts'[i] <= excused'[i] + Credit(i)'
      OBVIOUS
    <2>1. upserts \in [Identities -> Nat] /\ upserts[i] \in Nat
            /\ upserts[i] <= excused[i] + Credit(i) /\ excused[i] \in Nat
      BY DEF Shown
    <2>2. CASE i = k
      <3>1. upserts'[i] = upserts[i] + 1
        BY <1>1, <2>1, <2>2
      <3>2. Credit(i) = 0 /\ Credit(i)' = 1
        BY <1>7, <2>2
      <3> QED BY <1>1, <2>1, <3>1, <3>2
    <2>3. CASE i # k
      <3>1. upserts'[i] = upserts[i]
        BY <1>1, <2>1, <2>3
      <3> QED BY <1>1, <1>7, <2>1, <2>3, <3>1
    <2> QED BY <2>2, <2>3
  <1>9. upserts' \in [Identities -> Nat]
    <2>1. upserts \in [Identities -> Nat] /\ upserts[k] + 1 \in Nat
      BY <1>4 DEF Shown
    <2> QED BY <1>1, <2>1
  <1>10. \A e \in Deliveries : pc'[e] = "process" => Key(e)' \notin processed'
    BY <1>1, <1>2, <1>3 DEF Shown
  <1> QED BY <1>1, <1>3, <1>8, <1>9, <1>10 DEF Shown

\* The end of a dispatch, marked or not.
LEMMA ShownEnds ==
  ASSUME Inv, Lines, Shown, NEW d \in Deliveries, pc[d] = "process", pc'[d] # "process",
         \A e \in Deliveries \ {d} : pc'[e] = pc[e], stanza' = stanza, kind' = kind,
         upserts' = upserts, failures' \in 0..MaxFailures,
         processed' \in {processed, processed \cup {Key(d)}},
         \/ processed' = processed \cup {Key(d)} /\ excused' = excused
         \/ Excuse(Key(d))
  PROVE  Shown'
  <1> SUFFICES ASSUME NEW CONSTANT k, k = Key(d) PROVE Shown'
    OBVIOUS
  <1>1. Typed /\ k \in Identities
    BY KeyTyped DEF Inv
  <1>2. Deliveries' = Deliveries /\ \A e : Key(e)' = Key(e)
    BY DEF Deliveries, Key, Chat, Msg, Body
  <1>3. \A e \in Deliveries \ {d} : pc[e] = "process" => Key(e) # k
    <2> SUFFICES ASSUME NEW e \in Deliveries \ {d}, pc[e] = "process", Key(e) = k PROVE FALSE
      OBVIOUS
    <2>1. Chat(e) = Chat(d) /\ Inside(e) /\ Inside(d)
      BY <1>1, KeyTyped DEF Inside
    <2> QED BY <1>1, <2>1, OneInside DEF Lines
  <1>4. \A i : i # k /\ Processing(i) => Processing(i)'
    BY <1>2 DEF Processing
  <1>5. \A i \in Identities \ {k} : i \in processed' <=> i \in processed
    OBVIOUS
  <1>6. processed' \subseteq Identities
    BY <1>1 DEF Shown
  <1>7. \A e \in Deliveries : pc'[e] = "process" =>
          pc[e] = "process" /\ kind'[e] = kind[e] /\ Key(e) # k
    BY <1>3
  <1>8. \/ excused' = excused /\ k \in processed'
        \/ Excuse(k)
    OBVIOUS
  <1> QED BY <1>1, <1>4, <1>5, <1>6, <1>7, <1>8, ShownPaid

LEMMA ShownProcess == ASSUME Inv, Lines, Shown, NEW d \in Deliveries, Process(d) PROVE Shown'
  <1>1. /\ pc[d] = "process" /\ stanza' = stanza /\ kind' = kind /\ upserts' = upserts
        /\ failures' = failures /\ Typed
        /\ \/ processed' = processed \cup {Key(d)} /\ excused' = excused
           \/ processed' = processed /\ Excuse(Key(d))
    BY DEF Process, fixed, Inv
  <1>2. pc'[d] # "process" /\ \A e \in Deliveries \ {d} : pc'[e] = pc[e]
    <2>1. PICK l \in {"retry", "done"} : Goto(d, l)
      BY DEF Process, AfterChat
    <2> QED BY <1>1, <2>1, Went
  <1>3. failures' \in 0..MaxFailures
    BY <1>1 DEF Shown
  <1> QED BY <1>1, <1>2, <1>3, ShownEnds

LEMMA ShownThrows == ASSUME Inv, Lines, Shown, NEW d \in Deliveries, Throws(d) PROVE Shown'
  <1>1. /\ stanza' = stanza /\ kind' = kind /\ upserts' = upserts /\ Typed
        /\ failures' \in 0..MaxFailures
    BY OneMoreFailure DEF Throws, fixed, Inv
  <1>2. pc'[d] = "done" /\ \A e \in Deliveries \ {d} : pc'[e] = pc[e]
    BY <1>1, CaughtPc DEF Throws
  <1>3. CASE pc[d] = "process"
    <2>1. Excuse(Key(d)) /\ processed' \in {processed, processed \cup {Key(d)}}
      BY <1>3 DEF Throws, InChat
    <2> QED BY <1>1, <1>2, <1>3, <2>1, ShownEnds
  <1>4. CASE pc[d] # "process"
    <2>1. UNCHANGED <<processed, excused>>
      BY <1>4 DEF Throws
    <2> QED BY <1>1, <1>2, <1>4, <2>1, ShownKept
  <1> QED BY <1>3, <1>4

LEMMA ShownExpires == ASSUME Shown, NEW k \in Identities, MarkExpires(k) PROVE Shown'
  <1>1. /\ k \in processed /\ processed' = processed \ {k} /\ Excuse(k) /\ upserts' = upserts
        /\ stanza' = stanza /\ pc' = pc /\ kind' = kind /\ failures' \in 0..MaxFailures
    BY OneMoreFailure DEF MarkExpires, fixed, handler
  <1>2. Deliveries' = Deliveries /\ \A e : Key(e)' = Key(e)
    BY <1>1 DEF Deliveries, Key, Chat, Msg, Body
  <1>3. \A i : Processing(i)' <=> Processing(i)
    BY <1>1, <1>2 DEF Processing
  <1>4. \A e \in Deliveries : pc[e] = "process" => Key(e) # k
    BY <1>1 DEF Shown
  <1>5. processed' \subseteq Identities
    BY <1>1 DEF Shown
  <1> QED BY <1>1, <1>3, <1>4, <1>5, ShownPaid

LEMMA ShownHandle == ASSUME Inv, Lines, Shown, NEW d \in Deliveries, Handle(d) PROVE Shown'
  <1>1. Moved(d) /\ stanza' = stanza /\ \A e \in Deliveries \ {d} : pc'[e] = pc[e]
          /\ kind'[e] = kind[e]
    BY HandleMoved DEF Moved, Rest
  <1>2. Typed
    BY DEF Inv
  <1>3. CASE Mapped(d)
    <2>1. pc[d] = "lid" /\ UNCHANGED done /\ pc'[d] # "process"
      <3>1. CASE JoinChat(d)
        BY <1>2, <1>3, <3>1, Went DEF Mapped, JoinChat, Goto
      <3>2. CASE Catch(d)
        BY <1>2, <1>3, <3>2, CaughtPc DEF Mapped
      <3> QED BY <1>3, <3>1, <3>2 DEF Mapped
    <2>2. failures' \in 0..MaxFailures
      <3>1. CASE failures' = failures
        BY <3>1 DEF Shown
      <3>2. CASE failures < MaxFailures /\ failures' = failures + 1
        BY <3>2, OneMoreFailure
      <3> QED BY <1>3, <3>1, <3>2 DEF Mapped
    <2> QED BY <1>1, <2>1, <2>2, ShownKept DEF done
  <1>4. CASE Decrypt(d)
    <2>1. pc[d] = "chat" /\ UNCHANGED <<done, failures>>
      BY <1>4 DEF Decrypt, InChat
    <2>2. PICK l \in {"upsert", "answer"} : Goto(d, l)
      BY <1>4 DEF Decrypt
    <2>3. pc'[d] # "process"
      BY <1>2, <2>2, Went
    <2> QED BY <1>1, <2>1, <2>3, ShownKept DEF Shown, done
  <1>5. CASE Answer(d)
    <2>1. pc[d] = "answer" /\ UNCHANGED <<done, failures>>
      BY <1>5 DEF Answer
    <2>2. PICK l \in {"histSync", "upsert", "done"} : Goto(d, l)
      BY <1>5 DEF Answer
    <2>3. pc'[d] # "process"
      BY <1>2, <2>2, Went
    <2> QED BY <1>1, <2>1, <2>3, ShownKept DEF Shown, done
  <1>6. CASE SkipUpsert(d)
    <2>1. pc[d] = "upsert" /\ UNCHANGED <<done, failures>>
      BY <1>6 DEF SkipUpsert
    <2>2. PICK l \in {"retry", "done"} : Goto(d, l)
      BY <1>6 DEF SkipUpsert, AfterChat
    <2>3. pc'[d] # "process"
      BY <1>2, <2>2, Went
    <2> QED BY <1>1, <2>1, <2>3, ShownKept DEF Shown, done
  <1>7. CASE HistReceipt(d)
    <2>1. pc[d] = "histSync" /\ UNCHANGED <<processed, upserts, excused, failures>>
      BY <1>7 DEF HistReceipt
    <2>2. PICK l \in {"upsert", "done"} : Goto(d, l)
      BY <1>7 DEF HistReceipt
    <2>3. pc'[d] # "process"
      BY <1>2, <2>2, Went
    <2> QED BY <1>1, <2>1, <2>3, ShownKept DEF Shown
  <1> QED BY <1>3, <1>4, <1>5, <1>6, <1>7, ShownUpsert, ShownProcess, ShownThrows DEF Handle

LEMMA ShownRetry == ASSUME Inv, Lines, Shown, NEW d \in Deliveries, Retry(d) PROVE Shown'
  <1>1. Moved(d) /\ stanza' = stanza /\ \A e \in Deliveries \ {d} : pc'[e] = pc[e]
          /\ kind'[e] = kind[e]
    BY RetryMoved DEF Moved, Rest
  <1>2. pc[d] \in Owed /\ UNCHANGED <<done, failures>>
    BY DEF Retry, RetrySkipped, Charge, ChargeUpTo, BudgetSpent, AskPhone, PhoneAsked, SendRetry,
        Nack,
           RetryTurn, Owed
  <1>3. pc'[d] \in Owed \cup {"done"}
    <2>1. PICK l \in Owed \cup {"done"} : Goto(d, l)
      BY DEF Retry, RetrySkipped, Charge, ChargeUpTo, BudgetSpent, AskPhone, PhoneAsked,
          SendRetry, Nack, Owed
    <2> QED BY <2>1, Went DEF Inv
  <1>4. pc[d] # "process" /\ pc'[d] # "process"
    BY <1>2, <1>3 DEF Owed
  <1> QED BY <1>1, <1>2, <1>4, ShownKept DEF Shown, done

\* A stanza that arrives, or comes out of the backlog, begins or is put aside.
LEMMA ArrivalPlaces ==
  ASSUME Inv, Stanzas \/ Backlog
  PROVE  /\ UNCHANGED <<fixed, done, failures, budget, phoneTimer, phone, conn>>
         /\ \A e \in Deliveries :
              \/ pc'[e] = pc[e] /\ kind'[e] = kind[e]
              \/ /\ pc[e] \in {"away", "queued"}
                 /\ pc'[e] \in {"queued", "answer", "lid", "chat", "done", "dropped"}
  <1>1. UNCHANGED <<fixed, done, failures, budget, phoneTimer, phone, conn>>
    BY DEF Stanzas, Ignore, Receive, EnqueueFull, EnqueueWaits, EnqueueStarts, Arrives, Backlog,
        NextQueued,
           BacklogEnds, DropQueued
  <1>2. CASE Stanzas
    <2>1. Arrives /\ Next1 \in Deliveries /\ pc[Next1] = "away" /\ Typed
      BY <1>2, Arriving DEF Stanzas, Ignore, Receive, EnqueueFull, EnqueueWaits, EnqueueStarts, Inv
    <2>2. CASE Ignore \/ EnqueueFull \/ EnqueueWaits
      <3>1. PICK l \in {"done", "dropped", "queued"} : Goto(Next1, l) /\ kind' = kind
        BY <2>2 DEF Ignore, EnqueueFull, EnqueueWaits
      <3>2. pc'[Next1] = l /\ \A e \in Deliveries \ {Next1} : pc'[e] = pc[e]
        BY <2>1, <3>1, Went
      <3> QED BY <1>1, <2>1, <3>1, <3>2
    <2>3. CASE Receive \/ EnqueueStarts
      <3>1. PICK k : Begin(Next1, k)
        BY <2>3 DEF Receive, EnqueueStarts
      <3>2. Moved(Next1) /\ pc'[Next1] \in {"answer", "lid", "chat"}
        BY <2>1, <3>1, BeginMoved DEF Arrives
      <3> QED BY <1>1, <2>1, <3>2 DEF Moved, Rest
    <2> QED BY <1>2, <2>2, <2>3 DEF Stanzas
  <1>3. CASE NextQueued
    <2> DEFINE d == Head(backlog)
    <2>1. /\ backlog \in Seq(Deliveries) /\ Len(backlog) \in Nat \ {0} /\ d = backlog[1] /\ Typed
          /\ \A i \in 1..Len(backlog) : pc[backlog[i]] = "queued"
      BY <1>3 DEF NextQueued, Inv, Backlogged
    <2>2. d \in Deliveries /\ pc[d] = "queued"
      BY <2>1
    <2>3. PICK k : Begin(d, k) /\ fixed' = fixed
      BY <1>3 DEF NextQueued
    <2> HIDE DEF d
    <2>4. Moved(d) /\ pc'[d] \in {"answer", "lid", "chat"}
      BY <2>1, <2>2, <2>3, BeginMoved
    <2> QED BY <1>1, <2>2, <2>4 DEF Moved, Rest
  <1>4. CASE BacklogEnds
    <2>1. kind' = kind /\ pc' = [d \in Deliveries |-> IF d \in ToSet(backlog) THEN "dropped" ELSE pc[d]]
      BY <1>4 DEF BacklogEnds, DropQueued
    <2>2. \A d \in Deliveries : d \in ToSet(backlog) => pc[d] = "queued"
      <3>1. backlog \in Seq(Deliveries) /\ \A i \in 1..Len(backlog) : pc[backlog[i]] = "queued"
        BY DEF Inv, Backlogged
      <3>2. DOMAIN backlog = 1..Len(backlog)
        BY <3>1
      <3> QED BY <3>1, <3>2 DEF ToSet
    <2> QED BY <1>1, <2>1, <2>2
  <1> QED BY <1>2, <1>3, <1>4 DEF Backlog

LEMMA ShownArrives == ASSUME Inv, Shown, Stanzas \/ Backlog PROVE Shown'
  <1>1. /\ stanza' = stanza /\ UNCHANGED <<processed, upserts, excused>>
        /\ failures' \in 0..MaxFailures
    BY ArrivalPlaces DEF fixed, done, Shown
  <1>2. \A e \in Deliveries : /\ pc'[e] = "process" <=> pc[e] = "process"
                              /\ pc[e] = "process" => kind'[e] = kind[e]
    BY ArrivalPlaces
  <1> QED BY <1>1, <1>2, ShownKept

LEMMA InitShown == Init => Shown
  <1> SUFFICES ASSUME Init PROVE Shown
    OBVIOUS
  <1>1. \A i : Credit(i) \in {0, 1}
    BY DEF Credit
  <1> QED BY <1>1, InboundMessagesAssumption DEF Init, Shown

LEMMA NextShown == Inv /\ Lines /\ Shown /\ [Next]_vars => Shown'
  <1> SUFFICES ASSUME Inv, Lines, Shown, [Next]_vars PROVE Shown'
    OBVIOUS
  <1>1. CASE \/ \E d \in Deliveries : Resend(d)
             \/ \E m \in Msgs : PhoneAnswers(m) \/ PhoneTimer(m)
             \/ Close \/ EndHandlers \/ UNCHANGED vars
    <2>1. stanza' = stanza /\ pc' = pc /\ kind' = kind
      BY <1>1, OtherKept DEF fixed, handler
    <2>2. UNCHANGED <<done, failures>>
      BY <1>1 DEF Resend, ResendMiss, AlreadyRequested, ResendStore, Resolved, ResendAsk,
          ResendExpires, PhoneAnswers, PhoneTimer, Close, EndHandlers, handling, vars
    <2> QED BY <2>1, <2>2, ShownKept DEF Shown, done
  <1> QED BY <1>1, ShownArrives, ShownHandle, ShownRetry, ShownExpires DEF Next

(***************************************************************************)
(* Each time a message is shown again is paid for by a dispatch that threw  *)
(* or was deferred, or by a mark that expired: processMessage (lib/Utils/   *)
(* process-message.js) marks a message last, after awaits, and only the     *)
(* lock of its chat (lib/Socket/messages-recv.js) keeps a second copy from  *)
(* being looked up meanwhile.                                               *)
(***************************************************************************)
THEOREM InboundMessagesUpsertOnce == Spec => []UpsertOnce
<1>1. Shown => UpsertOnce
  <2> SUFFICES ASSUME Shown, NEW i \in Identities PROVE upserts[i] <= 1 + excused[i]
    BY DEF UpsertOnce
  <2>1. upserts[i] \in Nat /\ upserts[i] <= excused[i] + Credit(i) /\ excused[i] \in Nat
    BY DEF Shown
  <2>2. Credit(i) \in {0, 1}
    BY DEF Credit
  <2> QED BY <2>1, <2>2
<1>2. Passage /\ Shown /\ [Next]_vars => Passage' /\ Shown'
  BY NextPassage, NextShown DEF Passage
<1>3. QED BY <1>1, <1>2, InitPassage, InitShown, PTL DEF Spec

-----------------------------------------------------------------------------
(* The second receipt of a history message                                 *)

Past == {"upsert", "process", "done"} \cup Owed

\* It is sent at most once, by one that was answered and does not come back.
Hist ==
  /\ histReceipts \in [Deliveries -> {0, 1}]
  /\ \A d \in Deliveries : histReceipts[d] = 1 => answers[d] = 1 /\ pc[d] \in Past

LEMMA HistKept ==
  ASSUME Inv, Inv', Hist, stanza' = stanza, histReceipts' = histReceipts,
         \A e \in Deliveries : answers'[e] >= answers[e],
         \A e \in Deliveries : pc[e] \in Past => pc'[e] \in Past
  PROVE  Hist'
  <1>1. Deliveries' = Deliveries
    BY DEF Deliveries
  <1>2. \A e \in Deliveries : histReceipts'[e] = 1 => answers'[e] = 1
    <2>1. \A e \in Deliveries : answers'[e] \in Nat /\ answers'[e] <= 1
      BY <1>1 DEF Inv, Typed, Once, OnceAt
    <2> QED BY <2>1 DEF Hist
  <1> QED BY <1>1, <1>2 DEF Hist

\* No answer is taken back.
LEMMA SendGrows == ASSUME Typed, NEW d \in Deliveries, Send(d) \/ answers' = answers
  PROVE  \A e \in Deliveries : answers'[e] >= answers[e]
  <1>1. \A e \in Deliveries : answers[e] \in Nat
    BY DEF Typed
  <1> QED BY <1>1, SendCounts

LEMMA HistHandle == ASSUME Inv, Inv', Lines, Hist, NEW d \in Deliveries, Handle(d) PROVE Hist'
  <1>1. stanza' = stanza /\ Typed /\ \A e \in Deliveries \ {d} : pc'[e] = pc[e]
    BY HandleMoved DEF Moved, Rest, Inv
  <1>2. Send(d) \/ answers' = answers
    BY DEF Handle, Mapped, Decrypt, Answer, HistReceipt, SkipUpsert, Upsert, Process, AfterChat,
           Throws, Catch
  <1>3. \A e \in Deliveries : answers'[e] >= answers[e]
    BY <1>1, <1>2, SendGrows
  <1>4. pc[d] \in Past => pc'[d] \in Past
    <2>1. CASE SkipUpsert(d) \/ Upsert(d) \/ Process(d)
      <3>1. PICK l \in {"retry", "done", "process"} : Goto(d, l)
        BY <2>1 DEF SkipUpsert, Upsert, Process, AfterChat
      <3> QED BY <1>1, <3>1, Went DEF Past, Owed
    <2>2. CASE Throws(d)
      BY <1>1, <2>2, CaughtPc DEF Throws, Past
    <2>3. CASE Mapped(d) \/ Decrypt(d) \/ Answer(d) \/ HistReceipt(d)
      BY <2>3 DEF Mapped, Decrypt, InChat, Answer, HistReceipt, Past, Owed
    <2> QED BY <2>1, <2>2, <2>3 DEF Handle
  <1>5. CASE ~HistReceipt(d)
    <2>1. histReceipts' = histReceipts
      BY <1>5 DEF Handle, Mapped, Decrypt, Answer, SkipUpsert, Upsert, Process, Throws, done
    <2> QED BY <1>1, <1>3, <1>4, <2>1, HistKept
  <1>6. CASE HistReceipt(d)
    <2>1. pc[d] = "histSync" /\ answers' = answers /\ Deliveries' = Deliveries
      BY <1>1, <1>6 DEF HistReceipt, Deliveries
    <2>2. answers[d] = 1 /\ histReceipts[d] = 0
      BY <2>1 DEF Inv, Once, OnceAt, Hist, Past, Owed
    <2>3. CASE histReceipts' = histReceipts
      BY <1>1, <1>3, <1>4, <2>3, HistKept
    <2>4. CASE histReceipts' = [histReceipts EXCEPT ![d] = @ + 1] /\ Goto(d, "upsert")
      <3>1. histReceipts' = [histReceipts EXCEPT ![d] = 1]
        BY <2>2, <2>4 DEF Hist
      <3>2. pc'[d] = "upsert"
        BY <1>1, <2>4, Went
      <3> QED BY <1>1, <2>1, <2>2, <3>1, <3>2 DEF Hist, Past
    <2> QED BY <1>6, <2>3, <2>4 DEF HistReceipt
  <1> QED BY <1>5, <1>6

LEMMA HistRetry == ASSUME Inv, Inv', Lines, Hist, NEW d \in Deliveries, Retry(d) PROVE Hist'
  <1>1. stanza' = stanza /\ Typed /\ \A e \in Deliveries \ {d} : pc'[e] = pc[e]
    BY RetryMoved DEF Moved, Rest, Inv
  <1>2. (Send(d) \/ answers' = answers) /\ histReceipts' = histReceipts
    BY DEF Retry, RetrySkipped, Charge, ChargeUpTo, BudgetSpent, AskPhone, PhoneAsked, SendRetry,
           Nack, done
  <1>3. pc'[d] \in Past
    <2>1. PICK l \in Owed \cup {"done"} : Goto(d, l)
      BY DEF Retry, RetrySkipped, Charge, ChargeUpTo, BudgetSpent, AskPhone, PhoneAsked, SendRetry,
             Nack, Owed
    <2> QED BY <1>1, <2>1, Went DEF Past
  <1> QED BY <1>1, <1>2, <1>3, SendGrows, HistKept

LEMMA HistArrives == ASSUME Inv, Inv', Hist, Stanzas \/ Backlog PROVE Hist'
  <1>1. stanza' = stanza /\ histReceipts' = histReceipts /\ Typed
    BY ArrivalPlaces DEF fixed, done, Inv
  <1>2. \A e \in Deliveries : pc[e] \in Past => pc'[e] \in Past
    BY ArrivalPlaces DEF Past, Owed
  <1>3. \A e \in Deliveries : answers'[e] >= answers[e]
    <2>1. CASE Ignore
      <3>1. Next1 \in Deliveries /\ Send(Next1)
        BY <2>1 DEF Ignore, Arrives
      <3> QED BY <1>1, <3>1, SendGrows
    <2>2. CASE ~Ignore
      <3>1. answers' = answers
        BY <2>2 DEF Stanzas, Receive, EnqueueFull, EnqueueWaits, EnqueueStarts, Begin, Backlog,
                    NextQueued, BacklogEnds, DropQueued
      <3> QED BY <1>1, <3>1 DEF Typed
    <2> QED BY <2>1, <2>2
  <1> QED BY <1>1, <1>2, <1>3, HistKept

LEMMA NextHist == Inv /\ Inv' /\ Lines /\ Hist /\ [Next]_vars => Hist'
  <1> SUFFICES ASSUME Inv, Inv', Lines, Hist, [Next]_vars PROVE Hist'
    OBVIOUS
  <1>1. CASE \/ \E d \in Deliveries : Resend(d)
             \/ \E m \in Msgs : PhoneAnswers(m) \/ PhoneTimer(m)
             \/ \E i \in Identities : MarkExpires(i)
             \/ Close \/ EndHandlers \/ UNCHANGED vars
    <2>1. stanza' = stanza /\ pc' = pc /\ answers' = answers
      BY <1>1, OtherKept DEF fixed, handler
    <2>2. histReceipts' = histReceipts
      BY <1>1 DEF Resend, ResendMiss, AlreadyRequested, ResendStore, Resolved, ResendAsk,
          ResendExpires, PhoneAnswers, PhoneTimer, MarkExpires, Close, EndHandlers, handling, vars,
          done
    <2>3. \A e \in Deliveries : answers'[e] >= answers[e]
      BY <2>1 DEF Inv, Typed
    <2> QED BY <2>1, <2>2, <2>3, HistKept
  <1> QED BY <1>1, HistArrives, HistHandle, HistRetry DEF Next

LEMMA InitHist == Init => Hist
  BY DEF Init, Hist

(***************************************************************************)
(* No stanza is answered twice, whatever else arrives, throws, times out    *)
(* or closes meanwhile: the acked flag of handleMessage (lib/Socket/         *)
(* messages-recv.js) covers every branch, its catch block and the retry.    *)
(* The one receipt more of a history message follows its answer, once.      *)
(***************************************************************************)
THEOREM InboundMessagesOneAnswer == Spec => []OneAnswer
<1>1. Inv /\ Hist => OneAnswer
  <2> SUFFICES ASSUME Inv, Hist, NEW d \in Deliveries
               PROVE  answers[d] <= 1 /\ histReceipts[d] <= answers[d]
    BY DEF OneAnswer
  <2>1. answers[d] \in Nat /\ answers[d] <= 1
    BY DEF Inv, Typed, Once, OnceAt
  <2>2. histReceipts[d] \in {0, 1} /\ (histReceipts[d] = 1 => answers[d] = 1)
    BY DEF Hist
  <2> QED BY <2>1, <2>2
<1>2. Passage /\ Hist /\ [Next]_vars => Passage' /\ Hist'
  BY NextPassage, NextHist DEF Passage
<1>3. Passage => Inv
  BY DEF Passage
<1>4. QED BY <1>1, <1>2, <1>3, InitPassage, InitHist, PTL DEF Spec

-----------------------------------------------------------------------------
(* Retry receipts count up                                                 *)

ChargesTyped ==
  /\ retryCounters \in [Msgs -> 0..MaxRetry] /\ msgRetryCache \in [Msgs -> 0..MaxRetry]
  /\ count \in [Deliveries -> 0..MaxRetry] /\ sentCounts \in [Msgs -> Seq(0..MaxRetry)]
  /\ phoneTimer \in [Msgs -> Deliveries \cup {0}] /\ keeper \in Keepers
  /\ open \in BOOLEAN /\ ended \in BOOLEAN

Below(m, n) == \A i \in DOMAIN sentCounts[m] : sentCounts[m][i] < n
Rising(m) == \A i, j \in DOMAIN sentCounts[m] : i < j => sentCounts[m][i] < sentCounts[m][j]

\* The charge a retry made is the budget of its message, and no receipt had it yet.
Fresher(d) ==
  /\ pc[d] = "charged" => msgRetryCache[Msg(d)] = Spent(Msg(d)) /\ Below(Msg(d), Spent(Msg(d)))
  /\ pc[d] \in {"asking", "receipt"} => count[d] <= Spent(Msg(d)) /\ Below(Msg(d), count[d])

\* A closed socket may have cleared its counters, but it sends nothing.
Charges ==
  /\ ChargesTyped /\ (open => ~ended)
  /\ \A d \in Deliveries : pc[d] = "charged" => msgRetryCache[Msg(d)] > 0
  /\ \A m \in Msgs : Rising(m)
  /\ open => /\ \A m \in Msgs : Below(m, Spent(m) + 1)
             /\ \A d \in Deliveries : Fresher(d)

\* One retry at a time is past the lock of the retries.
LEMMA OneRetries ==
  ASSUME RetryLine, NEW d \in Deliveries, Holds(d, retryQueue), NEW e \in Deliveries,
         pc[e] \in Owed \ {"retry"}
  PROVE  e = d
  BY RetryingHolds DEF Holds

\* Steps that charge nothing and send no receipt.
LEMMA ChargesKept ==
  ASSUME Charges, UNCHANGED <<fixed, budget, conn>>, phoneTimer' \in [Msgs -> Deliveries \cup {0}],
         \A e \in Deliveries : /\ pc'[e] = "charged" => pc[e] = "charged"
                               /\ pc'[e] \in {"asking", "receipt"}
                                    => pc[e] \in {"asking", "receipt"}
  PROVE  Charges'
  <1>1. /\ stanza' = stanza /\ keeper' = keeper /\ retryCounters' = retryCounters
        /\ msgRetryCache' = msgRetryCache /\ count' = count /\ sentCounts' = sentCounts
        /\ open' = open /\ ended' = ended
    BY DEF fixed, budget, charges, conn
  <1>2. /\ Deliveries' = Deliveries /\ \A d : Msg(d)' = Msg(d) /\ \A m : Spent(m)' = Spent(m)
        /\ \A m, n : Below(m, n) => Below(m, n)'
        /\ \A m : Rising(m)' = Rising(m)
    BY <1>1 DEF Deliveries, Msg, Spent, Below, Rising
  <1>3. ChargesTyped'
    BY <1>1, <1>2 DEF Charges, ChargesTyped
  <1>4. open => \A d \in Deliveries : Fresher(d)'
    BY <1>1, <1>2 DEF Charges, Fresher, Below
  <1>5. open => \A m \in Msgs : Below(m, Spent(m) + 1)'
    BY <1>1, <1>2 DEF Charges, Below
  <1> QED BY <1>1, <1>2, <1>3, <1>4, <1>5 DEF Charges

\* The end of a retry's turn in the socket.
LEMMA ChargesEnd == ASSUME Charges, Close \/ EndHandlers PROVE Charges'
  <1>1. /\ stanza' = stanza /\ keeper' = keeper /\ pc' = pc /\ ~open'
        /\ msgRetryCache' = msgRetryCache /\ count' = count /\ sentCounts' = sentCounts
    BY DEF Close, EndHandlers, handling, fixed, handler, budget, charges, conn
  <1>2. Deliveries' = Deliveries /\ (\A d : Msg(d)' = Msg(d)) /\ (\A m : Rising(m)' = Rising(m))
    BY <1>1 DEF Deliveries, Msg, Rising
  <1>3. ChargesTyped'
    <2>1. retryCounters' \in [Msgs -> 0..MaxRetry] /\ phoneTimer' \in [Msgs -> Deliveries \cup {0}]
      BY InboundMessagesAssumption DEF Close, EndHandlers, handling, budget, charges, Charges,
          ChargesTyped
    <2>2. open' \in BOOLEAN /\ ended' \in BOOLEAN
      BY DEF Close, EndHandlers, Charges, ChargesTyped
    <2> QED BY <1>1, <1>2, <2>1, <2>2 DEF Charges, ChargesTyped
  <1> QED BY <1>1, <1>2, <1>3 DEF Charges

LEMMA ChargesCharge == ASSUME Inv, RetryLine, Charges, NEW d \in Deliveries, Charge(d)
  PROVE  Charges'
  <1> SUFFICES ASSUME NEW CONSTANT m, m = Msg(d), NEW CONSTANT s, s = Spent(m) PROVE Charges'
    OBVIOUS
  <1>1. /\ stanza' = stanza /\ keeper' = keeper /\ count' = count /\ sentCounts' = sentCounts
        /\ open' = open /\ ended' = ended /\ open /\ phoneTimer' = phoneTimer /\ s < MaxRetry
             /\ Holds(d, retryQueue)
        /\ msgRetryCache' = [msgRetryCache EXCEPT ![m] = s + 1]
        /\ \/ keeper = "manager" /\ retryCounters' = [retryCounters EXCEPT ![m] = @ + 1]
           \/ keeper # "manager" /\ retryCounters' = retryCounters
    BY DEF Charge, ChargeUpTo, RetryTurn, fixed, conn
  <1>2. pc'[d] = "charged" /\ \A e \in Deliveries \ {d} : pc'[e] = pc[e]
          /\ pc[e] \notin Owed \ {"retry"}
    BY <1>1, Went, OneRetries DEF Charge, ChargeUpTo, Inv
  <1>3. m \in Msgs /\ MaxRetry \in Nat /\ s \in 0..MaxRetry /\ s + 1 \in 0..MaxRetry
    <2>1. m \in Msgs
      BY StanzaTyped DEF Inv
    <2>2. s \in 0..MaxRetry
      BY <2>1 DEF Spent, Charges, ChargesTyped
    <2> QED BY <1>1, <2>1, <2>2, InboundMessagesAssumption
  <1>4. Deliveries' = Deliveries /\ \A e : Msg(e)' = Msg(e)
    BY <1>1 DEF Deliveries, Msg
  <1>5. /\ msgRetryCache' \in [Msgs -> 0..MaxRetry] /\ msgRetryCache'[m] = s + 1
        /\ \A x \in Msgs \ {m} : msgRetryCache'[x] = msgRetryCache[x]
    BY <1>1, <1>3 DEF Charges, ChargesTyped
  <1>6. /\ retryCounters' \in [Msgs -> 0..MaxRetry]
        /\ keeper = "manager" => retryCounters'[m] = s + 1
        /\ \A x \in Msgs \ {m} : retryCounters'[x] = retryCounters[x]
    <2>1. CASE keeper = "manager"
      <3>1. retryCounters[m] = s
        BY <2>1 DEF Spent
      <3>2. retryCounters' = [retryCounters EXCEPT ![m] = s + 1]
        BY <1>1, <2>1, <3>1
      <3> QED BY <1>3, <3>2 DEF Charges, ChargesTyped
    <2>2. CASE keeper # "manager"
      BY <1>1, <2>2 DEF Charges, ChargesTyped
    <2> QED BY <2>1, <2>2
  <1>7. \A x \in Msgs : Spent(x)' = IF x = m THEN s + 1 ELSE Spent(x)
    BY <1>1, <1>5, <1>6 DEF Spent
  <1>8. \A x : /\ Rising(x)' = Rising(x)
               /\ \A n : Below(x, n)' <=> \A i \in DOMAIN sentCounts[x] : sentCounts[x][i] < n'
    BY <1>1 DEF Rising, Below
  <1>9. \A x \in Msgs : \A i \in DOMAIN sentCounts[x] : sentCounts[x][i] \in Nat
    BY <1>3 DEF Charges, ChargesTyped
  <1>10. ChargesTyped'
    BY <1>1, <1>4, <1>5, <1>6 DEF Charges, ChargesTyped
  <1>11. \A x \in Msgs : Below(x, Spent(x) + 1)'
    <2> SUFFICES ASSUME NEW x \in Msgs, NEW i \in DOMAIN sentCounts[x]
                 PROVE  sentCounts[x][i] < Spent(x)' + 1
      BY <1>1 DEF Below
    <2>1. sentCounts[x][i] < Spent(x) + 1 /\ sentCounts[x][i] \in Nat
      BY <1>1, <1>9 DEF Charges, Below
    <2>2. Spent(x) \in Nat
      BY <1>3 DEF Spent, Charges, ChargesTyped
    <2> QED BY <1>3, <1>7, <2>1, <2>2
  <1>12. \A e \in Deliveries : Fresher(e)'
    <2>1. Fresher(d)'
      <3>1. msgRetryCache'[Msg(d)'] = Spent(m)' /\ Spent(m)' = s + 1 /\ Msg(d)' = m
        BY <1>3, <1>4, <1>5, <1>7
      <3>2. \A i \in DOMAIN sentCounts'[m] : sentCounts'[m][i] < s + 1
        BY <1>1, <1>3, <1>9 DEF Charges, Below
      <3> QED BY <1>2, <3>1, <3>2 DEF Fresher, Below
    <2>2. \A e \in Deliveries \ {d} : Fresher(e)'
      BY <1>2 DEF Fresher, Owed
    <2> QED BY <2>1, <2>2
  <1>13. \A e \in Deliveries : pc'[e] = "charged" => msgRetryCache'[Msg(e)'] > 0
    BY <1>2, <1>3, <1>4, <1>5 DEF Owed
  <1> QED BY <1>1, <1>4, <1>8, <1>10, <1>11, <1>12, <1>13 DEF Charges

LEMMA ChargesSpent == ASSUME Inv, RetryLine, Charges, NEW d \in Deliveries, BudgetSpent(d)
  PROVE  Charges'
  <1> SUFFICES ASSUME NEW CONSTANT m, m = Msg(d) PROVE Charges'
    OBVIOUS
  <1>1. /\ stanza' = stanza /\ keeper' = keeper /\ count' = count /\ open' = open
             /\ ended' = ended /\ open
        /\ Holds(d, retryQueue)
    BY DEF BudgetSpent, RetryTurn, fixed, conn
  <1>2. pc'[d] = "nack" /\ \A e \in Deliveries \ {d} : pc'[e] = pc[e]
          /\ pc[e] \notin Owed \ {"retry"}
    BY <1>1, Went, OneRetries DEF BudgetSpent, Inv
  <1>3. m \in Msgs /\ MaxRetry \in Nat
    BY StanzaTyped, InboundMessagesAssumption DEF Inv
  <1>4. Deliveries' = Deliveries /\ \A e : Msg(e)' = Msg(e)
    BY <1>1 DEF Deliveries, Msg
  <1>5. \A e \in Deliveries : pc'[e] \notin {"charged", "asking", "receipt"}
    BY <1>2 DEF Owed
  <1>6. CASE keeper = "caller"
    <2>1. /\ sentCounts' = sentCounts /\ retryCounters' = retryCounters
               /\ msgRetryCache' = msgRetryCache
          /\ phoneTimer' = phoneTimer
      BY <1>6 DEF BudgetSpent, charges
    <2>2. UNCHANGED <<fixed, budget, conn>>
      BY <1>1, <2>1 DEF fixed, budget, charges, conn
    <2> QED BY <1>5, <2>1, <2>2, ChargesKept DEF Charges, ChargesTyped
  <1>7. CASE keeper # "caller"
    <2>1. /\ sentCounts' = [sentCounts EXCEPT ![m] = <<>>]
          /\ \/ /\ keeper = "manager" /\ retryCounters' = [retryCounters EXCEPT ![m] = 0]
                /\ phoneTimer' = [phoneTimer EXCEPT ![m] = 0] /\ msgRetryCache' = msgRetryCache
             \/ /\ keeper = "cache" /\ msgRetryCache' = [msgRetryCache EXCEPT ![m] = 0]
                /\ retryCounters' = retryCounters /\ phoneTimer' = phoneTimer
      BY <1>7 DEF BudgetSpent
    <2>2. /\ sentCounts' \in [Msgs -> Seq(0..MaxRetry)] /\ sentCounts'[m] = <<>>
          /\ \A x \in Msgs \ {m} : sentCounts'[x] = sentCounts[x]
      BY <1>3, <2>1 DEF Charges, ChargesTyped
    <2>3. /\ retryCounters' \in [Msgs -> 0..MaxRetry] /\ msgRetryCache' \in [Msgs -> 0..MaxRetry]
          /\ phoneTimer' \in [Msgs -> Deliveries \cup {0}]
          /\ \A x \in Msgs \ {m} : retryCounters'[x] = retryCounters[x]
               /\ msgRetryCache'[x] = msgRetryCache[x]
      <3>1. 0 \in 0..MaxRetry
        BY <1>3
      <3>2. /\ retryCounters \in [Msgs -> 0..MaxRetry] /\ msgRetryCache \in [Msgs -> 0..MaxRetry]
            /\ phoneTimer \in [Msgs -> Deliveries \cup {0}]
        BY DEF Charges, ChargesTyped
      <3>3. \/ retryCounters' = [retryCounters EXCEPT ![m] = 0] \/ retryCounters' = retryCounters
        BY <2>1
      <3>4. \/ msgRetryCache' = [msgRetryCache EXCEPT ![m] = 0] \/ msgRetryCache' = msgRetryCache
        BY <2>1
      <3>5. \/ phoneTimer' = [phoneTimer EXCEPT ![m] = 0] \/ phoneTimer' = phoneTimer
        BY <2>1
      <3>6. retryCounters' \in [Msgs -> 0..MaxRetry]
              /\ \A x \in Msgs \ {m} : retryCounters'[x] = retryCounters[x]
        BY <1>3, <3>1, <3>2, <3>3
      <3>7. msgRetryCache' \in [Msgs -> 0..MaxRetry]
              /\ \A x \in Msgs \ {m} : msgRetryCache'[x] = msgRetryCache[x]
        BY <1>3, <3>1, <3>2, <3>4
      <3>8. phoneTimer' \in [Msgs -> Deliveries \cup {0}]
        BY <1>3, <3>2, <3>5
      <3> QED BY <3>6, <3>7, <3>8
    <2>4. \A x \in Msgs \ {m} : Spent(x)' = Spent(x)
      BY <1>1, <2>3 DEF Spent
    <2>5. \A x \in Msgs : Rising(x)' /\ Below(x, Spent(x) + 1)'
      <3>1. Rising(m)' /\ Below(m, Spent(m) + 1)'
        BY <2>2 DEF Rising, Below
      <3>2. \A x \in Msgs \ {m} : Rising(x)' /\ Below(x, Spent(x) + 1)'
        BY <1>1, <2>2, <2>4 DEF Rising, Below, Charges
      <3> QED BY <3>1, <3>2
    <2>6. ChargesTyped'
      BY <1>1, <1>4, <2>2, <2>3 DEF Charges, ChargesTyped
    <2>7. \A e \in Deliveries : Fresher(e)'
      BY <1>5 DEF Fresher
    <2> QED BY <1>1, <1>4, <1>5, <2>5, <2>6, <2>7 DEF Charges
  <1> QED BY <1>6, <1>7

LEMMA ChargesAsk == ASSUME Inv, RetryLine, Charges, NEW d \in Deliveries, AskPhone(d) PROVE Charges'
  <1> SUFFICES ASSUME NEW CONSTANT m, m = Msg(d), NEW CONSTANT c, c = msgRetryCache[m]
               PROVE  Charges'
    OBVIOUS
  <1>1. /\ stanza' = stanza /\ keeper' = keeper /\ sentCounts' = sentCounts /\ open' = open
             /\ ended' = ended
        /\ retryCounters' = retryCounters /\ msgRetryCache' = msgRetryCache /\ pc[d] = "charged"
    BY DEF AskPhone, charges, fixed, conn
  <1>2. m \in Msgs /\ MaxRetry \in Nat /\ c \in 0..MaxRetry /\ c > 0
    <2>1. m \in Msgs
      BY StanzaTyped DEF Inv
    <2> QED BY <1>1, <2>1, InboundMessagesAssumption DEF Charges, ChargesTyped
  <1>3. count' = [count EXCEPT ![d] = c]
    <2>1. count' = [count EXCEPT ![d] = ReadBack(m)]
      BY DEF AskPhone
    <2>2. ReadBack(m) = c
      BY <1>2 DEF ReadBack
    <2> QED BY <2>1, <2>2
  <1>4. count' \in [Deliveries -> 0..MaxRetry] /\ count'[d] = c
          /\ \A e \in Deliveries \ {d} : count'[e] = count[e]
    BY <1>2, <1>3 DEF Charges, ChargesTyped
  <1>5. Deliveries' = Deliveries /\ \A e : Msg(e)' = Msg(e)
    BY <1>1 DEF Deliveries, Msg
  <1>6. phoneTimer' \in [Msgs -> Deliveries \cup {0}]
    <2>1. phoneTimer' = phoneTimer \/ phoneTimer' = [phoneTimer EXCEPT ![m] = d]
      BY DEF AskPhone
    <2> QED BY <2>1 DEF Charges, ChargesTyped
  <1>7. pc'[d] \in {"asking", "receipt"} /\ \A e \in Deliveries \ {d} : pc'[e] = pc[e]
          /\ pc[e] \notin Owed \ {"retry"}
    <2>1. PICK l \in {"asking", "receipt"} : Goto(d, l)
      BY DEF AskPhone
    <2>2. Holds(d, retryQueue)
      BY <1>1, RetryingHolds DEF Owed
    <2> QED BY <2>1, <2>2, Went, OneRetries DEF Inv
  <1>8. \A x : Rising(x)' = Rising(x) /\ Spent(x)' = Spent(x)
    BY <1>1 DEF Rising, Spent
  <1>9. ChargesTyped'
    BY <1>1, <1>4, <1>5, <1>6 DEF Charges, ChargesTyped
  <1>10. open => \A x \in Msgs : Below(x, Spent(x) + 1)'
    BY <1>1, <1>8 DEF Below, Charges
  <1>11. open => \A e \in Deliveries : Fresher(e)'
    <2> SUFFICES ASSUME open, NEW e \in Deliveries PROVE Fresher(e)'
      OBVIOUS
    <2>1. CASE e = d
      <3>1. c = Spent(m) /\ \A i \in DOMAIN sentCounts[m] : sentCounts[m][i] < c
        BY <1>1 DEF Charges, Fresher, Below
      <3>2. Msg(d)' = m /\ Spent(m)' = c /\ count'[d] = c
        BY <1>4, <1>5, <1>8, <3>1
      <3>3. Below(m, c)'
        BY <1>1, <3>1 DEF Below
      <3> QED BY <1>1, <1>2, <1>7, <2>1, <3>1, <3>2 DEF Fresher, Below
    <2>2. CASE e # d
      BY <1>7, <2>2 DEF Fresher, Owed
    <2> QED BY <2>1, <2>2
  <1>12. \A e \in Deliveries : pc'[e] # "charged"
    BY <1>7 DEF Owed
  <1> QED BY <1>1, <1>5, <1>8, <1>9, <1>10, <1>11, <1>12 DEF Charges

LEMMA ChargesSend == ASSUME Inv, RetryLine, Charges, NEW d \in Deliveries, SendRetry(d)
  PROVE  Charges'
  <1> SUFFICES ASSUME NEW CONSTANT m, m = Msg(d), NEW CONSTANT c, c = count[d] PROVE Charges'
    OBVIOUS
  <1>1. /\ stanza' = stanza /\ keeper' = keeper /\ open' = open /\ ended' = ended
             /\ phoneTimer' = phoneTimer
        /\ count' = count /\ retryCounters' = retryCounters /\ msgRetryCache' = msgRetryCache
             /\ pc[d] = "receipt"
    BY DEF SendRetry, charges, fixed, conn
  <1>2. m \in Msgs /\ MaxRetry \in Nat /\ c \in 0..MaxRetry
    BY StanzaTyped, InboundMessagesAssumption DEF Inv, Charges, ChargesTyped
  <1>3. pc'[d] = "nack" /\ \A e \in Deliveries \ {d} : pc'[e] = pc[e]
          /\ pc[e] \notin Owed \ {"retry"}
    <2>1. Holds(d, retryQueue)
      BY <1>1, RetryingHolds DEF Owed
    <2> QED BY <2>1, Went, OneRetries DEF Inv, SendRetry
  <1>4. Deliveries' = Deliveries /\ \A e : Msg(e)' = Msg(e) /\ \A x : Spent(x)' = Spent(x)
    BY <1>1 DEF Deliveries, Msg, Spent
  <1>5. \A e \in Deliveries : pc'[e] \notin {"charged", "asking", "receipt"}
    BY <1>3 DEF Owed
  <1>6. CASE sentCounts' = sentCounts
    <2>1. UNCHANGED <<fixed, budget, conn>>
      BY <1>1, <1>6 DEF fixed, budget, charges, conn
    <2> QED BY <1>1, <1>5, <2>1, ChargesKept DEF Charges, ChargesTyped
  <1>7. CASE open /\ sentCounts' = [sentCounts EXCEPT ![m] = Append(@, c)]
    <2> DEFINE q == sentCounts[m]
    <2>1. q \in Seq(0..MaxRetry) /\ Len(q) \in Nat /\ DOMAIN q = 1..Len(q)
      BY <1>2 DEF Charges, ChargesTyped
    <2>2. Append(q, c) \in Seq(0..MaxRetry)
      BY <1>2, <2>1
    <2>3. /\ sentCounts'[m] = Append(q, c) /\ \A x \in Msgs \ {m} : sentCounts'[x] = sentCounts[x]
          /\ sentCounts' \in [Msgs -> Seq(0..MaxRetry)]
      BY <1>2, <1>7, <2>2 DEF Charges, ChargesTyped
    <2>4. /\ DOMAIN sentCounts'[m] = 1..Len(q) + 1 /\ sentCounts'[m][Len(q) + 1] = c
          /\ \A i \in DOMAIN q : sentCounts'[m][i] = q[i] /\ q[i] \in Nat
      <3>1. /\ Len(Append(q, c)) = Len(q) + 1 /\ Append(q, c)[Len(q) + 1] = c
            /\ \A i \in 1..Len(q) : Append(q, c)[i] = q[i]
        BY <1>2, <2>1
      <3>2. DOMAIN Append(q, c) = 1..Len(q) + 1
        BY <2>2, <3>1
      <3>3. \A i \in DOMAIN q : q[i] \in Nat
        BY <1>2, <2>1
      <3> QED BY <2>1, <2>3, <3>1, <3>2, <3>3
    <2>5. c <= Spent(m) /\ \A i \in DOMAIN q : q[i] < c /\ q[i] < Spent(m) + 1
      BY <1>1, <1>2, <1>7 DEF Charges, Fresher, Below
    <2>6. \A i, j \in DOMAIN q : i < j => q[i] < q[j]
      BY <1>2 DEF Charges, Rising
    <2>7. Spent(m) \in Nat
      BY <1>2 DEF Spent, Charges, ChargesTyped
    <2> HIDE DEF q
    <2>8. Rising(m)'
      <3> SUFFICES ASSUME NEW i \in 1..Len(q) + 1, NEW j \in 1..Len(q) + 1, i < j
                   PROVE  sentCounts'[m][i] < sentCounts'[m][j]
        BY <2>4 DEF Rising
      <3>1. i \in DOMAIN q
        BY <2>1
      <3>2. CASE j \in DOMAIN q
        BY <2>4, <2>6, <3>1, <3>2
      <3>3. CASE j = Len(q) + 1
        BY <2>4, <2>5, <3>1, <3>3
      <3> QED BY <2>1, <3>2, <3>3
    <2>9. Below(m, Spent(m) + 1)'
      <3> SUFFICES ASSUME NEW i \in 1..Len(q) + 1 PROVE sentCounts'[m][i] < Spent(m) + 1
        BY <1>4, <2>4 DEF Below
      <3>1. CASE i \in DOMAIN q
        BY <2>4, <2>5, <3>1
      <3>2. CASE i = Len(q) + 1
        BY <1>2, <2>4, <2>5, <2>7, <3>2
      <3> QED BY <2>1, <3>1, <3>2
    <2>10. \A x \in Msgs \ {m} : Rising(x)' /\ Below(x, Spent(x) + 1)'
      BY <1>4, <1>7, <2>3 DEF Rising, Below, Charges
    <2>11. ChargesTyped'
      BY <1>1, <1>4, <2>3 DEF Charges, ChargesTyped
    <2>12. \A e \in Deliveries : Fresher(e)'
      BY <1>5 DEF Fresher
    <2> QED BY <1>1, <1>4, <1>5, <1>7, <2>8, <2>9, <2>10, <2>11, <2>12 DEF Charges
  <1> QED BY <1>6, <1>7 DEF SendRetry

\* Every other step of a retry ends one or hands it on.
LEMMA ChargesRetry == ASSUME Inv, RetryLine, Charges, NEW d \in Deliveries, Retry(d) PROVE Charges'
  <1>1. CASE RetrySkipped(d) \/ PhoneAsked(d) \/ Nack(d)
    <2>1. UNCHANGED <<fixed, budget, conn>> /\ phoneTimer' = phoneTimer
      BY <1>1 DEF RetrySkipped, PhoneAsked, Nack
    <2>2. PICK l \in {"done", "receipt", "nack"} : Goto(d, l) /\ (l = "receipt" => pc[d] = "asking")
      BY <1>1 DEF RetrySkipped, PhoneAsked, Nack
    <2>3. pc'[d] = l /\ \A e \in Deliveries \ {d} : pc'[e] = pc[e]
      BY <2>2, Went DEF Inv
    <2> QED BY <2>1, <2>2, <2>3, ChargesKept DEF Charges, ChargesTyped
  <1> QED BY <1>1, ChargesCharge, ChargesSpent, ChargesAsk, ChargesSend DEF Retry

LEMMA ChargesHandle == ASSUME Inv, Lines, Charges, NEW d \in Deliveries, Handle(d) PROVE Charges'
  <1>1. UNCHANGED <<fixed, budget, conn>>
    BY DEF Handle, Mapped, Decrypt, Answer, HistReceipt, SkipUpsert, Upsert, Process, Throws
  <1>2. phoneTimer' \in [Msgs -> Deliveries \cup {0}]
    <2>1. phoneTimer' = phoneTimer \/ phoneTimer' = [phoneTimer EXCEPT ![Msg(d)] = 0]
      BY DEF Handle, Mapped, Decrypt, Answer, HistReceipt, SkipUpsert, Upsert, Process, Throws
    <2> QED BY <2>1 DEF Charges, ChargesTyped
  <1>3. pc[d] \notin Owed
    BY DEF Handle, Mapped, Decrypt, InChat, Answer, HistReceipt, SkipUpsert, Upsert, Process, Throws,
           Owed
  <1>4. pc'[d] \notin Owed \ {"retry"} /\ \A e \in Deliveries \ {d} : pc'[e] = pc[e]
    BY <1>3, HandleMoved DEF Moved, Rest, RetryMove, Owed
  <1> QED BY <1>1, <1>2, <1>4, ChargesKept DEF Owed

LEMMA InitCharges == Init => Charges
  <1> SUFFICES ASSUME Init PROVE Charges
    OBVIOUS
  <1>1. MaxRetry \in Nat /\ Charged \subseteq 0..MaxRetry
    BY InboundMessagesAssumption
  <1>2. msgRetryCache \in [Msgs -> 0..MaxRetry]
    BY <1>1 DEF Init
  <1>3. retryCounters \in [Msgs -> 0..MaxRetry]
    BY <1>1, <1>2 DEF Init
  <1>4. ChargesTyped
    <2>1. count \in [Deliveries -> 0..MaxRetry] /\ phoneTimer \in [Msgs -> Deliveries \cup {0}]
      BY <1>1 DEF Init
    <2>2. sentCounts \in [Msgs -> Seq(0..MaxRetry)]
      BY DEF Init
    <2> QED BY <1>2, <1>3, <2>1, <2>2 DEF Init, ChargesTyped
  <1>5. \A m \in Msgs : Rising(m) /\ \A n : Below(m, n)
    BY DEF Init, Rising, Below
  <1>6. \A d \in Deliveries : pc[d] = "away"
    BY DEF Init
  <1> QED BY <1>4, <1>5, <1>6 DEF Init, Charges, Fresher

LEMMA NextCharges == Inv /\ Lines /\ Charges /\ [Next]_vars => Charges'
  <1> SUFFICES ASSUME Inv, Lines, Charges, [Next]_vars PROVE Charges'
    OBVIOUS
  <1>1. CASE Stanzas \/ Backlog
    BY <1>1, ArrivalPlaces, ChargesKept DEF Charges, ChargesTyped
  <1>2. CASE \/ \E d \in Deliveries : Resend(d)
             \/ \E m \in Msgs : PhoneAnswers(m) \/ PhoneTimer(m)
             \/ \E i \in Identities : MarkExpires(i)
             \/ UNCHANGED vars
    <2>1. pc' = pc /\ fixed' = fixed
      BY <1>2, OtherKept DEF handler
    <2>2. UNCHANGED <<budget, conn>>
      BY <1>2 DEF Resend, ResendMiss, AlreadyRequested, ResendStore, Resolved, ResendAsk,
          ResendExpires,
                  PhoneAnswers, PhoneTimer, MarkExpires, handling, vars
    <2>3. phoneTimer' = phoneTimer \/ \E m \in Msgs : phoneTimer' = [phoneTimer EXCEPT ![m] = 0]
      BY <1>2 DEF Resend, ResendMiss, AlreadyRequested, ResendStore, Resolved, ResendAsk,
          ResendExpires,
                  PhoneAnswers, PhoneTimer, MarkExpires, vars
    <2>4. phoneTimer' \in [Msgs -> Deliveries \cup {0}]
      BY <2>3 DEF Charges, ChargesTyped
    <2> QED BY <2>1, <2>2, <2>4, ChargesKept
  <1> QED BY <1>1, <1>2, ChargesEnd, ChargesHandle, ChargesRetry DEF Next, Lines

-----------------------------------------------------------------------------
(* The phone is asked again only after it was forgotten                    *)

ResendPlaces == {"none", "waiting", "storing", "delay", "ended", "failed"}
Bound == {"storing", "delay"}

Due(m) == {d \in Deliveries : Msg(d) = m /\ resend[d] \in Bound}
Storing(m) == \E d \in Deliveries : Msg(d) = m /\ resend[d] = "storing"

\* The entry of a message, or the right to write it: who has it may ask once.
Token(m) == IF m \in resendCache \/ Storing(m) THEN 1 ELSE 0

AsksTyped ==
  /\ stanza \in Traffic /\ resend \in [Deliveries -> ResendPlaces]
  /\ resendCache \subseteq Msgs /\ expiry \subseteq Deliveries
  /\ asked \in [Msgs -> Nat] /\ forgotten \in [Msgs -> Nat]

\* Those who are about to ask for a message and the requests sent for it are no more
\* than the entries made for it.
Asks ==
  /\ AsksTyped
  /\ \A m \in Msgs : asked[m] + Cardinality(Due(m)) <= forgotten[m] + Token(m)
  /\ \A d \in Deliveries : resend[d] = "storing" => Msg(d) \notin resendCache
  /\ \A d, e \in Deliveries : Msg(d) = Msg(e) /\ resend[d] = "storing" /\ resend[e] = "storing"
       => d = e

LEMMA DueFinite == ASSUME stanza \in Traffic, NEW m
  PROVE  IsFiniteSet(Due(m)) /\ Cardinality(Due(m)) \in Nat
  <1>1. Deliveries = 1..Len(stanza) /\ Len(stanza) \in Nat
    BY DeliveryNumbers
  <1>2. IsFiniteSet(Deliveries)
    BY <1>1, FS_Interval
  <1>3. IsFiniteSet(Due(m))
    BY <1>2, FS_Subset DEF Due
  <1> QED BY <1>3, FS_CardinalityType

\* What a step of one request does to those who are about to ask.
LEMMA DueMoves ==
  ASSUME AsksTyped, NEW CONSTANT d, d \in Deliveries, NEW CONSTANT m, m = Msg(d),
         NEW CONSTANT v, v \in ResendPlaces,
         resend' = [resend EXCEPT ![d] = v], stanza' = stanza
  PROVE  /\ resend' \in [Deliveries -> ResendPlaces] /\ resend'[d] = v
         /\ \A e \in Deliveries \ {d} : resend'[e] = resend[e]
         /\ Deliveries' = Deliveries /\ \A e : Msg(e)' = Msg(e)
         /\ \A x : x # m => Due(x)' = Due(x) /\ (Storing(x)' <=> Storing(x))
         /\ (resend[d] \in Bound <=> v \in Bound) => Cardinality(Due(m))' = Cardinality(Due(m))
         /\ resend[d] \notin Bound /\ v \in Bound => Cardinality(Due(m))' = Cardinality(Due(m)) + 1
         /\ resend[d] \in Bound /\ v \notin Bound => Cardinality(Due(m))' = Cardinality(Due(m)) - 1
  <1>1. Deliveries' = Deliveries /\ \A e : Msg(e)' = Msg(e)
    BY DEF Deliveries, Msg
  <1>2. resend' \in [Deliveries -> ResendPlaces] /\ resend'[d] = v
          /\ \A e \in Deliveries \ {d} : resend'[e] = resend[e]
    BY DEF AsksTyped
  <1>3. \A x : x # m => Due(x)' = Due(x) /\ (Storing(x)' <=> Storing(x))
    BY <1>1, <1>2 DEF Due, Storing
  <1>4. IsFiniteSet(Due(m)) /\ Cardinality(Due(m)) \in Nat
    BY DueFinite DEF AsksTyped
  <1>5. CASE resend[d] \in Bound <=> v \in Bound
    <2>1. Due(m)' = Due(m)
      BY <1>1, <1>2, <1>5 DEF Due
    <2> QED BY <1>1, <1>2, <1>3, <1>5, <2>1
  <1>6. CASE resend[d] \notin Bound /\ v \in Bound
    <2>1. Due(m)' = Due(m) \cup {d} /\ d \notin Due(m)
      BY <1>1, <1>2, <1>6 DEF Due
    <2>2. Cardinality(Due(m) \cup {d}) = Cardinality(Due(m)) + 1
      BY <1>4, <2>1, FS_AddElement
    <2> QED BY <1>1, <1>2, <1>3, <1>6, <2>1, <2>2
  <1>7. CASE resend[d] \in Bound /\ v \notin Bound
    <2>1. Due(m)' = Due(m) \ {d} /\ d \in Due(m)
      BY <1>1, <1>2, <1>7 DEF Due
    <2>2. Cardinality(Due(m) \ {d}) = Cardinality(Due(m)) - 1
      BY <1>4, <2>1, FS_RemoveElement
    <2> QED BY <1>1, <1>2, <1>3, <1>7, <2>1, <2>2
  <1> QED BY <1>5, <1>6, <1>7

\* It is enough to look at the message of the request.
LEMMA AsksStep ==
  ASSUME Asks, NEW CONSTANT d, d \in Deliveries, NEW CONSTANT m, m = Msg(d), m \in Msgs,
         NEW CONSTANT v, v \in ResendPlaces,
         resend' = [resend EXCEPT ![d] = v], stanza' = stanza, AsksTyped',
         \A x \in Msgs \ {m} : asked'[x] = asked[x] /\ forgotten'[x] = forgotten[x],
         \A x : x # m => (x \in resendCache' <=> x \in resendCache),
         asked'[m] + Cardinality(Due(m))' <= forgotten'[m] + Token(m)',
         v = "storing" => ~Storing(m),
         m \in resendCache' =>
           v # "storing" /\ \A e \in Deliveries \ {d} : Msg(e) = m => resend[e] # "storing"
  PROVE  Asks'
  <1>1. AsksTyped
    BY DEF Asks
  <1>2. /\ resend'[d] = v /\ \A e \in Deliveries \ {d} : resend'[e] = resend[e]
        /\ Deliveries' = Deliveries /\ \A e : Msg(e)' = Msg(e)
        /\ \A x : x # m => Due(x)' = Due(x) /\ (Storing(x)' <=> Storing(x))
    BY <1>1, DueMoves
  <1>3. \A x : x # m => Token(x)' = Token(x)
    BY <1>2 DEF Token
  <1>4. \A x \in Msgs : asked'[x] + Cardinality(Due(x))' <= forgotten'[x] + Token(x)'
    <2>1. ASSUME NEW x \in Msgs, x # m
          PROVE  asked'[x] + Cardinality(Due(x))' <= forgotten'[x] + Token(x)'
      <3>1. Due(x)' = Due(x) /\ Token(x)' = Token(x) /\ asked'[x] = asked[x]
              /\ forgotten'[x] = forgotten[x]
        BY <1>2, <1>3, <2>1
      <3>2. asked[x] + Cardinality(Due(x)) <= forgotten[x] + Token(x)
        BY DEF Asks
      <3> QED BY <3>1, <3>2
    <2> QED BY <2>1
  <1>5. \A e \in Deliveries : resend'[e] = "storing" => Msg(e) \notin resendCache'
    <2> SUFFICES ASSUME NEW e \in Deliveries, resend'[e] = "storing"
                 PROVE  Msg(e) \notin resendCache'
      OBVIOUS
    <2>1. CASE e = d
      BY <1>2, <2>1
    <2>2. CASE e # d
      BY <1>2, <2>2 DEF Asks
    <2> QED BY <2>1, <2>2
  <1>6. \A e, f \in Deliveries : Msg(e) = Msg(f) /\ resend'[e] = "storing"
          /\ resend'[f] = "storing" => e = f
    <2> SUFFICES ASSUME NEW e \in Deliveries, NEW f \in Deliveries, Msg(e) = Msg(f),
                        resend'[e] = "storing", resend'[f] = "storing", e # f
                 PROVE  FALSE
      OBVIOUS
    <2>1. CASE e = d
      BY <1>2, <2>1 DEF Storing
    <2>2. CASE f = d
      BY <1>2, <2>2 DEF Storing
    <2>3. CASE e # d /\ f # d
      BY <1>2, <2>3 DEF Asks
    <2> QED BY <2>1, <2>2, <2>3
  <1> QED BY <1>2, <1>4, <1>5, <1>6 DEF Asks

\* A request starts over, wherever an earlier one of the same delivery was.
LEMMA AsksWaits ==
  ASSUME Asks, NEW CONSTANT d, d \in Deliveries, Msg(d) \in Msgs,
         resend' = [resend EXCEPT ![d] = "waiting"],
         stanza' = stanza, UNCHANGED <<resendCache, expiry, asked, forgotten>>
  PROVE  Asks'
  <1> SUFFICES ASSUME NEW CONSTANT m, m = Msg(d), m \in Msgs PROVE Asks'
    OBVIOUS
  <1>1. AsksTyped /\ "waiting" \in ResendPlaces /\ "waiting" \notin Bound
    BY DEF Asks, ResendPlaces, Bound
  <1>2. /\ resend' \in [Deliveries -> ResendPlaces] /\ resend'[d] = "waiting"
        /\ \A e \in Deliveries \ {d} : resend'[e] = resend[e]
        /\ Deliveries' = Deliveries /\ \A e : Msg(e)' = Msg(e)
        /\ resend[d] \notin Bound => Cardinality(Due(m))' = Cardinality(Due(m))
        /\ resend[d] \in Bound => Cardinality(Due(m))' = Cardinality(Due(m)) - 1
    BY <1>1, DueMoves
  <1>3. AsksTyped'
    BY <1>1, <1>2 DEF AsksTyped
  <1>4. /\ asked[m] + Cardinality(Due(m)) <= forgotten[m] + Token(m)
        /\ asked[m] \in Nat /\ forgotten[m] \in Nat /\ Cardinality(Due(m)) \in Nat
    BY <1>1, DueFinite DEF Asks, AsksTyped
  <1>5. Token(m) \in {0, 1} /\ Token(m)' \in {0, 1}
    BY DEF Token
  <1>6. resend[d] # "storing" => (Storing(m)' <=> Storing(m))
    BY <1>2 DEF Storing
  <1>7. resend[d] # "storing" => Token(m)' = Token(m)
    BY <1>6 DEF Token
  <1>8. asked[m] + Cardinality(Due(m))' <= forgotten[m] + Token(m)'
    <2>1. CASE resend[d] = "storing"
      <3>1. Cardinality(Due(m))' = Cardinality(Due(m)) - 1
        BY <1>2, <2>1 DEF Bound
      <3> QED BY <1>4, <1>5, <3>1
    <2>2. CASE resend[d] # "storing"
      <3>1. Cardinality(Due(m))' <= Cardinality(Due(m)) /\ Cardinality(Due(m))' \in Int
        BY <1>2, <1>4
      <3> QED BY <1>4, <1>5, <1>7, <2>2, <3>1
    <2> QED BY <2>1, <2>2
  <1>9. m \in resendCache => \A e \in Deliveries \ {d} : Msg(e) = m => resend[e] # "storing"
    BY DEF Asks
  <1> QED BY <1>1, <1>3, <1>8, <1>9, AsksStep

\* An entry is deleted.
LEMMA AsksForgets ==
  ASSUME Asks, NEW CONSTANT m, m \in Msgs, Forget(m), stanza' = stanza, resend' = resend,
         asked' = asked,
         expiry' \subseteq Deliveries
  PROVE  Asks'
  <1>1. Deliveries' = Deliveries /\ (\A e : Msg(e)' = Msg(e))
        /\ \A x : Due(x)' = Due(x) /\ (Storing(x)' <=> Storing(x))
    BY DEF Deliveries, Msg, Due, Storing
  <1>2. AsksTyped
    BY DEF Asks
  <1>3. /\ resendCache' = resendCache \ {m}
        /\ forgotten' = [forgotten EXCEPT ![m] = IF m \in resendCache THEN forgotten[m] + 1 ELSE forgotten[m]]
    BY DEF Forget
  <1>4. /\ forgotten' \in [Msgs -> Nat] /\ \A x \in Msgs \ {m} : forgotten'[x] = forgotten[x]
        /\ forgotten'[m] = IF m \in resendCache THEN forgotten[m] + 1 ELSE forgotten[m]
    <2>1. forgotten[m] \in Nat /\ (IF m \in resendCache THEN forgotten[m] + 1 ELSE forgotten[m]) \in Nat
      BY <1>2 DEF AsksTyped
    <2> QED BY <1>2, <1>3, <2>1 DEF AsksTyped
  <1>5. AsksTyped'
    BY <1>1, <1>2, <1>3, <1>4 DEF AsksTyped
  <1>6. \A x \in Msgs : asked'[x] + Cardinality(Due(x))' <= forgotten'[x] + Token(x)'
    <2> SUFFICES ASSUME NEW CONSTANT x, x \in Msgs
                 PROVE  asked[x] + Cardinality(Due(x)) <= forgotten'[x] + Token(x)'
      BY <1>1
    <2>1. /\ asked[x] + Cardinality(Due(x)) <= forgotten[x] + Token(x)
          /\ asked[x] \in Nat /\ forgotten[x] \in Nat /\ Cardinality(Due(x)) \in Nat
      BY <1>2, DueFinite DEF Asks, AsksTyped
    <2>2. Token(x) \in {0, 1} /\ Token(x)' \in {0, 1}
      BY DEF Token
    <2>3. CASE x = m /\ m \in resendCache
      BY <1>4, <2>1, <2>2, <2>3
    <2>4. CASE ~(x = m /\ m \in resendCache)
      <3>1. Token(x)' = Token(x)
        BY <1>1, <1>3, <2>4 DEF Token
      <3>2. forgotten'[x] = forgotten[x]
        BY <1>4, <2>4
      <3> QED BY <2>1, <3>1, <3>2
    <2> QED BY <2>3, <2>4
  <1> QED BY <1>1, <1>3, <1>5, <1>6 DEF Asks

LEMMA AsksKept ==
  ASSUME Asks, stanza' = stanza, UNCHANGED phone
  PROVE  Asks'
  <1>1. /\ resend' = resend /\ resendCache' = resendCache /\ expiry' = expiry /\ asked' = asked
        /\ forgotten' = forgotten /\ Deliveries' = Deliveries
    BY DEF phone, Deliveries
  <1>2. \A e : Msg(e)' = Msg(e)
    BY DEF Msg
  <1>3. \A x : Due(x)' = Due(x) /\ (Storing(x)' <=> Storing(x))
    BY <1>1, <1>2 DEF Due, Storing
  <1>4. \A x : Token(x)' = Token(x)
    BY <1>1, <1>3 DEF Token
  <1> QED BY <1>1, <1>2, <1>3, <1>4 DEF Asks, AsksTyped

LEMMA AsksResend == ASSUME Typed, Asks, NEW CONSTANT d, d \in Deliveries, Resend(d) PROVE Asks'
  <1> SUFFICES ASSUME NEW CONSTANT m, m = Msg(d), m \in Msgs PROVE Asks'
    BY StanzaTyped
  <1>1. /\ AsksTyped /\ asked[m] \in Nat /\ forgotten[m] \in Nat /\ Cardinality(Due(m)) \in Nat
        /\ asked[m] + Cardinality(Due(m)) <= forgotten[m] + Token(m)
    BY DueFinite DEF Asks, AsksTyped
  <1>2. stanza' = stanza /\ Deliveries' = Deliveries
    BY DEF Resend, ResendMiss, AlreadyRequested, ResendStore, Resolved, ResendAsk, ResendExpires,
        handling, fixed,
           Deliveries
  <1>3. m \in resendCache => \A e \in Deliveries \ {d} : Msg(e) = m => resend[e] # "storing"
    BY DEF Asks
  <1>4. Token(m) \in {0, 1} /\ Token(m)' \in {0, 1}
    BY DEF Token
  <1>5. CASE ResendMiss(d)
    <2>1. /\ resend[d] = "waiting" /\ ~Storing(m) /\ m \notin resendCache
          /\ resend' = [resend EXCEPT ![d] = "storing"]
          /\ UNCHANGED <<resendCache, expiry, asked, forgotten>>
      BY <1>5 DEF ResendMiss, Unlocked, Storing
    <2>2. "storing" \in ResendPlaces /\ "storing" \in Bound /\ resend[d] \notin Bound
      BY <2>1 DEF ResendPlaces, Bound
    <2>3. /\ resend' \in [Deliveries -> ResendPlaces] /\ resend'[d] = "storing"
               /\ \A e : Msg(e)' = Msg(e)
          /\ Cardinality(Due(m))' = Cardinality(Due(m)) + 1
      BY <1>1, <1>2, <2>1, <2>2, DueMoves
    <2>4. AsksTyped'
      BY <1>1, <1>2, <2>1, <2>3 DEF AsksTyped
    <2>5. Token(m) = 0 /\ Token(m)' = 1
      BY <1>2, <2>1, <2>3 DEF Token, Storing
    <2>6. asked'[m] + Cardinality(Due(m))' <= forgotten'[m] + Token(m)'
      BY <1>1, <2>1, <2>3, <2>5
    <2> QED BY <1>2, <2>1, <2>2, <2>4, <2>6, AsksStep
  <1>6. CASE AlreadyRequested(d)
    <2>1. /\ resend[d] = "waiting" /\ m \in resendCache /\ resend' = [resend EXCEPT ![d] = "ended"]
          /\ UNCHANGED <<resendCache, expiry, asked, forgotten>>
      BY <1>6 DEF AlreadyRequested
    <2>2. "ended" \in ResendPlaces /\ "ended" \notin Bound /\ resend[d] \notin Bound
      BY <2>1 DEF ResendPlaces, Bound
    <2>3. resend' \in [Deliveries -> ResendPlaces] /\ Cardinality(Due(m))' = Cardinality(Due(m))
      BY <1>1, <1>2, <2>1, <2>2, DueMoves
    <2>4. AsksTyped'
      BY <1>1, <1>2, <2>1, <2>3 DEF AsksTyped
    <2>5. Token(m) = 1 /\ Token(m)' = 1
      BY <2>1 DEF Token
    <2>6. asked'[m] + Cardinality(Due(m))' <= forgotten'[m] + Token(m)'
      BY <1>1, <2>1, <2>3, <2>5
    <2> QED BY <1>2, <1>3, <2>1, <2>2, <2>4, <2>6, AsksStep
  <1>7. CASE ResendStore(d)
    <2>1. /\ resend[d] = "storing" /\ resend' = [resend EXCEPT ![d] = "delay"]
          /\ resendCache' = resendCache \cup {m} /\ UNCHANGED <<expiry, asked, forgotten>>
      BY <1>7 DEF ResendStore
    <2>2. "delay" \in ResendPlaces /\ "delay" \in Bound /\ resend[d] \in Bound
      BY <2>1 DEF ResendPlaces, Bound
    <2>3. resend' \in [Deliveries -> ResendPlaces] /\ Cardinality(Due(m))' = Cardinality(Due(m))
      BY <1>1, <1>2, <2>1, <2>2, DueMoves
    <2>4. AsksTyped'
      BY <1>1, <1>2, <2>1, <2>3 DEF AsksTyped
    <2>5. Token(m)' = 1
      BY <2>1 DEF Token
    <2>6. asked'[m] + Cardinality(Due(m))' <= forgotten'[m] + Token(m)'
      BY <1>1, <1>4, <2>1, <2>3, <2>5
    <2>7. \A e \in Deliveries \ {d} : Msg(e) = m => resend[e] # "storing"
      BY <2>1 DEF Asks
    <2> QED BY <1>2, <2>1, <2>2, <2>4, <2>6, <2>7, AsksStep
  <1>8. CASE Resolved(d)
    <2>1. /\ resend[d] = "delay" /\ m \notin resendCache /\ resend' = [resend EXCEPT ![d] = "ended"]
          /\ UNCHANGED <<resendCache, expiry, asked, forgotten>>
      BY <1>8 DEF Resolved
    <2>2. "ended" \in ResendPlaces /\ "ended" \notin Bound /\ resend[d] \in Bound
      BY <2>1 DEF ResendPlaces, Bound
    <2>3. /\ resend' \in [Deliveries -> ResendPlaces]
               /\ Cardinality(Due(m))' = Cardinality(Due(m)) - 1
          /\ resend'[d] = "ended" /\ \A e \in Deliveries \ {d} : resend'[e] = resend[e]
          /\ \A e : Msg(e)' = Msg(e)
      BY <1>1, <1>2, <2>1, <2>2, DueMoves
    <2>4. AsksTyped'
      BY <1>1, <1>2, <2>1, <2>3 DEF AsksTyped
    <2>5. Token(m)' = Token(m)
      BY <1>2, <2>1, <2>3 DEF Token, Storing
    <2>6. asked'[m] + Cardinality(Due(m))' <= forgotten'[m] + Token(m)'
      BY <1>1, <1>4, <2>1, <2>3, <2>5
    <2> QED BY <1>2, <1>3, <2>1, <2>2, <2>4, <2>6, AsksStep
  <1>9. CASE ResendAsk(d)
    <2>1. /\ resend[d] = "delay" /\ m \in resendCache /\ expiry' = expiry \cup {d}
          /\ UNCHANGED <<resendCache, forgotten>>
      BY <1>9 DEF ResendAsk
    <2>2. PICK v \in {"ended", "failed"} :
            /\ resend' = [resend EXCEPT ![d] = v]
            /\ asked' = asked \/ asked' = [asked EXCEPT ![m] = @ + 1]
      BY <1>9 DEF ResendAsk
    <2>3. v \in ResendPlaces /\ v \notin Bound /\ v # "storing" /\ resend[d] \in Bound
      BY <2>1 DEF ResendPlaces, Bound
    <2>4. resend' \in [Deliveries -> ResendPlaces] /\ Cardinality(Due(m))' = Cardinality(Due(m)) - 1
      BY <1>1, <1>2, <2>2, <2>3, DueMoves
    <2>5. /\ asked' \in [Msgs -> Nat] /\ asked'[m] \in {asked[m], asked[m] + 1}
          /\ \A x \in Msgs \ {m} : asked'[x] = asked[x]
      BY <1>1, <2>2 DEF AsksTyped
    <2>6. AsksTyped'
      BY <1>1, <1>2, <2>1, <2>4, <2>5 DEF AsksTyped
    <2>7. Token(m) = 1 /\ Token(m)' = 1
      BY <2>1 DEF Token
    <2>8. asked'[m] + Cardinality(Due(m))' <= forgotten'[m] + Token(m)'
      BY <1>1, <2>1, <2>4, <2>5, <2>7
    <2> QED BY <1>2, <1>3, <2>1, <2>2, <2>3, <2>5, <2>6, <2>8, AsksStep
  <1>10. CASE ResendExpires(d)
    <2>1. Forget(m) /\ resend' = resend /\ asked' = asked /\ expiry' = expiry \ {d}
      BY <1>10 DEF ResendExpires
    <2>2. expiry' \subseteq Deliveries
      BY <1>1, <2>1 DEF AsksTyped
    <2> QED BY <1>2, <2>1, <2>2, AsksForgets
  <1> QED BY <1>5, <1>6, <1>7, <1>8, <1>9, <1>10 DEF Resend

LEMMA InitAsks == Init => Asks
  <1> SUFFICES ASSUME Init PROVE Asks
    OBVIOUS
  <1>1. AsksTyped
    BY DEF Init, AsksTyped, ResendPlaces
  <1>2. \A m : Due(m) = {}
    BY DEF Init, Due, Bound
  <1>3. \A m \in Msgs : asked[m] + Cardinality(Due(m)) <= forgotten[m] + Token(m)
    <2> SUFFICES ASSUME NEW m \in Msgs
                 PROVE  asked[m] + Cardinality(Due(m)) <= forgotten[m] + Token(m)
      OBVIOUS
    <2>1. asked[m] = 0 /\ forgotten[m] = 0 /\ Cardinality(Due(m)) = 0 /\ Token(m) \in {0, 1}
      BY <1>2, FS_EmptySet DEF Init, Token
    <2> QED BY <2>1
  <1> QED BY <1>1, <1>3 DEF Init, Asks

LEMMA NextAsks == Inv /\ Charges /\ Asks /\ [Next]_vars => Asks'
  <1> SUFFICES ASSUME Inv, Charges, Asks, [Next]_vars PROVE Asks'
    OBVIOUS
  <1>1. Typed
    BY DEF Inv
  <1>2. CASE Stanzas \/ Backlog
    <2>1. UNCHANGED <<fixed, phone>>
      BY <1>2, ArrivalPlaces
    <2> QED BY <2>1, AsksKept DEF fixed
  <1>3. ASSUME NEW CONSTANT d, d \in Deliveries, Handle(d) \/ Retry(d) PROVE Asks'
    <2>1. \/ UNCHANGED phone
          \/ resend' = [resend EXCEPT ![d] = "waiting"]
               /\ UNCHANGED <<resendCache, expiry, asked, forgotten>>
      <3>1. CASE Decrypt(d)
        BY <3>1 DEF Decrypt, phone
      <3>2. CASE AskPhone(d)
        BY <3>2 DEF AskPhone, phone
      <3>3. CASE \/ Mapped(d) \/ Answer(d) \/ HistReceipt(d) \/ SkipUpsert(d) \/ Upsert(d)
                 \/ Process(d) \/ Throws(d)
        BY <3>3 DEF Mapped, Answer, HistReceipt, SkipUpsert, Upsert, Process, Throws
      <3>4. CASE RetrySkipped(d) \/ Charge(d) \/ BudgetSpent(d) \/ PhoneAsked(d) \/ SendRetry(d) \/ Nack(d)
        BY <3>4 DEF RetrySkipped, Charge, ChargeUpTo, BudgetSpent, PhoneAsked, SendRetry, Nack
      <3> QED BY <1>3, <3>1, <3>2, <3>3, <3>4 DEF Handle, Retry
    <2>2. stanza' = stanza
      <3>1. CASE Handle(d)
        BY <3>1 DEF Handle, Mapped, Decrypt, Answer, HistReceipt, SkipUpsert, Upsert, Process,
                    Throws, fixed
      <3>2. CASE Retry(d)
        BY <3>2 DEF Retry, RetrySkipped, Charge, ChargeUpTo, BudgetSpent, AskPhone, PhoneAsked,
            SendRetry, Nack, fixed
      <3> QED BY <1>3, <3>1, <3>2
    <2>3. Msg(d) \in Msgs
      BY <1>1, <1>3, StanzaTyped
    <2> QED BY <1>3, <2>1, <2>2, <2>3, AsksKept, AsksWaits
  <1>4. ASSUME NEW CONSTANT m, m \in Msgs, PhoneAnswers(m) PROVE Asks'
    <2>1. Forget(m) /\ stanza' = stanza /\ resend' = resend /\ asked' = asked /\ expiry' = expiry
      BY <1>4 DEF PhoneAnswers, handling, fixed
    <2>2. expiry' \subseteq Deliveries
      BY <2>1 DEF Asks, AsksTyped
    <2> QED BY <1>4, <2>1, <2>2, AsksForgets
  <1>5. ASSUME NEW CONSTANT m, m \in Msgs, PhoneTimer(m) PROVE Asks'
    <2> SUFFICES ASSUME NEW CONSTANT d, d = phoneTimer[m] PROVE Asks'
      OBVIOUS
    <2>1. d \in Deliveries
      BY <1>5 DEF PhoneTimer, Charges, ChargesTyped
    <2>2. /\ resend' = [resend EXCEPT ![d] = "waiting"] /\ stanza' = stanza
          /\ UNCHANGED <<resendCache, expiry, asked, forgotten>>
      BY <1>5 DEF PhoneTimer, handling, fixed
    <2>3. Msg(d) \in Msgs
      BY <1>1, <2>1, StanzaTyped
    <2> QED BY <2>1, <2>2, <2>3, AsksWaits
  <1>6. CASE Close \/ EndHandlers \/ UNCHANGED vars \/ \E i \in Identities : MarkExpires(i)
    <2>1. stanza' = stanza /\ UNCHANGED phone
      BY <1>6 DEF Close, EndHandlers, MarkExpires, vars, handling, fixed
    <2> QED BY <2>1, AsksKept
  <1> QED BY <1>1, <1>2, <1>3, <1>4, <1>5, <1>6, AsksResend DEF Next

-----------------------------------------------------------------------------
(* All together                                                            *)

Whole == Passage /\ Shown /\ Hist /\ Charges /\ Asks

LEMMA InitWhole == Init => Whole
  BY InitPassage, InitShown, InitHist, InitCharges, InitAsks DEF Whole

LEMMA NextWhole == Whole /\ [Next]_vars => Whole'
  BY NextPassage, NextShown, NextHist, NextCharges, NextAsks DEF Whole, Passage

(***************************************************************************)
(* However copies of a message fail side by side (lib/Socket/messages-      *)
(* recv.js: sendRetryRequest, which reads its count back after awaits), its *)
(* retry receipts count up and none repeats a count; and the phone is asked *)
(* for a message again only after its entry was deleted                     *)
(* (requestPlaceholderResend, with its timers and the phone's answers).     *)
(***************************************************************************)
THEOREM InboundMessagesBudgets == Spec => []Budgets
<1>1. Whole => Budgets
  <2> SUFFICES ASSUME Whole, NEW m \in Msgs
               PROVE  /\ \A i, j \in DOMAIN sentCounts[m] : i < j
                           => sentCounts[m][i] < sentCounts[m][j]
                      /\ asked[m] <= 1 + forgotten[m]
    BY DEF Budgets
  <2>1. \A i, j \in DOMAIN sentCounts[m] : i < j => sentCounts[m][i] < sentCounts[m][j]
    BY DEF Whole, Charges, Rising
  <2>2. asked[m] <= 1 + forgotten[m]
    <3>1. /\ asked[m] + Cardinality(Due(m)) <= forgotten[m] + Token(m)
          /\ asked[m] \in Nat /\ forgotten[m] \in Nat /\ Cardinality(Due(m)) \in Nat
      BY DueFinite DEF Whole, Asks, AsksTyped
    <3>2. Token(m) \in {0, 1}
      BY DEF Token
    <3> QED BY <3>1, <3>2
  <2> QED BY <2>1, <2>2
<1>2. QED BY <1>1, InitWhole, NextWhole, PTL DEF Spec

(***************************************************************************)
(* Every variable has its type: no place, count or timer leaves its range,  *)
(* whatever the socket's traffic and its end.                               *)
(***************************************************************************)
THEOREM InboundMessagesTypeOK == Spec => []TypeOK
<1>1. Whole => TypeOK
  <2> SUFFICES ASSUME Whole PROVE TypeOK
    OBVIOUS
  <2>1. Typed /\ Waiting /\ Lines /\ Shown /\ Hist /\ ChargesTyped /\ AsksTyped
          /\ backlog \in Seq(Deliveries)
    BY DEF Whole, Passage, Inv, Backlogged, Charges, Asks
  <2>2. retryQueue \in Seq(Deliveries)
    <3>1. retryQueue \in Seq(RetrySet)
      BY <2>1 DEF Lines, RetryLine, Line
    <3>2. RetrySet \subseteq Deliveries
      BY DEF RetrySet
    <3>3. \A i \in 1..Len(retryQueue) : retryQueue[i] \in Deliveries
      BY <3>1, <3>2
    <3> QED BY <3>1, <3>3
  <2>3. lidQueue \in [Alts -> Seq(Deliveries)] /\ chatQueue \in [Chats -> Seq(Deliveries)]
    BY <2>1 DEF Lines, LidLines, ChatLines
  <2>4. histReceipts \in [Deliveries -> Nat]
    BY <2>1 DEF Hist
  <2> QED BY <2>1, <2>2, <2>3, <2>4 DEF TypeOK, Typed, Waiting, Shown, ChargesTyped, AsksTyped,
      ResendPlaces
<1>2. QED BY <1>1, InitWhole, NextWhole, PTL DEF Spec
=============================================================================
