-------------------------- MODULE SenderKeysProofs --------------------------
(***************************************************************************)
(* Proofs about SenderKeys, for every set of keys and every limit: the     *)
(* types, that late messages stay readable within the limit of skipped     *)
(* keys, and that no message is read twice while its state is there.       *)
(***************************************************************************)
EXTENDS SenderKeys, FiniteSetTheorems, TLAPS

\* A state has each key it passed at most once, kept or given, and has kept
\* those before the chain that it did not give.
Good(s) ==
  /\ s.base <= s.chain
  /\ s.kept \subseteq s.base..(s.chain - 1) /\ s.gave \subseteq s.base..(s.chain - 1)
  /\ s.kept \cap s.gave = {}
  /\ \A n \in s.base..(s.chain - 1) :
       n \notin s.gave /\ s.chain - n <= MAX_MESSAGE_KEYS => n \in s.kept

Chains == \A i \in DOMAIN record : Good(record[i])

\* Messages are numbered as they are sent.
Numbered ==
  /\ IsFiniteSet(sent) /\ Cardinality(sent) <= MaxSends
  /\ \A m \in sent : m.text <= Cardinality(sent)
  /\ \A m, n \in sent : m.text = n.text => m = n
  /\ again \subseteq read
  /\ \A t \in read : t <= Cardinality(sent)

\* What was read is gone from the state that decrypts its key, if any was ever
\* there and none was pushed out.
Spent ==
  \A m \in sent : m.text \in read /\ m.key \notin evicted =>
    \E i \in DOMAIN record : First(i, m.key) /\ m.iteration \in record[i].gave

Inv == TypeOK /\ Chains /\ Numbered /\ Spent /\ ReadOnce

-----------------------------------------------------------------------------
(* A state of the record.                                                  *)

\* As many keys are between n and the chain as fit, so n is not pushed out.
LEMMA NewestKeeps ==
  ASSUME NEW i \in Nat, NEW keys \in SUBSET (0..(i - 1)), NEW n \in keys,
         i + 1 - n <= MAX_MESSAGE_KEYS
  PROVE  n \in Newest(keys)
  <1> DEFINE later == {j \in keys : j > n}
  <1>1. n \in 0..(i - 1) /\ n + 1 \in Int /\ i - 1 \in Int
    OBVIOUS
  <1>2. later \subseteq (n + 1)..(i - 1)
    <2> SUFFICES ASSUME NEW j \in keys, j > n PROVE j \in (n + 1)..(i - 1)
      OBVIOUS
    <2>1. j \in 0..(i - 1)
      OBVIOUS
    <2> QED BY <1>1, <2>1
  <1>3. IsFiniteSet((n + 1)..(i - 1)) /\ Cardinality((n + 1)..(i - 1)) <= i - 1 - n
    <2>1. /\ IsFiniteSet((n + 1)..(i - 1))
          /\ Cardinality((n + 1)..(i - 1)) = IF n + 1 > i - 1 THEN 0 ELSE i - 1 - (n + 1) + 1
      BY <1>1, FS_Interval, Zenon
    <2> DEFINE c == Cardinality((n + 1)..(i - 1))
    <2> HIDE DEF c
    <2>2. c = IF n + 1 > i - 1 THEN 0 ELSE i - 1 - (n + 1) + 1
      BY <2>1 DEF c
    <2>3. c <= i - 1 - n
      BY <1>1, <2>2
    <2> QED BY <2>1, <2>3 DEF c
  <1>4. Cardinality(later) <= Cardinality((n + 1)..(i - 1))
    BY <1>2, <1>3, FS_Subset
  <1>5. Cardinality(later) \in Nat /\ Cardinality((n + 1)..(i - 1)) \in Nat
    BY <1>2, <1>3, FS_Subset, FS_CardinalityType
  <1>6. Cardinality(later) < MAX_MESSAGE_KEYS
    BY <1>1, <1>3, <1>4, <1>5, SenderKeysAssumption DEF SenderKeysAssumption
  <1> QED BY <1>6, Zenon DEF Newest

\* A fresh state is good.
LEMMA StateGood ==
  ASSUME NEW d \in Owned
  PROVE  State(d) \in Kept /\ Good(State(d)) /\ State(d).key = d.key
  BY DEF State, Kept, Owned, Good

\* Taking a key that opens gives one that was not given, and keeps the rest.
LEMMA TakenGood ==
  ASSUME NEW s \in Kept, Good(s), NEW i \in Nat, Opens(s, i)
  PROVE  /\ Taken(s, i) \in Kept /\ Good(Taken(s, i)) /\ Taken(s, i).key = s.key
         /\ i \notin s.gave /\ Taken(s, i).gave = s.gave \cup {i}
  <1>1. CASE i < s.chain
    BY <1>1 DEF Taken, Opens, Good, Kept
  <1>2. CASE ~(i < s.chain)
    <2> DEFINE all == s.kept \cup s.chain..(i - 1)
               new == Newest(all)
               t == Taken(s, i)
    <2>1. t = [s EXCEPT !.kept = new, !.chain = i + 1, !.gave = @ \cup {i}]
      BY <1>2 DEF Taken
    <2>2. /\ s.base \in Nat /\ s.chain \in Nat /\ s.base <= s.chain /\ s.chain <= i
          /\ s.gave \subseteq s.base..(s.chain - 1)
          /\ s.kept \subseteq s.base..(s.chain - 1) /\ s.kept \cap s.gave = {}
      BY <1>2 DEF Kept, Good
    <2>3. all \subseteq s.base..(i - 1) /\ all \in SUBSET (0..(i - 1))
      BY <2>2
    <2>4. new \subseteq all
      BY DEF Newest
    <2>5. i \notin s.gave /\ s.gave \subseteq s.base..i /\ s.gave \cap all = {} /\ i \notin all
      BY <2>2
    <2>6. ASSUME NEW n \in s.base..i, n \notin s.gave \cup {i}, i + 1 - n <= MAX_MESSAGE_KEYS
          PROVE  n \in new
      <3>1. n \in s.base..(i - 1) /\ n \notin s.gave
        BY <2>2, <2>6
      <3>2. n \in all
        <4>1. CASE n < s.chain
          <5>1. n \in s.base..(s.chain - 1) /\ s.chain - n <= MAX_MESSAGE_KEYS
            BY <2>2, <2>6, <3>1, <4>1, SenderKeysAssumption DEF SenderKeysAssumption
          <5> QED BY <5>1, <3>1 DEF Good
        <4>2. CASE ~(n < s.chain)
          BY <2>2, <3>1, <4>2
        <4> QED BY <4>1, <4>2
      <3> HIDE DEF all
      <3> QED BY <2>3, <2>6, <3>2, NewestKeeps, Zenon
    <2> HIDE DEF all, new
    <2>7. t = [key |-> s.key, base |-> s.base, chain |-> i + 1,
               kept |-> new, gave |-> s.gave \cup {i}]
      BY <2>1 DEF Kept
    <2> HIDE DEF t
    <2>8. t \in Kept
      <3>1. new \in SUBSET Nat /\ s.gave \cup {i} \in SUBSET Nat
        BY <2>3, <2>4 DEF Kept
      <3>2. s.key \in Keys /\ s.base \in Nat /\ i + 1 \in Nat
        BY DEF Kept
      <3> QED BY <2>7, <3>1, <3>2 DEF Kept
    <2>9. Good(t)
      <3>1. /\ t.base = s.base /\ t.chain = i + 1 /\ t.chain - 1 = i
            /\ t.kept = new /\ t.gave = s.gave \cup {i}
        BY <2>7
      <3>2. s.base <= i + 1 /\ new \subseteq s.base..i /\ s.gave \cup {i} \subseteq s.base..i
        BY <2>2, <2>3, <2>4, <2>5
      <3>3. new \cap (s.gave \cup {i}) = {}
        BY <2>4, <2>5
      <3> QED BY <3>1, <3>2, <3>3, <2>6 DEF Good
    <2>10. t.key = s.key /\ t.gave = s.gave \cup {i} /\ i \notin s.gave
      BY <2>5, <2>7
    <2> QED BY <2>8, <2>9, <2>10 DEF t
  <1> QED BY <1>1, <1>2

LEMMA InitInv == Init => Inv
  <1> SUFFICES ASSUME Init PROVE Inv
    OBVIOUS
  <1>1. TypeOK
    BY SenderKeysAssumption DEF SenderKeysAssumption, Init, TypeOK
  <1>2. Numbered
    BY FS_EmptySet, SenderKeysAssumption DEF SenderKeysAssumption, Init, Numbered
  <1> QED BY <1>1, <1>2 DEF Init, Inv, Chains, Spent, ReadOnce

-----------------------------------------------------------------------------
(* The sender.                                                             *)

LEMMA StatesOwned == ASSUME TypeOK, NEW s \in States PROVE s \in Owned
  BY DEF TypeOK, States, Owned

\* A message gets the next number, which nobody has read.
LEMMA EmitInv ==
  ASSUME Inv, NEW s \in States, NEW withKey \in BOOLEAN, Emit(s, withKey),
         own' \in Owned \cup {NoState}, UNCHANGED receiver, failures' \in 0..MaxFailures
  PROVE  Inv'
  <1> DEFINE c == Cardinality(sent)
             m == [key |-> s.key, iteration |-> NextIteration(s), text |-> c + 1]
  <1>1. s \in Owned /\ s.key \in Keys /\ NextIteration(s) \in Nat
    BY StatesOwned DEF Inv, Owned, NextIteration
  <1>2. IsFiniteSet(sent) /\ c \in Nat /\ c < MaxSends
    BY FS_CardinalityType DEF Inv, Numbered, Emit
  <1>3. sent' = sent \cup {m} /\ used' = used \cup {s.key} /\ distributed' \subseteq distributed \cup {s}
    BY DEF Emit
  <1>4. \A n \in sent : n.text <= c /\ n.text \in Nat
    BY DEF Inv, Numbered, TypeOK, Texts
  <1>5. m.text = c + 1 /\ m.text \in Nat /\ m \notin sent
    BY <1>2, <1>4
  <1>6. IsFiniteSet(sent') /\ Cardinality(sent') = c + 1
    BY <1>2, <1>3, <1>5, FS_AddElement
  <1>7. \A t \in read : t <= c /\ t \in Nat
    BY DEF Inv, Numbered, TypeOK, Texts
  <1>8. UNCHANGED <<record, read, again, evicted>>
    BY DEF receiver
  <1>9. m \in [key : Keys, iteration : Nat, text : Texts]
    BY <1>1, <1>2, SenderKeysAssumption DEF SenderKeysAssumption, Texts
  <1> HIDE DEF c, m
  <1>10. TypeOK'
    BY <1>1, <1>3, <1>8, <1>9 DEF Inv, TypeOK
  <1>11. Numbered'
    <2>1. c + 1 <= MaxSends
      BY <1>2, SenderKeysAssumption DEF SenderKeysAssumption
    <2>2. \A n \in sent' : n.text <= c + 1
      BY <1>2, <1>3, <1>4, <1>5
    <2>3. \A n, o \in sent' : n.text = o.text => n = o
      BY <1>2, <1>3, <1>4, <1>5 DEF Inv, Numbered
    <2>4. again \subseteq read /\ \A t \in read : t <= c + 1
      BY <1>2, <1>7 DEF Inv, Numbered
    <2> QED BY <1>6, <1>8, <2>1, <2>2, <2>3, <2>4 DEF Numbered
  <1>12. m.text \notin read /\ m.text \notin again
    BY <1>2, <1>5, <1>7 DEF Inv, Numbered
  <1>13. Chains' /\ Spent' /\ ReadOnce'
    BY <1>3, <1>8, <1>12 DEF Inv, Chains, Spent, ReadOnce, First, Good
  <1> QED BY <1>10, <1>11, <1>13 DEF Inv

-----------------------------------------------------------------------------
(* The receiver.                                                           *)

\* A state is added at the end, and at most the first one goes.
LEMMA ProcessInv ==
  ASSUME Inv, NEW d \in distributed, Process(d)
  PROVE  Inv'
  <1> DEFINE states == Append(record, State(d))
  <1>1. State(d) \in Kept /\ Good(State(d))
    BY StateGood DEF Inv, TypeOK
  <1>2. /\ record \in Seq(Kept) /\ Len(record) \in Nat /\ Len(record) <= MAX_STATES
        /\ MAX_STATES \in Nat \ {0}
    BY SenderKeysAssumption DEF SenderKeysAssumption, Inv, TypeOK
  <1>3. /\ states \in Seq(Kept) /\ Len(states) = Len(record) + 1
        /\ \A i \in 1..Len(record) : states[i] = record[i]
        /\ states[Len(record) + 1] = State(d)
    BY <1>1, <1>2
  <1>4. UNCHANGED <<own, used, sent, distributed, read, again, failures>>
    BY DEF Process, sender
  <1>5. \A i \in DOMAIN states : Good(states[i])
    BY <1>1, <1>2, <1>3 DEF Inv, Chains
  <1>6. CASE Len(states) > MAX_STATES
    <2>1. record' = Tail(states) /\ evicted' = evicted \cup {Head(states).key}
      BY <1>6 DEF Process
    <2>2. Len(record) >= 1 /\ Head(states) = record[1] /\ record[1].key \in Keys
      <3>1. 1 \in 1..Len(record)
        BY <1>2, <1>3, <1>6
      <3>2. states[1] = record[1] /\ record[1] \in Kept
        BY <1>2, <1>3, <3>1
      <3>3. Head(states) = states[1]
        BY <1>3
      <3> QED BY <3>1, <3>2, <3>3, <1>2 DEF Kept
    <2>3. /\ record' \in Seq(Kept) /\ Len(record') = Len(record)
          /\ \A i \in 1..Len(record) : record'[i] = states[i + 1]
      BY <1>2, <1>3, <2>1, <2>2
    <2> HIDE DEF states
    <2>4. TypeOK'
      BY <1>2, <1>4, <2>1, <2>2, <2>3 DEF Inv, TypeOK
    <2>5. Chains'
      <3>1. \A i \in 1..Len(record) : i + 1 \in DOMAIN states
        BY <1>2, <1>3
      <3>2. DOMAIN record' = 1..Len(record)
        BY <1>2, <2>3
      <3>3. \A i \in DOMAIN record' : Good(record'[i])
        BY <1>5, <2>3, <3>1, <3>2
      <3> QED BY <3>3 DEF Chains, Good
    <2>6. Spent'
      <3> SUFFICES ASSUME NEW m \in sent, m.text \in read, m.key \notin evicted, m.key # record[1].key
                   PROVE  \E i \in DOMAIN record' : First(i, m.key)' /\ m.iteration \in record'[i].gave
        BY <1>4, <2>1, <2>2 DEF Spent
      <3>1. PICK i \in DOMAIN record : First(i, m.key) /\ m.iteration \in record[i].gave
        BY DEF Inv, Spent
      <3>2. i \in 2..Len(record) /\ i - 1 \in 1..Len(record) /\ i - 1 \in Nat
        BY <3>1, <1>2 DEF First
      <3>3. record'[i - 1] = record[i]
        BY <1>3, <2>3, <3>2
      <3>4. ASSUME NEW j \in 1..(i - 1 - 1) PROVE record'[j].key # m.key
        <4>1. j \in 1..Len(record) /\ j + 1 \in 1..Len(record) /\ j + 1 \in 1..(i - 1)
          BY <1>2, <3>2
        <4>2. record'[j] = record[j + 1]
          BY <1>3, <2>3, <4>1
        <4> QED BY <3>1, <4>1, <4>2 DEF First
      <3>5. First(i - 1, m.key)'
        BY <3>1, <3>3, <3>4 DEF First
      <3> QED BY <1>2, <2>3, <3>1, <3>2, <3>3, <3>5
    <2> QED BY <1>4, <2>1, <2>4, <2>5, <2>6 DEF Inv, Numbered, ReadOnce
  <1>7. CASE ~(Len(states) > MAX_STATES)
    <2>1. record' = states /\ evicted' = evicted
      BY <1>7 DEF Process
    <2> HIDE DEF states
    <2>2. TypeOK'
      BY <1>2, <1>3, <1>4, <1>7, <2>1 DEF Inv, TypeOK
    <2>3. Chains'
      BY <1>5, <2>1 DEF Chains, Good
    <2>4. Spent'
      <3> SUFFICES ASSUME NEW m \in sent, m.text \in read, m.key \notin evicted
                   PROVE  \E i \in DOMAIN record' : First(i, m.key)' /\ m.iteration \in record'[i].gave
        BY <1>4, <2>1 DEF Spent
      <3>1. PICK i \in DOMAIN record : First(i, m.key) /\ m.iteration \in record[i].gave
        BY DEF Inv, Spent
      <3>2. i \in 1..Len(record) /\ i \in DOMAIN record'
        BY <1>2, <1>3, <2>1, <3>1
      <3>3. First(i, m.key)' /\ record'[i] = record[i]
        BY <1>2, <1>3, <2>1, <3>1, <3>2 DEF First
      <3> QED BY <3>1, <3>2, <3>3
    <2> QED BY <1>4, <2>1, <2>2, <2>3, <2>4 DEF Inv, Numbered, ReadOnce
  <1> QED BY <1>6, <1>7

\* A key is taken from the first state of its key, for a message that was not
\* read from it before; whether the message is then shown is up to the commit.
LEMMA TakeInv ==
  ASSUME Inv, NEW m \in sent, NEW i \in DOMAIN record, First(i, m.key), Opens(record[i], m.iteration),
         record' = [record EXCEPT ![i] = Taken(@, m.iteration)],
         UNCHANGED <<sender, evicted>>, failures' \in 0..MaxFailures,
         \/ read' = read \cup {m.text} /\ again' = again \cup ({m.text} \cap read)
         \/ read' = read /\ again' = again
  PROVE  Inv'
  <1>1. record \in Seq(Kept) /\ record[i] \in Kept /\ Good(record[i]) /\ m.iteration \in Nat
        /\ m.text \in Texts
    BY DEF Inv, TypeOK, Chains
  <1>2. /\ Taken(record[i], m.iteration) \in Kept /\ Good(Taken(record[i], m.iteration))
        /\ Taken(record[i], m.iteration).key = record[i].key
        /\ m.iteration \notin record[i].gave
        /\ Taken(record[i], m.iteration).gave = record[i].gave \cup {m.iteration}
    BY <1>1, TakenGood
  <1>3. PICK t : t = Taken(record[i], m.iteration)
    OBVIOUS
  <1>4. /\ t \in Kept /\ Good(t) /\ t.key = record[i].key
        /\ t.gave = record[i].gave \cup {m.iteration}
    BY <1>2, <1>3
  <1>5. record' = [record EXCEPT ![i] = t]
    BY <1>3
  <1>6. /\ record' \in Seq(Kept) /\ Len(record') = Len(record) /\ DOMAIN record' = DOMAIN record
        /\ record'[i] = t /\ \A j \in DOMAIN record : j # i => record'[j] = record[j]
    BY <1>1, <1>4, <1>5
  <1>7. UNCHANGED <<own, used, sent, distributed, evicted>>
    BY DEF sender
  <1>8. TypeOK'
    BY <1>1, <1>6, <1>7 DEF Inv, TypeOK
  <1>9. Chains'
    BY <1>4, <1>6 DEF Inv, Chains, Good
  <1>10. \A j \in DOMAIN record : record'[j].key = record[j].key /\ record[j].gave \subseteq record'[j].gave
    BY <1>4, <1>6
  <1>11. \A j \in DOMAIN record : \A k : First(j, k) <=> First(j, k)'
    BY <1>1, <1>6, <1>10 DEF First
  <1>12. \A j \in DOMAIN record : First(j, m.key) => j = i
    BY <1>1 DEF First
  <1>13. m.text \in read => m.key \in evicted
    BY <1>2, <1>12 DEF Inv, Spent
  <1>14. Numbered'
    BY <1>1, <1>7 DEF Inv, Numbered
  <1>15. Spent'
    <2> SUFFICES ASSUME NEW n \in sent, n.text \in read', n.key \notin evicted
                 PROVE  \E j \in DOMAIN record : First(j, n.key)' /\ n.iteration \in record'[j].gave
      BY <1>6, <1>7 DEF Spent
    <2>1. CASE n = m
      BY <1>4, <1>6, <1>11, <2>1
    <2>2. CASE n # m
      <3>1. n.text \in read
        BY <2>2 DEF Inv, Numbered
      <3>2. PICK j \in DOMAIN record : First(j, n.key) /\ n.iteration \in record[j].gave
        BY <3>1 DEF Inv, Spent
      <3> QED BY <3>2, <1>10, <1>11
    <2> QED BY <2>1, <2>2
  <1>16. ReadOnce'
    BY <1>7, <1>13 DEF Inv, ReadOnce, Numbered
  <1> QED BY <1>8, <1>9, <1>14, <1>15, <1>16 DEF Inv

-----------------------------------------------------------------------------
LEMMA StepInv == Inv /\ [Next]_vars => Inv'
  <1> SUFFICES ASSUME Inv, [Next]_vars PROVE Inv'
    OBVIOUS
  <1>1. failures \in 0..MaxFailures
    BY DEF Inv, TypeOK
  <1>2. CASE Encrypt
    <2>1. PICK s \in States, withKey \in BOOLEAN :
            Emit(s, withKey) /\ own' = [s EXCEPT !.iteration = NextIteration(s) + 1]
      BY <1>2 DEF Encrypt
    <2>2. own' \in Owned
      BY <2>1, StatesOwned DEF Inv, Owned, NextIteration
    <2> QED BY <1>1, <1>2, <2>1, <2>2, EmitInv DEF Encrypt
  <1>3. CASE EncryptFails
    <2>1. PICK s \in States, withKey \in BOOLEAN : Emit(s, withKey)
      BY <1>3 DEF EncryptFails
    <2>2. own' \in Owned \cup {NoState} /\ failures' \in 0..MaxFailures /\ UNCHANGED receiver
      BY <1>1, <1>3, SenderKeysAssumption DEF SenderKeysAssumption, EncryptFails, Inv, TypeOK
    <2> QED BY <2>1, <2>2, EmitInv
  <1>4. CASE Distribute \/ Rotate
    BY <1>4 DEF Distribute, Rotate, receiver, Inv, TypeOK, Chains, Good, Numbered, Spent, First, ReadOnce
  <1>5. ASSUME NEW d \in distributed, Process(d) PROVE Inv'
    BY <1>5, ProcessInv
  <1>6. ASSUME NEW m \in sent, Decrypt(m) PROVE Inv'
    <2>1. PICK i \in DOMAIN record :
            /\ First(i, m.key) /\ Opens(record[i], m.iteration)
            /\ record' = [record EXCEPT ![i] = Taken(@, m.iteration)]
      BY <1>6 DEF Decrypt
    <2> QED BY <1>1, <1>6, <2>1, TakeInv DEF Decrypt
  <1>7. ASSUME NEW m \in sent, DecryptFails(m) PROVE Inv'
    <2>1. PICK i \in DOMAIN record :
            /\ First(i, m.key) /\ Opens(record[i], m.iteration)
            /\ record' = [record EXCEPT ![i] = Taken(@, m.iteration)]
      BY <1>7 DEF DecryptFails
    <2>2. failures' \in 0..MaxFailures
      BY <1>1, <1>7, SenderKeysAssumption DEF SenderKeysAssumption, DecryptFails
    <2> QED BY <1>7, <2>1, <2>2, TakeInv DEF DecryptFails
  <1>8. CASE UNCHANGED vars
    BY <1>8 DEF vars, sender, receiver, Inv, TypeOK, Chains, Good, Numbered, Spent, First, ReadOnce
  <1> QED BY <1>2, <1>3, <1>4, <1>5, <1>6, <1>7, <1>8 DEF Next

LEMMA Invariance == Spec => []Inv
  BY InitInv, StepInv, PTL DEF Spec

\* Every variable keeps its type, and a record never has more than MAX_STATES
\* states.
THEOREM SenderKeysTypeOK == Spec => []TypeOK
  <1>1. Inv => TypeOK
    BY DEF Inv
  <1> QED BY <1>1, Invariance, PTL

\* Skipped keys make room in the order of their iterations, so that a message
\* among the MAX_MESSAGE_KEYS before the chain that was not read stays readable.
THEOREM SenderKeysLateReadable == Spec => []LateReadable
  <1>1. Inv => LateReadable
    BY DEF Inv, Chains, Good, LateReadable
  <1> QED BY <1>1, Invariance, PTL

\* No message is decrypted twice while no state of its key has been pushed out
\* of the record, though every distribution message adds another one.
THEOREM SenderKeysReadOnce == Spec => []ReadOnce
  <1>1. Inv => ReadOnce
    BY DEF Inv
  <1> QED BY <1>1, Invariance, PTL
=============================================================================
