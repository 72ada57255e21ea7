------------------------------ MODULE SenderKeys ------------------------------
(***************************************************************************)
(* The sender key of one member of a group and its record at another       *)
(* (lib/Signal/Group, with the transactions of lib/Signal/libsignal.js):   *)
(* a chain of message keys, handed out by distribution messages that say   *)
(* where the chain is, and read in any order within limits.                *)
(*                                                                         *)
(* Every operation is one transaction of the store of its side, so one     *)
(* step.  The network and the server may reorder, repeat and lose what is  *)
(* sent.  Chain and message keys are their iteration; the records hold     *)
(* skipped keys in the order of their iterations, so a set has all of it.  *)
(* The receiver begins with no record, also under the legacy name that     *)
(* loadSenderKey tries on a miss (libsignal.js:543-549).                   *)
(***************************************************************************)
EXTENDS Naturals, Sequences, FiniteSets

CONSTANTS
  Keys, None,   \* sender key ids, which are random, and a value that is none
  MAX_STATES,         \* states in a record
  MAX_MESSAGE_KEYS,   \* skipped message keys in a state
  MaxAhead,     \* how far a chain is stepped for one message
  MaxSends,     \* bound on messages
  MaxFailures   \* bound on commits that give up

ASSUME SenderKeysAssumption ==
  /\ None \notin Keys
  /\ MAX_STATES \in Nat \ {0} /\ MAX_MESSAGE_KEYS \in Nat /\ MaxAhead \in Nat
  /\ MaxSends \in Nat /\ MaxFailures \in Nat

VARIABLES
  own,          \* the sender's state: its key and the iteration of its chain
  used,         \* keys that were ever made
  sent,         \* messages on the wire: the key, the iteration and which message
  distributed,  \* distribution messages on the wire, any number of each
  record,       \* the states at the receiver, oldest first
  read, again,  \* history: messages decrypted for the receiver, and those more than once
  evicted,      \* history: keys of states that were pushed out of the record
  failures

sender == <<own, used, sent, distributed>>
receiver == <<record, read, again, evicted>>
vars == <<sender, receiver, failures>>

NoState == [key |-> None, iteration |-> 0]
Texts == 1..MaxSends

Init ==
  /\ own = NoState /\ used = {} /\ sent = {} /\ distributed = {}
  /\ record = <<>> /\ read = {} /\ again = {} /\ evicted = {}
  /\ failures = 0

-----------------------------------------------------------------------------
(* The sender.                                                             *)

\* GroupSessionBuilder.create: the state there is, or one with a new key.
States == IF own = NoState THEN {[key |-> k, iteration |-> 0] : k \in Keys \ used} ELSE {own}

\* The first message of a chain has its iteration, a later one leaves one out.
NextIteration(s) == IF s.iteration = 0 THEN 0 ELSE s.iteration + 1

\* encryptGroupMessage and the send: the distribution message, which tells the
\* state before the message, goes to those who do not have the key.
Emit(s, withKey) ==
  /\ Cardinality(sent) < MaxSends
  /\ used' = used \cup {s.key}
  /\ sent' = sent \cup {[key |-> s.key, iteration |-> NextIteration(s), text |-> Cardinality(sent) + 1]}
  /\ distributed' = IF withKey THEN distributed \cup {s} ELSE distributed

Encrypt ==
  /\ \E s \in States, withKey \in BOOLEAN :
       Emit(s, withKey) /\ own' = [s EXCEPT !.iteration = NextIteration(s) + 1]
  /\ UNCHANGED <<receiver, failures>>

\* The transaction of the relay gives up when the stanza has gone.
EncryptFails ==
  /\ failures < MaxFailures /\ failures' = failures + 1
  /\ \E s \in States, withKey \in BOOLEAN : Emit(s, withKey)
  /\ UNCHANGED <<own, receiver>>

\* A resend after a retry receipt carries the key as it is now.
Distribute ==
  /\ own # NoState
  /\ distributed' = distributed \cup {own}
  /\ UNCHANGED <<own, used, sent, receiver, failures>>

\* External: a peer makes a new key when a member has left the group.
Rotate ==
  /\ own # NoState /\ own' = NoState
  /\ UNCHANGED <<used, sent, distributed, receiver, failures>>

-----------------------------------------------------------------------------
(* The receiver.                                                           *)

\* A state, with what its chain began with and whose keys it gave (history).
State(s) == [key |-> s.key, base |-> s.iteration, chain |-> s.iteration, kept |-> {}, gave |-> {}]

\* Mutant: no state is pushed out.
ProcessKeeps(d) ==
  /\ record' = Append(record, State(d))
  /\ UNCHANGED <<sender, read, again, evicted, failures>>

\* processSenderKeyDistributionMessage: always another state, also for a key
\* there is one of; the oldest is pushed out.
Process(d) ==
  /\ LET states == Append(record, State(d))
     IN  IF Len(states) > MAX_STATES
         THEN record' = Tail(states) /\ evicted' = evicted \cup {Head(states).key}
         ELSE record' = states /\ UNCHANGED evicted
  /\ UNCHANGED <<sender, read, again, failures>>

\* getSenderKeyState: the first with the key.
First(i, key) == record[i].key = key /\ \A j \in 1..(i - 1) : record[j].key # key

\* Mutant: the newest make room.
NewestDropped(keys) == {i \in keys : Cardinality({j \in keys : j < i}) < MAX_MESSAGE_KEYS}

\* addSenderMessageKey for each: the oldest make room.
Newest(keys) == {i \in keys : Cardinality({j \in keys : j > i}) < MAX_MESSAGE_KEYS}

\* Mutant: a kept key is used and stays.
TakenStays(s, i) ==
  IF i < s.chain THEN [s EXCEPT !.gave = @ \cup {i}]
  ELSE [s EXCEPT !.kept = Newest(@ \cup s.chain..(i - 1)), !.chain = i + 1, !.gave = @ \cup {i}]

\* getSenderKey for iteration i: a kept key is removed, else the chain is
\* stepped and the keys it passes are kept.
Opens(s, i) == IF i < s.chain THEN i \in s.kept ELSE i - s.chain <= MaxAhead
Taken(s, i) ==
  IF i < s.chain THEN [s EXCEPT !.kept = @ \ {i}, !.gave = @ \cup {i}]
  ELSE [s EXCEPT !.kept = Newest(@ \cup s.chain..(i - 1)), !.chain = i + 1, !.gave = @ \cup {i}]

Decrypt(m) ==
  /\ \E i \in DOMAIN record :
       /\ First(i, m.key) /\ Opens(record[i], m.iteration)
       /\ record' = [record EXCEPT ![i] = Taken(@, m.iteration)]
  /\ read' = read \cup {m.text} /\ again' = again \cup ({m.text} \cap read)
  /\ UNCHANGED <<sender, evicted, failures>>

\* The commit gives up, though it may have been written: nothing is shown.
DecryptFails(m) ==
  /\ failures < MaxFailures /\ failures' = failures + 1
  /\ \E i \in DOMAIN record :
       /\ First(i, m.key) /\ Opens(record[i], m.iteration)
       /\ record' = [record EXCEPT ![i] = Taken(@, m.iteration)]
  /\ UNCHANGED <<sender, read, again, evicted>>

Next ==
  \/ Encrypt \/ EncryptFails \/ Distribute \/ Rotate
  \/ \E d \in distributed : Process(d)
  \/ \E m \in sent : Decrypt(m) \/ DecryptFails(m)

Spec == Init /\ [][Next]_vars

-----------------------------------------------------------------------------
Owned == [key : Keys, iteration : Nat]
Kept == [key : Keys, base : Nat, chain : Nat, kept : SUBSET Nat, gave : SUBSET Nat]

\* The type invariant.
TypeOK ==
  /\ own \in Owned \cup {NoState} /\ used \subseteq Keys
  /\ sent \subseteq [key : Keys, iteration : Nat, text : Texts]
  /\ distributed \subseteq Owned
  /\ record \in Seq(Kept)
  /\ Len(record) <= MAX_STATES
  /\ read \subseteq Texts /\ again \subseteq Texts /\ evicted \subseteq Keys
  /\ failures \in 0..MaxFailures

\* A message is decrypted once, however often it and the distribution messages
\* come: as long as no state of its key was pushed out, a second state of the
\* key does not make the first one's past readable again.
ReadOnce == \A m \in sent : m.text \in again => m.key \in evicted

\* A message that comes late is readable as long as its key is among the
\* MAX_MESSAGE_KEYS before the chain, whatever was skipped or read in between.
LateReadable ==
  \A i \in DOMAIN record :
    LET s == record[i]
    IN  \A n \in s.base..(s.chain - 1) :
          n \notin s.gave /\ s.chain - n <= MAX_MESSAGE_KEYS => n \in s.kept
=============================================================================
