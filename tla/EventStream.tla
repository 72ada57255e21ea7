----------------------------- MODULE EventStream -----------------------------
(***************************************************************************)
(* What lib/Utils/event-buffer.js promises about messages.upsert: a message *)
(* emitted with a type reaches the listeners with that type, once, unless a *)
(* messages.delete withdrew it first.  Coalescing only delays it.           *)
(***************************************************************************)
CONSTANTS Keys,   \* message keys
          Types,  \* upsert types
          None

VARIABLES pending,  \* the type each undelivered message was emitted with
          out       \* what the last step handed to the listeners: keys and label

vars == <<pending, out>>
Quiet == [keys |-> {}, label |-> None]

Init == pending = [k \in Keys |-> None] /\ out = Quiet

Emit(k, t) ==
  /\ pending[k] \in {None, t}
  /\ pending' = [pending EXCEPT ![k] = t]
  /\ out' = Quiet

\* Coalesced delivery: everything pending under one type goes out together.
Deliver(t) ==
  LET batch == {k \in Keys : pending[k] = t}
  IN  /\ batch # {}
      /\ pending' = [k \in Keys |-> IF k \in batch THEN None ELSE pending[k]]
      /\ out' = [keys |-> batch, label |-> t]

\* Nothing is buffering: the message passes straight through.
Pass(k, t) == pending[k] = None /\ pending' = pending /\ out' = [keys |-> {k}, label |-> t]

Withdraw(k) == pending' = [pending EXCEPT ![k] = None] /\ out' = Quiet

Rest == pending' = pending /\ out' = Quiet

Next ==
  \/ \E k \in Keys, t \in Types : Emit(k, t) \/ Pass(k, t)
  \/ \E t \in Types : Deliver(t)
  \/ \E k \in Keys : Withdraw(k)
  \/ Rest

Spec == Init /\ [][Next]_vars
=============================================================================
