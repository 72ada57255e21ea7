------------------------- MODULE MCOutboundMessages -------------------------
(* The instance of OutboundMessages that TLC checks.                       *)
EXTENDS OutboundMessages, TLC

Alike == Permutations(Receipts) \cup Permutations(Msgs \ Direct)
=============================================================================
