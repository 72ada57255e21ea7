---------------------------- MODULE MCLidMapping ----------------------------
(* The instance of LidMapping that TLC checks: a LID that has changed hands. *)
EXTENDS LidMapping

CONSTANTS p1, p2, l1

\* Both PNs are announced with the one LID.
Pairs == {<<p1, l1>>, <<p2, l1>>}
=============================================================================
