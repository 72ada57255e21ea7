----------------------------- MODULE FrameStream -----------------------------
(***************************************************************************)
(* What the transport promises the socket: the frames of the server, each  *)
(* once and in the order it sent them, but for those that cannot be        *)
(* decoded; as long as there is none of these, and no listener has thrown, *)
(* every frame that has come is delivered.                                 *)
(***************************************************************************)
EXTENDS Naturals, Sequences, FiniteSets

CONSTANT Frames   \* the number of frames the server sends

VARIABLES
  arrived,        \* how many have come completely
  out,            \* those delivered
  bad,            \* those that could not be decoded
  threw           \* the socket has thrown over one

vars == <<arrived, out, bad, threw>>

Init == arrived = 0 /\ out = <<>> /\ bad = {} /\ threw = FALSE

Due == Len(out) + Cardinality(bad) + 1

Arrive == arrived' \in (arrived + 1)..Frames /\ UNCHANGED <<out, bad, threw>>
Deliver ==
  /\ Due <= arrived /\ out' = Append(out, Due)
  /\ threw' \in {threw, TRUE} /\ UNCHANGED <<arrived, bad>>
Refuse == Due <= arrived /\ bad' = bad \cup {Due} /\ UNCHANGED <<arrived, out, threw>>

Next == Arrive \/ Deliver \/ Refuse

Spec == Init /\ [][Next]_vars /\ WF_vars(bad = {} /\ ~threw /\ Deliver)
=============================================================================
