-------------------------- MODULE MCInboundMessages --------------------------
(* Instances of InboundMessages for TLC.  One message failing three times over  *)
(* (with a retry budget for two receipts and for none left); redeliveries of    *)
(* one message over two ways into its chat; a backlog that overflows; the      *)
(* stanzas that are turned away; and a history message that comes three times.  *)
EXTENDS InboundMessages
CONSTANTS m1, m2, c1, a1

Live(m, alt, ks) == [msg |-> m, chat |-> c1, alt |-> alt, offline |-> FALSE, kinds |-> ks]
Late(m, alt, ks) == [Live(m, alt, ks) EXCEPT !.offline = TRUE]
Enc == {"ok", "error"}
TurnedAway == {"ignored", "msmsg", "missingKeys", "excluded"}

MCTraffic ==
  {<<Live(m1, a1, Enc), Live(m1, a1, {"error"}), Live(m1, NoAlt, {"error"})>>,
   <<Live(m1, NoAlt, {"resend"}), Late(m1, NoAlt, {"resend"}), Late(m1, NoAlt, {"ok"})>>,
   <<Late(m1, NoAlt, {"excluded"}), Late(m2, a1, Enc), Late(m2, a1, {"ok"}),
     Live(m2, a1, {"ok"})>>,
   <<Live(m1, NoAlt, TurnedAway), Live(m2, a1, {"ok"}), Live(m2, a1, {"ok"})>>,
   <<Late(m1, NoAlt, {"history"}), Live(m1, a1, {"history"}),
     Live(m1, NoAlt, {"history", "error"})>>}
=============================================================================
