----------------------------- MODULE MCIncidents -----------------------------
(* Small instances of Incidents: e fires and has samples in every span, d  *)
(* is resolved and has samples in the longer one only.                     *)
EXTENDS Incidents

CONSTANTS d, e, day, week

MCWithin == [x \in Days |-> IF x = day THEN Groups \ {d} ELSE Groups]
MCFiring == Groups \ {d}
=============================================================================
