----------------------------- MODULE MCAlerting -----------------------------
(* Small instances of Alerting.                                            *)
EXTENDS Alerting, TLC

CONSTANTS a1, a2, r1, s1, s2, all, ns, prometheus, extension, t1, t2

(* One namespace that shows everything and, where there are two, one that  *)
(* shows a1 alone.                                                         *)
MCVisible == [k \in Keys |-> IF k = ns THEN Alerts \cap {a1} ELSE Alerts]

OneRule == [a \in Alerts |-> r1]

OneSource == [r \in Rules |-> prometheus]

(* s1 matches a1 alone, s2 matches every alert.                            *)
MCMatches == {<<s, a>> \in Silences \X Alerts : s = s2 \/ a = a1}

(* Thunks are interchangeable.                                             *)
SlotSymmetry == Permutations(Slots)
=============================================================================
