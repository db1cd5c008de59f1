-------------------------- MODULE MCPersesDashboards --------------------------
(* Two dashboards of a project that is a namespace, another project that   *)
(* is not one and has none, and two panels, which both may be handed over. *)
EXTENDS PersesDashboards

CONSTANTS d1, d2, ns, perses

MCProjectOf == [b \in Boards |-> ns]
=============================================================================
