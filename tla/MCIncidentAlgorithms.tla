------------------------- MODULE MCIncidentAlgorithms -------------------------
(* Two alerts of one incident, in two components, of which one query can   *)
(* only ask for one, and the Watchdog; a span of two days of two steps.    *)
EXTENDS IncidentAlgorithms

MCAlerts == <<
  [src |-> "api", label |-> "", group |-> "g", component |-> "compute",
   severity |-> 1, length |-> 40],
  [src |-> "disk", label |-> "kubelet", group |-> "g", component |-> "storage",
   severity |-> 2, length |-> 57],
  [src |-> "Watchdog", label |-> "", group |-> "w", component |-> "monitoring",
   severity |-> 0, length |-> 40] >>

Critical == <<"Critical">>
Warning == <<"Warning">>

(* The links at the end are not of the page: with several incidents, with  *)
(* one that does not exist, and with an empty value.                       *)
MCFilters ==
  [ days : {<< <<"1 day">> >>},
    severity : {<<>>, <<Critical>>, <<Warning, Critical>>, << <<"">> >>},
    state : {<<>>, << <<"Firing">> >>, << <<"Resolved">>, <<"Firing">> >>},
    groupId : {<<>>, << <<"g">> >>, << <<"g">>, <<"w">> >>, << <<"w">>, <<"g">> >>, << <<"">> >>} ]
=============================================================================
