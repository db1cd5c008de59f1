-------------------------- MODULE MCLegacyDashboards --------------------------
(* Two dashboards: one with a namespace and a pod that depends on it, one  *)
(* with a namespace and an interval, which is also shown in a project.     *)
(* Namespaces are 1 and 2, pods and intervals the rest; both namespaces    *)
(* have the pod 5.                                                         *)
EXTENDS LegacyDashboards

MCBoards == <<"d1", "d2">>
MCVariables == [d1 |-> {"namespace", "pod"}, d2 |-> {"namespace", "interval"}]
MCTemplate ==
  [ namespace |-> [ type |-> "query", uses |-> "nothing", includeAll |-> FALSE, options |-> {},
                    selected |-> NoValue ],
    pod |-> [ type |-> "query", uses |-> "namespace", includeAll |-> TRUE, options |-> {},
              selected |-> NoValue ],
    interval |-> [ type |-> "interval", uses |-> "nothing", includeAll |-> FALSE,
                   options |-> {3, 4}, selected |-> 4 ] ]
Pods(v) == CASE v = 1 -> {3, 5} [] v = 2 -> {4, 5} [] v = All -> {3, 4, 5} [] OTHER -> {}
MCOffered ==
  [ namespace |-> [v \in Asked |-> {1, 2}], pod |-> [v \in Asked |-> Pods(v)],
    interval |-> [v \in Asked |-> {}] ]

Link(b, ns, pod, interval, p) ==
  [ board |-> b, params |-> [namespace |-> ns, pod |-> pod, interval |-> interval], project |-> p,
    refresh |-> 0, range |-> 0 ]
MCUrls ==
  { Link(NoBoard, NoValue, NoValue, NoValue, NoValue),
    Link("gone", NoValue, NoValue, NoValue, AllProjects),
    Link("d1", 2, 5, NoValue, AllProjects), Link("d1", 2, 3, NoValue, AllProjects),
    Link("d2", 2, NoValue, 3, 2), Link("d1", 2, All, NoValue, AllProjects) }

(* What the proof that the dropdowns are done assumes of the dashboards.   *)
ASSUME InstanceIsComplete == HasOptions /\ Grounded
=============================================================================
