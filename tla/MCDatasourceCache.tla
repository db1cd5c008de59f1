-------------------------- MODULE MCDatasourceCache --------------------------
(* Small instances of DatasourceCache.                                     *)
EXTENDS DatasourceCache

(* The datasource x of the project dev and the default one of the project  *)
(* x-dev share a key, and no other two questions do.                       *)
OneName == {<<"x">>}
TwoProjects == {<<"dev">>, <<"x", "dev">>}
Default(project) == [scope |-> project, kind |-> "Prometheus", name |-> <<"x">>, default |-> TRUE]
TwoAlike == {Default(<<"x", "dev">>), [Default(<<"dev">>) EXCEPT !.default = FALSE]}
=============================================================================
