---------------------------- MODULE MCPluginServer ----------------------------
(* Flags with one feature of each group, the one for ACM and an unknown    *)
(* one; TLS versions that are unset, unknown, or do not form a range.      *)
EXTENDS PluginServer

MCFlags ==
  [ port       : {"plugin", "alertmanager"},
    cert       : BOOLEAN,
    key        : {TRUE},
    features   : SUBSET {"alerting", "acm-alerting", "unknown"},
    urls       : SUBSET Kinds,
    minVersion : {0, 13},
    maxVersion : {0, 11} ]

MCBrokenPatches == {{}, {"monitoring-console-plugin"}, {"alerting"}}
=============================================================================
