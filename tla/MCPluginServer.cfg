\* Every combination of flags, two new certificates, one port found taken.
SPECIFICATION FairSpec
CONSTANTS
  Kinds = {"alertmanager", "thanos-querier"}
  Flags <- MCFlags
  BrokenPatches <- MCBrokenPatches
  MaxRotations = 2
  MaxFailures = 1
INVARIANTS TypeOK FeaturesHaveTheirReducer
PROPERTIES ServesCompletePairs ProxiesFollow NewCertificateIsServed
\* Refused flags end every start.
CHECK_DEADLOCK FALSE
