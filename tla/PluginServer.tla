----------------------------- MODULE PluginServer -----------------------------
(***************************************************************************)
(* The backend of the plugin (cmd/plugin-backend.go, pkg/server,           *)
(* pkg/monitoring): what it makes of its flags, the manifest it patches,   *)
(* its listeners, of which two are proxies in ACM mode, and the serving    *)
(* certificate, which is replaced on disk while the server runs.  Each     *)
(* listener has a goroutine of its own; one that fails panics and takes    *)
(* the process down, and the kubelet starts it again.                      *)
(***************************************************************************)
EXTENDS Naturals, FiniteSets

CONSTANTS
  Kinds,          \* alertmanager and thanos-querier: the proxies
  Flags,          \* the flags the process may be started with
  BrokenPatches,  \* sets of patch files that may be missing or not apply
  MaxRotations,   \* bound: certificates issued
  MaxFailures     \* bound: starts that fail and ports found taken

MpFeatures == {"alerting", "legacy-dashboards", "metrics", "targets"}
McpFeatures == {"acm-alerting", "cluster-health-analyzer", "perses-dashboards"}
Patches == MpFeatures \cup McpFeatures \cup {"monitoring-plugin", "monitoring-console-plugin"}
Versions == {0, 11, 12, 13}      \* of TLS; 0 is none given

ASSUME FlagsAssumption ==
  Flags \subseteq
    [ port       : {"plugin"} \cup Kinds,
      cert       : BOOLEAN,
      key        : BOOLEAN,
      features   : SUBSET (MpFeatures \cup McpFeatures \cup {"unknown"}),
      urls       : SUBSET Kinds,
      minVersion : Versions,
      maxVersion : Versions ]
ASSUME PatchesAssumption == BrokenPatches \subseteq SUBSET Patches
ASSUME BoundsAssumption == "plugin" \notin Kinds /\ MaxRotations \in Nat /\ MaxFailures \in Nat

VARIABLES
  cfg,            \* the flags, the same at every start
  broken,         \* the patch files that cannot be used
  disk,           \* versions of the certificate and of the key on disk
  process,        \* the server process; of the certificates, 0 is none
  failures

vars == <<cfg, broken, disk, process, failures>>

Listeners == {"plugin"} \cup Kinds

Down == [ phase |-> "down", manifest |-> {}, starting |-> {}, listening |-> {},
          loaded |-> 0, served |-> 0 ]

TypeOK ==
  /\ cfg \in Flags
  /\ broken \in BrokenPatches
  /\ disk \in [cert : 1 .. MaxRotations + 1, key : 1 .. MaxRotations + 1]
  /\ process.phase \in {"down", "up"}
  /\ process.manifest \subseteq Patches
  /\ process.starting \subseteq Listeners
  /\ process.listening \subseteq Listeners \ process.starting
  /\ process.loaded \in 0 .. MaxRotations + 1
  /\ process.served \in 0 .. MaxRotations + 1
  /\ failures \in 0 .. MaxFailures

----------------------------------------------------------------------------
(* Flags                                                                   *)

(* An unknown version is taken as TLS 1.2.                                 *)
parseTLSVersion(version) == IF version = 11 THEN 12 ELSE version

MinVersion(c) ==
  IF parseTLSVersion(c.minVersion) = 0 THEN 12 ELSE parseTLSVersion(c.minVersion)

IsTLSEnabled(c) == c.cert /\ c.key
AcmMode(c) == "acm-alerting" \in c.features

(* The checks of createHTTPServer; any feature will do, one URL will do.   *)
ConfigAccepted(c) ==
  /\ c.features # {}
  /\ c.urls # {} <=> AcmMode(c)
  /\ c.port \notin Kinds
  /\ IsTLSEnabled(c) /\ c.maxVersion # 0 => MinVersion(c) <= parseTLSVersion(c.maxVersion)

----------------------------------------------------------------------------
(* The manifest                                                            *)

(* Mutant: the reducer of the console plugin is only patched in for Perses *)
(* and the health analyzer.                                                *)
EnabledWithoutAcm(p, features) ==
  \/ p \in features
  \/ p = "monitoring-plugin" /\ features \cap MpFeatures # {}
  \/ p = "monitoring-console-plugin" /\ features \cap (McpFeatures \ {"acm-alerting"}) # {}

(* A patch for each feature, and one with the reducer for each group.      *)
Enabled(p, features) ==
  \/ p \in features
  \/ p = "monitoring-plugin" /\ features \cap MpFeatures # {}
  \/ p = "monitoring-console-plugin" /\ features \cap McpFeatures # {}

(* performPatch: a patch that fails leaves the manifest as it was.  All of *)
(* them insert at the front, so their order makes no difference.           *)
patchManifest(features) == {p \in Patches : Enabled(p, features) /\ p \notin broken}

----------------------------------------------------------------------------
Init ==
  /\ cfg \in Flags
  /\ broken \in BrokenPatches
  /\ disk = [cert |-> 1, key |-> 1]
  /\ process = Down
  /\ failures = 0

(* startProxy is only reached with TLS.                                    *)
Proxies(c) == IF AcmMode(c) /\ IsTLSEnabled(c) THEN Kinds ELSE {}

CanLoadFiles == IsTLSEnabled(cfg) => disk.cert = disk.key

(* main, CreateServer: with flags that are refused, or a certificate that  *)
(* does not fit its key, the process ends before it listens.               *)
Start ==
  /\ process.phase = "down"
  /\ ConfigAccepted(cfg)
  /\ CanLoadFiles
  /\ process' = [ phase |-> "up", manifest |-> patchManifest(cfg.features),
                  starting |-> {"plugin"} \cup Proxies(cfg), listening |-> {},
                  loaded |-> IF IsTLSEnabled(cfg) THEN disk.cert ELSE 0, served |-> 0 ]
  /\ UNCHANGED <<cfg, broken, disk, failures>>

(* For ACM the process also needs the cluster's own configuration, and     *)
(* each proxy a certificate authority it can read (createProxy): without   *)
(* them it ends before the server of the plugin listens.                   *)
StartFails ==
  /\ process.phase = "down"
  /\ ConfigAccepted(cfg) /\ AcmMode(cfg)
  /\ failures < MaxFailures
  /\ failures' = failures + 1
  /\ UNCHANGED <<cfg, broken, disk, process>>

(* Mutant: a listener stays among those that are starting.                 *)
ListenAgain(l) ==
  /\ l \in process.starting \ process.listening
  /\ CanLoadFiles
  /\ process' = [process EXCEPT !.listening = @ \cup {l}]
  /\ UNCHANGED <<cfg, broken, disk, failures>>

(* ListenAndServe or ListenAndServeTLS of one listener; the latter reads   *)
(* the files once more.                                                    *)
Listen(l) ==
  /\ l \in process.starting
  /\ CanLoadFiles
  /\ process' = [process EXCEPT !.starting = @ \ {l}, !.listening = @ \cup {l}]
  /\ UNCHANGED <<cfg, broken, disk, failures>>

(* Mutant: a proxy that cannot listen only ends its goroutine.             *)
ListenFailsQuietly(l) ==
  /\ l \in process.starting
  /\ failures < MaxFailures
  /\ failures' = failures + 1
  /\ process' = IF l = "plugin" THEN Down ELSE [process EXCEPT !.starting = @ \ {l}]
  /\ UNCHANGED <<cfg, broken, disk>>

(* Its port is taken, or the files do not fit any more: panic.             *)
ListenFails(l) ==
  /\ l \in process.starting
  /\ \/ ~CanLoadFiles /\ failures' = failures
     \/ failures < MaxFailures /\ failures' = failures + 1
  /\ process' = Down
  /\ UNCHANGED <<cfg, broken, disk>>

(* A new certificate is written, and then its key.                         *)
RotateCert ==
  /\ disk.cert = disk.key /\ disk.cert <= MaxRotations
  /\ disk' = [disk EXCEPT !.cert = @ + 1]
  /\ UNCHANGED <<cfg, broken, process, failures>>

RotateKey ==
  /\ disk.key < disk.cert
  /\ disk' = [disk EXCEPT !.key = disk.cert]
  /\ UNCHANGED <<cfg, broken, process, failures>>

(* Mutant: the pair is not checked.                                        *)
ReloadUnchecked ==
  /\ process.phase = "up" /\ IsTLSEnabled(cfg)
  /\ process.loaded # disk.cert
  /\ process' = [process EXCEPT !.loaded = disk.cert]
  /\ UNCHANGED <<cfg, broken, disk, failures>>

(* certKeyPair.Run: a pair that does not fit is read again later.          *)
ReloadFiles ==
  /\ process.phase = "up" /\ IsTLSEnabled(cfg)
  /\ disk.cert = disk.key /\ process.loaded # disk.cert
  /\ process' = [process EXCEPT !.loaded = disk.cert]
  /\ UNCHANGED <<cfg, broken, disk, failures>>

(* Mutant: the controller is told of the first change only.                *)
ServeFirstReload ==
  /\ process.phase = "up" /\ process.served < process.loaded /\ process.served = 0
  /\ process' = [process EXCEPT !.served = process.loaded]
  /\ UNCHANGED <<cfg, broken, disk, failures>>

(* ctrl.Run, at first and when notified by certKeyPair: new connections,   *)
(* to every listener, get the certificate that was loaded.                 *)
ServeReloaded ==
  /\ process.phase = "up" /\ process.served # process.loaded
  /\ process' = [process EXCEPT !.served = process.loaded]
  /\ UNCHANGED <<cfg, broken, disk, failures>>

ListenAny == \E l \in Listeners : Listen(l)
Next ==
  \/ Start \/ StartFails \/ ListenAny \/ \E l \in Listeners : ListenFails(l)
  \/ RotateCert \/ RotateKey \/ ReloadFiles \/ ServeReloaded

Spec == Init /\ [][Next]_vars

(* The kubelet starts the process again, the scheduler runs every          *)
(* goroutine, and a key follows its certificate.                           *)
FairSpec ==
  /\ Spec
  /\ WF_vars(Start) /\ WF_vars(ListenAny)
  /\ WF_vars(RotateKey) /\ WF_vars(ReloadFiles) /\ WF_vars(ServeReloaded)

----------------------------------------------------------------------------
(* Properties                                                              *)

Listening(l) == process.phase = "up" /\ l \in process.listening

(* The manifest has every enabled feature whose patch can be used, none    *)
(* that is not enabled, and with each the reducer of its group, if that    *)
(* can be used (patchManifest).                                            *)
FeaturesHaveTheirReducer ==
  process.phase = "up" =>
    LET pages == process.manifest \cap (MpFeatures \cup McpFeatures)
    IN  /\ pages = (cfg.features \ broken) \ {"unknown"}
        /\ "monitoring-plugin" \in process.manifest \cup broken \/ pages \subseteq McpFeatures
        /\ "monitoring-console-plugin" \in process.manifest \cup broken \/ pages \subseteq MpFeatures

(* What TLS connections are served is a certificate that was once on disk  *)
(* with its key, and never one older than what an earlier connection to    *)
(* the same process got (the dynamic certificates).                        *)
ServesCompletePairs ==
  [][/\ process'.phase = "up" => process'.served <= process'.loaded /\ process'.loaded <= disk'.key
     /\ process.phase = "up" /\ process'.phase = "up" => process.served <= process'.served]_vars

(* A server that answers for the plugin in ACM mode over TLS soon has both *)
(* proxies, unless the process ends (startProxy).                          *)
ProxiesFollow ==
  Listening("plugin") /\ AcmMode(cfg) /\ IsTLSEnabled(cfg)
    ~> process.phase = "down" \/ \A k \in Kinds : Listening(k)

(* However a certificate is replaced, a server that uses TLS serves the    *)
(* newest one in the end, on every listener (the dynamic certificates).    *)
NewCertificateIsServed ==
  <>[](process.phase = "up" /\ IsTLSEnabled(cfg)
         => process.served = disk.cert /\ disk.cert = disk.key)
=============================================================================
