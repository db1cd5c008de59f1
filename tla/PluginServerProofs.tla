-------------------------- MODULE PluginServerProofs --------------------------
(***************************************************************************)
(* Proofs about PluginServer, for any proxies, flags, unusable patches and *)
(* number of certificates.                                                 *)
(***************************************************************************)
EXTENDS PluginServer, TLAPS

Manifests == SUBSET Patches

(* What a process that runs was made of: the manifest of its flags, and    *)
(* every listener they call for, starting or listening.                    *)
RunsAsConfigured ==
  process.phase = "up" =>
    /\ process.manifest = patchManifest(cfg.features)
    /\ process.starting \cup process.listening = {"plugin"} \cup Proxies(cfg)

(* The certificate served is not newer than the one loaded, which had its  *)
(* key; a key is never written before its certificate.                     *)
CertificatesInOrder ==
  /\ disk.key <= disk.cert
  /\ process.phase = "up" => process.served <= process.loaded /\ process.loaded <= disk.key

Processes ==
  [ phase : {"down", "up"}, manifest : Manifests, starting : SUBSET Listeners,
    listening : SUBSET Listeners, loaded : 0 .. MaxRotations + 1, served : 0 .. MaxRotations + 1 ]

(* The inductive invariant.                                                *)
SInv ==
  /\ TypeOK
  /\ process \in Processes
  /\ RunsAsConfigured
  /\ CertificatesInOrder

----------------------------------------------------------------------------
LEMMA DownType ==
  Down \in Processes /\ Down.phase = "down"
    /\ Down.manifest = {} /\ Down.starting = {} /\ Down.listening = {}
    /\ Down.loaded = 0 /\ Down.served = 0
BY BoundsAssumption DEF Down, Processes, Manifests

(* A process that is down owes nothing.                                    *)
LEMMA DownKeeps ==
  ASSUME SInv, process' = Down, failures' \in 0 .. MaxFailures, UNCHANGED <<cfg, broken, disk>>
  PROVE  SInv'
<1>1. TypeOK'
  BY DownType, BoundsAssumption DEF SInv, TypeOK
<1>2. process' \in Processes
  BY DownType
<1>3. RunsAsConfigured' /\ CertificatesInOrder'
  BY DownType DEF SInv, RunsAsConfigured, CertificatesInOrder
<1> QED
  BY <1>1, <1>2, <1>3 DEF SInv

LEMMA InitOK == Init => SInv
<1> SUFFICES ASSUME Init PROVE SInv
  OBVIOUS
<1>1. TypeOK
  BY DownType, BoundsAssumption DEF Init, TypeOK
<1>2. RunsAsConfigured /\ CertificatesInOrder
  BY DownType DEF Init, RunsAsConfigured, CertificatesInOrder
<1> QED
  BY <1>1, <1>2, DownType DEF SInv, Init

LEMMA ManifestType ==
  ASSUME NEW features
  PROVE  patchManifest(features) \in Manifests
BY DEF patchManifest, Manifests

LEMMA StartKeeps == ASSUME SInv, Start PROVE SInv'
<1> DEFINE loaded == IF IsTLSEnabled(cfg) THEN disk.cert ELSE 0
<1>1. process' = [ phase |-> "up", manifest |-> patchManifest(cfg.features),
                   starting |-> {"plugin"} \cup Proxies(cfg), listening |-> {},
                   loaded |-> loaded, served |-> 0 ]
  BY DEF Start
<1>2. loaded \in 0 .. MaxRotations + 1 /\ loaded <= disk.key
  BY BoundsAssumption DEF Start, CanLoadFiles, SInv, TypeOK
<1>3. Proxies(cfg) \subseteq Kinds
  BY DEF Proxies
<1> HIDE DEF loaded
<1>4. process' \in Processes
  BY <1>1, <1>2, <1>3, ManifestType, BoundsAssumption DEF Processes, Listeners
<1>5. UNCHANGED <<cfg, broken, disk, failures>>
  BY DEF Start
<1>6. TypeOK'
  BY <1>1, <1>4, <1>5 DEF SInv, TypeOK, Processes, Manifests
<1>7. RunsAsConfigured'
  BY <1>1, <1>5 DEF RunsAsConfigured, patchManifest, Proxies
<1>8. CertificatesInOrder'
  BY <1>1, <1>2, <1>5, BoundsAssumption DEF SInv, CertificatesInOrder, TypeOK
<1> QED
  BY <1>4, <1>6, <1>7, <1>8 DEF SInv

LEMMA StartFailsKeeps == ASSUME SInv, StartFails PROVE SInv'
<1>1. failures' \in 0 .. MaxFailures /\ UNCHANGED <<cfg, broken, disk, process>>
  BY BoundsAssumption DEF StartFails, SInv, TypeOK
<1> QED
  BY <1>1 DEF SInv, TypeOK, RunsAsConfigured, CertificatesInOrder, patchManifest, Proxies

LEMMA ListenKeeps == ASSUME SInv, NEW l \in Listeners, Listen(l) PROVE SInv'
<1>1. process' = [process EXCEPT !.starting = process.starting \ {l},
                                 !.listening = process.listening \cup {l}]
      /\ l \in process.starting /\ UNCHANGED <<cfg, broken, disk, failures>>
  BY DEF Listen
<1>2. process' \in Processes
  BY <1>1 DEF SInv, Processes
<1>3. TypeOK'
  BY <1>1, <1>2 DEF SInv, TypeOK, Processes
<1>4. RunsAsConfigured'
  BY <1>1 DEF SInv, RunsAsConfigured, Processes, patchManifest, Proxies
<1>5. CertificatesInOrder'
  BY <1>1 DEF SInv, CertificatesInOrder, Processes
<1> QED
  BY <1>2, <1>3, <1>4, <1>5 DEF SInv

LEMMA ListenFailsKeeps == ASSUME SInv, NEW l \in Listeners, ListenFails(l) PROVE SInv'
<1>1. failures' \in 0 .. MaxFailures
  BY BoundsAssumption DEF ListenFails, SInv, TypeOK
<1> QED
  BY <1>1, DownKeeps DEF ListenFails

(* Steps that only replace files or certificates.                          *)
LEMMA DiskKeeps ==
  ASSUME SInv, RotateCert \/ RotateKey
  PROVE  SInv'
<1>1. disk' \in [cert : 1 .. MaxRotations + 1, key : 1 .. MaxRotations + 1]
      /\ disk'.key <= disk'.cert /\ disk.key <= disk'.key
  BY BoundsAssumption DEF RotateCert, RotateKey, SInv, TypeOK, CertificatesInOrder
<1>2. UNCHANGED <<cfg, broken, process, failures>>
  BY DEF RotateCert, RotateKey
<1>3. TypeOK'
  BY <1>1, <1>2 DEF SInv, TypeOK
<1>4. RunsAsConfigured'
  BY <1>2 DEF SInv, RunsAsConfigured, patchManifest, Proxies
<1>5. CertificatesInOrder'
  BY <1>1, <1>2, BoundsAssumption DEF SInv, TypeOK, CertificatesInOrder
<1> QED
  BY <1>2, <1>3, <1>4, <1>5 DEF SInv

LEMMA ReloadFilesKeeps == ASSUME SInv, ReloadFiles PROVE SInv'
<1>1. process' = [process EXCEPT !.loaded = disk.cert] /\ disk.cert = disk.key
      /\ process.phase = "up" /\ UNCHANGED <<cfg, broken, disk, failures>>
  BY DEF ReloadFiles
<1>2. process' \in Processes
  BY <1>1, BoundsAssumption DEF SInv, TypeOK, Processes
<1>3. TypeOK'
  BY <1>1, <1>2 DEF SInv, TypeOK, Processes
<1>4. RunsAsConfigured'
  BY <1>1 DEF SInv, RunsAsConfigured, Processes, patchManifest, Proxies
<1>5. CertificatesInOrder'
  BY <1>1, BoundsAssumption DEF SInv, TypeOK, CertificatesInOrder, Processes
<1> QED
  BY <1>2, <1>3, <1>4, <1>5 DEF SInv

LEMMA ServeReloadedKeeps == ASSUME SInv, ServeReloaded PROVE SInv'
<1>1. process' = [process EXCEPT !.served = process.loaded]
      /\ UNCHANGED <<cfg, broken, disk, failures>>
  BY DEF ServeReloaded
<1>2. process' \in Processes
  BY <1>1 DEF SInv, Processes
<1>3. TypeOK'
  BY <1>1, <1>2 DEF SInv, TypeOK, Processes
<1>4. RunsAsConfigured'
  BY <1>1 DEF SInv, RunsAsConfigured, Processes, patchManifest, Proxies
<1>5. CertificatesInOrder'
  BY <1>1, BoundsAssumption DEF SInv, TypeOK, CertificatesInOrder, Processes
<1> QED
  BY <1>2, <1>3, <1>4, <1>5 DEF SInv

LEMMA NextKeeps == ASSUME SInv, [Next]_vars PROVE SInv'
<1>1. CASE UNCHANGED vars
  BY <1>1 DEF vars, SInv, TypeOK, RunsAsConfigured, CertificatesInOrder, patchManifest, Proxies
<1> QED
  BY <1>1, StartKeeps, StartFailsKeeps, ListenKeeps, ListenFailsKeeps, DiskKeeps, ReloadFilesKeeps, ServeReloadedKeeps
  DEF Next, ListenAny

----------------------------------------------------------------------------
(* Theorems                                                                *)

(* However processes fail and start again, one that runs has the manifest  *)
(* of its flags and every listener they call for, starting or listening,   *)
(* and certificates that are never ahead of their keys (CreateServer).     *)
THEOREM ServerInvariant == Spec => []SInv
BY InitOK, NextKeeps, PTL DEF Spec

(* The server, its files and its flags are well typed.                     *)
COROLLARY ServerTypeCorrect == Spec => []TypeOK
BY ServerInvariant, PTL DEF SInv

(* Every enabled feature that can be patched in is in the manifest, no     *)
(* other, and each with the reducer of its group (patchManifest), for any  *)
(* flags and any set of patches that cannot be used.                       *)
THEOREM ManifestIsComplete == Spec => []FeaturesHaveTheirReducer
<1>1. SInv => FeaturesHaveTheirReducer
  <2> SUFFICES ASSUME SInv, process.phase = "up" PROVE FeaturesHaveTheirReducer
    BY DEF FeaturesHaveTheirReducer
  <2> DEFINE pages == process.manifest \cap (MpFeatures \cup McpFeatures)
  <2>1. process.manifest = patchManifest(cfg.features)
    BY DEF SInv, RunsAsConfigured
  <2>2. cfg.features \subseteq MpFeatures \cup McpFeatures \cup {"unknown"}
    BY FlagsAssumption DEF SInv, TypeOK
  <2>3. "unknown" \notin MpFeatures \cup McpFeatures
        /\ "monitoring-plugin" \notin MpFeatures \cup McpFeatures
        /\ "monitoring-console-plugin" \notin MpFeatures \cup McpFeatures
    BY DEF MpFeatures, McpFeatures
  <2>4. \A p : p \in process.manifest <=> p \in Patches /\ Enabled(p, cfg.features) /\ p \notin broken
    BY <2>1 DEF patchManifest
  <2>5. \A p \in MpFeatures \cup McpFeatures : Enabled(p, cfg.features) <=> p \in cfg.features
    BY <2>3 DEF Enabled
  <2>6. pages = (cfg.features \ broken) \ {"unknown"}
    BY <2>2, <2>3, <2>4, <2>5 DEF Patches
  <2>7. "monitoring-plugin" \in process.manifest \cup broken \/ pages \subseteq McpFeatures
    BY <2>4, <2>5, <2>6 DEF Patches, Enabled
  <2>8. "monitoring-console-plugin" \in process.manifest \cup broken \/ pages \subseteq MpFeatures
    BY <2>4, <2>5, <2>6 DEF Patches, Enabled
  <2> QED
    BY <2>6, <2>7, <2>8 DEF FeaturesHaveTheirReducer
<1> QED
  BY <1>1, ServerInvariant, PTL

(* No connection ever gets a certificate that was never on disk with its   *)
(* key, nor one older than an earlier connection to the same process got,  *)
(* whatever the number of certificates (the dynamic certificates).         *)
THEOREM CertificatesAdvance == Spec => ServesCompletePairs
<1> DEFINE Step ==
      /\ process'.phase = "up" => process'.served <= process'.loaded /\ process'.loaded <= disk'.key
      /\ process.phase = "up" /\ process'.phase = "up" => process.served <= process'.served
<1>1. ASSUME SInv, [Next]_vars PROVE [Step]_vars
  <2> SUFFICES ASSUME Next PROVE Step
    BY <1>1
  <2>1. SInv'
    BY <1>1, NextKeeps
  <2>2. process'.phase = "up" => process'.served <= process'.loaded /\ process'.loaded <= disk'.key
    BY <2>1 DEF SInv, CertificatesInOrder
  <2>3. ASSUME process.phase = "up", process'.phase = "up"
        PROVE  process.served <= process'.served
    <3>1. process.served \in Nat /\ process.loaded \in Nat /\ process.served <= process.loaded
      BY <1>1, <2>3, BoundsAssumption DEF SInv, Processes, CertificatesInOrder
    <3>2. process.served = process'.served \/ process'.served = process.loaded
      BY <1>1, <2>3, DownType DEF Next, Start, StartFails, ListenAny, Listen, ListenFails, RotateCert,
                                  RotateKey, ReloadFiles, ServeReloaded, SInv, Processes
    <3> QED
      BY <3>1, <3>2
  <2> QED
    BY <2>2, <2>3
<1> QED
  BY <1>1, ServerInvariant, PTL DEF Spec, ServesCompletePairs
=============================================================================
