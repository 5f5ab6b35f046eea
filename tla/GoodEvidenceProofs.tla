-------------------------- MODULE GoodEvidenceProofs --------------------------
(*****************************************************************************)
(* The gate is no stricter than it has to be: a strict preflight that reaches *)
(* the validation of its inputs with good evidence for its build is accepted, *)
(* for every build matrix a release can be made from, and every policy.       *)
(*                                                                           *)
(* The invariant says where a preflight's inputs come from and that a refused *)
(* one was refused by the validation (AcceptInv).  The rest is about one      *)
(* state: each validator accepts what its collector writes, when it is asked  *)
(* about the build it was collected from and before it expires.               *)
(*****************************************************************************)
EXTENDS ReleaseEvidenceProofs

-------------------------------------------------------------------------------
(* Where the inputs of a preflight come from *)

\* A strict preflight works on a staged bundle of its own version, commit, run
\* and attempt, collected and staged earlier.
Sourced(p, day) ==
    p.profile \in Strict =>
        /\ ProfileAllowed(p.profile, p.version)
        /\ p.staged.sha = p.sha /\ p.staged.run = p.run /\ p.staged.attempt = p.attempt
        /\ p.staged.at \in 0..day /\ p.staged.bundle.origin.at \in 0..day

Passes(p) ==
    ValidateReleaseInputs(Workspace(p), p.profile, p.version, p.sha, p.run, p.attempt, p.at)

AcceptInv ==
    /\ bundle.count > 0 => bundle.origin.at \in 0..now
    /\ \A q \in staged : q.at \in 0..now /\ q.bundle.origin.at \in 0..now
    /\ preflight.step # "idle" => Sourced(preflight, now)
    /\ preflight.step = "refused" => preflight.at \in 0..now /\ ~Passes(preflight)

\* The invariant holds initially.
LEMMA AcceptInit ==
    ASSUME Init
    PROVE  AcceptInv
  BY DEF Init, AcceptInv, NoBundle, Idle

\* Workspace: what a job works on depends on what it downloaded and when, not on
\* how far it is.
LEMMA WorkspaceOf ==
    ASSUME NEW p, NEW q,
           \A x \in {"profile", "version", "sha", "run", "attempt", "staged", "files", "contract",
                     "id", "at"} : p[x] = q[x]
    PROVE  Workspace(p) = Workspace(q) /\ Passes(p) = Passes(q)
  <1>1. /\ p.profile = q.profile /\ p.version = q.version /\ p.sha = q.sha /\ p.run = q.run
        /\ p.attempt = q.attempt /\ p.staged = q.staged /\ p.files = q.files
        /\ p.contract = q.contract /\ p.id = q.id /\ p.at = q.at
    OBVIOUS
  <1>2. Workspace(p) = Workspace(q)
    BY <1>1 DEF Workspace
  <1> QED BY <1>1, <1>2 DEF Passes

\* Time only passes.
LEMMA SourcedLater ==
    ASSUME NEW p, NEW day \in Nat, NEW later \in Nat, day <= later, Sourced(p, day)
    PROVE  Sourced(p, later)
  BY DEF Sourced

\* Steps that leave bundles and preflights alone, and take no time back.
LEMMA AcceptLater ==
    ASSUME AcceptInv, now \in Nat, now' \in Nat, now <= now',
           UNCHANGED <<bundle, staged, preflight>>
    PROVE  AcceptInv'
  <1>1. preflight'.step # "idle" => Sourced(preflight', now')
    BY SourcedLater DEF AcceptInv
  <1>2. preflight'.step = "refused" => preflight'.at \in 0..now' /\ ~Passes(preflight')
    BY DEF AcceptInv
  <1>3. bundle'.count > 0 => bundle'.origin.at \in 0..now'
    BY DEF AcceptInv
  <1>4. \A q \in staged' : q.at \in 0..now' /\ q.bundle.origin.at \in 0..now'
    BY DEF AcceptInv
  <1> QED BY <1>1, <1>2, <1>3, <1>4 DEF AcceptInv

\* A bundle is collected today, and staged as it is.
LEMMA AcceptOperator ==
    ASSUME AcceptInv, EvidenceInv, now \in Nat, OperatorStep
    PROVE  AcceptInv'
  <1>0. now' = now /\ preflight' = preflight
    BY OperatorFrame
  <1>1. ASSUME NEW v, NEW r, NEW kept, NEW flaw, AssembleBundle(v, r, kept, flaw)
        PROVE  AcceptInv'
    <2>1. staged' = staged /\ bundle'.origin.at = now
      BY <1>1 DEF AssembleBundle, OriginOf
    <2> QED BY <1>0, <2>1 DEF AcceptInv
  <1>2. ASSUME NEW r, StageEvidence(r)
        PROVE  AcceptInv'
    <2> DEFINE s == [bundle |-> bundle, version |-> bundle.version, sha |-> r, run |-> r,
                     attempt |-> runs[r].attempt, at |-> now]
    <2>1. bundle' = bundle /\ bundle.count > 0 /\ staged' = staged \cup {s}
      BY <1>2 DEF StageEvidence
    <2>2. s.at = now /\ s.bundle = bundle
      OBVIOUS
    <2> HIDE DEF s
    <2>3. \A q \in staged' : q.at \in 0..now' /\ q.bundle.origin.at \in 0..now'
      BY <1>0, <2>1, <2>2 DEF AcceptInv
    <2> QED BY <1>0, <2>1, <2>3 DEF AcceptInv
  <1>3. ASSUME NEW v, NEW c, NEW note, PushTag(v, c, note)
        PROVE  AcceptInv'
    BY <1>0, <1>3, AcceptLater DEF PushTag
  <1> QED BY <1>1, <1>2, <1>3 DEF OperatorStep

\* The preflight takes a staged bundle; only the validation refuses it.
LEMMA AcceptPreflight ==
    ASSUME AcceptInv, GateInv, now \in Nat, PreflightStep
    PROVE  AcceptInv'
  <1>0. UNCHANGED <<now, bundle, staged>>
    BY PreflightFrame
  <1>1. ASSUME NEW profile \in Profiles, NEW v, NEW r,
               NEW s \in IF profile \in Strict THEN staged ELSE {None},
               ResolveSource(profile, v, r, s)
        PROVE  AcceptInv'
    <2>1. /\ preflight'.profile = profile /\ preflight'.version = v /\ preflight'.staged = s
          /\ preflight'.sha = r /\ preflight'.run = r /\ preflight'.attempt = runs[r].attempt
          /\ preflight'.step = "resolved"
      BY <1>1 DEF ResolveSource, GateInv, PreflightOK, Idle
    <2>2. profile \in Strict =>
            s \in staged /\ s.sha = r /\ s.run = r /\ s.attempt = runs[r].attempt
      BY <1>1 DEF ResolveSource
    <2>3. ProfileAllowed(profile, v)
      BY <1>1 DEF ResolveSource
    <2>4. Sourced(preflight', now')
      BY <1>0, <2>1, <2>2, <2>3 DEF Sourced, AcceptInv
    <2> QED BY <1>0, <2>1, <2>4 DEF AcceptInv
  <1>2. ASSUME NEW lost, NEW seen, NEW after, NEW checks,
               BindArtifacts(lost, seen, after, checks)
        PROVE  AcceptInv'
    <2>1. /\ preflight'.profile = preflight.profile /\ preflight'.version = preflight.version
          /\ preflight'.staged = preflight.staged /\ preflight'.sha = preflight.sha
          /\ preflight'.run = preflight.run /\ preflight'.attempt = preflight.attempt
          /\ preflight.step = "resolved" /\ preflight'.step = "bound"
      BY <1>2 DEF BindArtifacts, GateInv, PreflightOK, Idle
    <2>2. Sourced(preflight', now')
      BY <1>0, <2>1 DEF Sourced, AcceptInv
    <2> QED BY <1>0, <2>1, <2>2 DEF AcceptInv
  <1>3. CASE FinishPreflight
    <2> DEFINE p == [preflight EXCEPT !.at = now]
               x == [p EXCEPT !.step = "refused"]
    <2>1. /\ p.profile = preflight.profile /\ p.version = preflight.version
          /\ p.staged = preflight.staged /\ p.sha = preflight.sha
          /\ p.run = preflight.run /\ p.attempt = preflight.attempt
          /\ p.at = now
      BY DEF GateInv, PreflightOK, Idle
    <2>2. /\ x.step = "refused"
          /\ \A f \in {"profile", "version", "sha", "run", "attempt", "staged", "files",
                       "contract", "id", "at"} : x[f] = p[f]
      BY DEF GateInv, PreflightOK, Idle
    <2>3. preflight.step = "bound"
      BY <1>3 DEF FinishPreflight
    <2>4. \/ preflight' = Idle(p.count)
          \/ preflight' = x /\ ~Passes(p)
      BY <1>3, <2>1 DEF FinishPreflight, Passes
    <2> HIDE DEF p, x
    <2>5. Passes(x) = Passes(p)
      BY <2>2, WorkspaceOf
    <2>6. Idle(p.count).step = "idle"
      BY DEF Idle
    <2>7. /\ x.profile = preflight.profile /\ x.version = preflight.version
          /\ x.staged = preflight.staged /\ x.sha = preflight.sha
          /\ x.run = preflight.run /\ x.attempt = preflight.attempt
          /\ x.at = now
      BY <2>1, <2>2
    <2>8. Sourced(x, now)
      BY <2>3, <2>7 DEF Sourced, AcceptInv
    <2>9. CASE preflight' = Idle(p.count)
      BY <1>0, <2>6, <2>9 DEF AcceptInv
    <2>10. CASE preflight' = x /\ ~Passes(p)
      BY <1>0, <2>2, <2>5, <2>7, <2>8, <2>10 DEF AcceptInv
    <2> QED BY <2>4, <2>9, <2>10
  <1>4. CASE PreflightFails
    BY <1>0, <1>4 DEF PreflightFails, AcceptInv, Idle
  <1> QED BY <1>1, <1>2, <1>3, <1>4 DEF PreflightStep

\* Every step preserves the invariant.
LEMMA AcceptStep ==
    ASSUME AcceptInv, EvidenceInv, GateInv, now \in Nat, now' \in Nat, [Next]_vars
    PROVE  AcceptInv'
  <1>1. CASE BuildStep
    <2>1. UNCHANGED <<now, bundle, staged, preflight>>
      BY <1>1 DEF BuildStep, PushMain, StartRerun, RebuildPart, FinishRerun
    <2> QED BY <2>1, AcceptLater
  <1>2. CASE TagStep
    BY <1>2, TagFrame, AcceptLater
  <1>3. ASSUME NEW days \in Pauses, Tick(days)
        PROVE  AcceptInv'
    BY <1>3, GateAssumption, AcceptLater DEF Tick
  <1>4. ASSUME NEW after, ChangeSettings(after)
        PROVE  AcceptInv'
    BY <1>4, AcceptLater DEF ChangeSettings
  <1>5. ASSUME NEW lost, NEW seen, NEW after, GovernanceDrift(lost, seen, after)
        PROVE  AcceptInv'
    BY <1>5, AcceptLater DEF GovernanceDrift
  <1>6. CASE UNCHANGED vars
    BY <1>6, AcceptLater DEF vars
  <1> QED BY <1>1, <1>2, <1>3, <1>4, <1>5, <1>6, AcceptOperator, AcceptPreflight DEF Next

\* The inputs of every preflight were collected before it, for its build, and
\* none is refused but by the validation.
THEOREM AcceptInvariance == Spec => []AcceptInv
  <1>1. Init => AcceptInv
    BY AcceptInit
  <1>2. TypeOK /\ TypeOK' => now \in Nat /\ now' \in Nat
    BY DEF TypeOK
  <1>3. AcceptInv /\ EvidenceInv /\ GateInv /\ TypeOK /\ TypeOK' /\ [Next]_vars => AcceptInv'
    BY <1>2, AcceptStep
  <1> QED BY <1>1, <1>3, GateInvariance, EvidenceInvariance, GateTypes, PTL DEF Spec

-------------------------------------------------------------------------------
(* Good evidence, seen by the validation *)

\* p is a strict preflight with good evidence for its build, validated on the day
\* p.at; the audit log is laid out as collect_audit writes it.
GoodSource(p) ==
    LET s == p.staged
        o == p.staged.bundle.origin IN
    /\ "audit-layout" \in Repairs
    /\ p.profile \in Strict /\ ProfileAllowed(p.profile, p.version)
    /\ s.bundle.flaw = NoFlaw /\ s.bundle.kept = {}
    /\ s.bundle.version = p.version /\ s.version = p.version
    /\ s.sha = p.sha /\ s.run = p.run /\ s.attempt = p.attempt
    /\ o.version = p.version /\ o.sha = p.sha /\ o.run = p.run
    /\ p.files = Files(p.run, o.made)
    /\ {p.at, s.at, o.at, IngressLife} \subseteq Nat /\ IngressLife > 0
    /\ p.at < o.at + CalibrationLife
    /\ p.at < o.at + RetentionLife
    /\ p.at < o.at + RiskLife
    /\ p.at < s.at + IngressLife

Origin(p) == p.staged.bundle.origin
ContextFor(p) == Context(Workspace(p), p.version, p.sha, p.run, p.at)

\* GoodEvidence and the invariants make a good source.
LEMMA GoodEvidenceSource ==
    ASSUME GateInv, EvidenceInv, AcceptInv, now \in Nat, "audit-layout" \in Repairs,
           preflight.step = "refused", preflight.profile \in Strict, GoodEvidence(preflight)
    PROVE  GoodSource(preflight)
  <1> DEFINE p == preflight
             s == preflight.staged
             o == preflight.staged.bundle.origin
  <1>1. /\ ProfileAllowed(p.profile, p.version)
        /\ s.sha = p.sha /\ s.run = p.run /\ s.attempt = p.attempt
        /\ s.at \in 0..now /\ o.at \in 0..now /\ p.at \in 0..now
    BY DEF AcceptInv, Sourced
  <1>2. s.version = p.version /\ s.version = s.bundle.version /\ BundleOK(s.bundle)
    BY DEF EvidenceInv, StrictOK, StagedOK
  <1>3. o.version = s.bundle.version /\ o.sha = o.run
    BY <1>2 DEF BundleOK
  <1>4. p.sha = p.run
    BY DEF GateInv, PreflightOK, Resolved
  <1>5. /\ CalibrationLife \in Nat /\ RetentionLife \in Nat /\ RiskLife \in Nat
        /\ IngressLife \in Nat
    BY EvidenceAssumption, IngressAssumption
  <1>6. /\ now < o.at + CalibrationLife /\ now < o.at + RetentionLife /\ now < o.at + RiskLife
        /\ now < s.at + IngressLife
        /\ o.run = p.run /\ p.files = Files(p.run, o.made)
        /\ s.bundle.flaw = NoFlaw /\ s.bundle.kept = {}
    BY DEF GoodEvidence
  <1>7. /\ p.at < o.at + CalibrationLife /\ p.at < o.at + RetentionLife /\ p.at < o.at + RiskLife
        /\ p.at < s.at + IngressLife /\ IngressLife > 0
    BY <1>1, <1>5, <1>6
  <1> QED BY <1>1, <1>2, <1>3, <1>4, <1>5, <1>6, <1>7 DEF GoodSource

\* An unflawed document of one origin is the collected one.
LEMMA GoodDocuments ==
    ASSUME NEW p, GoodSource(p)
    PROVE  /\ DOMAIN Documents(p.staged.bundle) = OperatorKeys(p.version)
           /\ \A k \in OperatorKeys(p.version) :
                Documents(p.staged.bundle)[k] = Collect(k, Origin(p))
  BY DEF GoodSource, Documents, Origin, NoFlaw

\* And is what the validators of a strict preflight find at its key.
LEMMA GoodDocs ==
    ASSUME NEW p, GoodSource(p), NEW k \in OperatorKeys(p.version)
    PROVE  k \in DOMAIN Workspace(p).docs /\ Workspace(p).docs[k] = Collect(k, Origin(p))
  BY GoodDocuments, WorkspaceDocs, KeysApart DEF GoodSource

-------------------------------------------------------------------------------
(* What the collectors write *)

\* A document that says so throughout: its outcomes, and the raw evidence.
Successful(d, t, o, items) ==
    /\ d.version = o.version /\ d.target = t /\ d.sha = o.sha /\ d.run = o.run
    /\ d.results = Passed(items) /\ d.raw = Passed(items)
    /\ d.files = TRUE /\ d.shape = "ok"

\* Collected: as a collector records it, and with what the collector adds.
LEMMA CollectedSuccessful ==
    ASSUME NEW t, NEW o, NEW items, NEW own
    PROVE  /\ Successful(Collected(t, o, items), t, o, items)
           /\ Successful(Over(Collected(t, o, items), own), t, o, items)
           /\ Successful(Over(SignStationBundle(Collected(t, o, items)), own), t, o, items)
  <1>1. Successful(Collected(t, o, items), t, o, items) /\ DOMAIN Collected(t, o, items) = Fields
    BY DEF Successful, Collected, Fields
  <1>2. /\ Successful(SignStationBundle(Collected(t, o, items)), t, o, items)
        /\ DOMAIN SignStationBundle(Collected(t, o, items)) = Fields
    BY DEF Successful, Collected, Fields, SignStationBundle
  <1>3. ASSUME NEW d, DOMAIN d = Fields, Successful(d, t, o, items)
        PROVE  Successful(Over(d, own), t, o, items)
    BY <1>3 DEF Over, Successful, Fields
  <1> QED BY <1>1, <1>2, <1>3

\* What it adds is there.
LEMMA OwnFields ==
    ASSUME NEW t, NEW o, NEW items, NEW own, NEW x \in DOMAIN own, x \notin Fields
    PROVE  /\ Over(Collected(t, o, items), own)[x] = own[x]
           /\ Over(SignStationBundle(Collected(t, o, items)), own)[x] = own[x]
  <1>1. DOMAIN Collected(t, o, items) = Fields
    BY DEF Collected, Fields
  <1>2. DOMAIN SignStationBundle(Collected(t, o, items)) = Fields
    BY DEF Collected, Fields, SignStationBundle
  <1> QED BY <1>1, <1>2 DEF Over

\* StationRegistry.
LEMMA RegistryFields ==
    ASSUME NEW o
    PROVE  LET r == StationRegistry(o) IN
           /\ r.shape = "ok" /\ r.station = "station" /\ r.fixture = "fixture"
           /\ r.key = "station-key" /\ r.storage = {"disk"}
           /\ r.targets = Rows("lab") \cup Rows("hardware") \cup Rows("qemu")
           /\ r.calibration = o.at + CalibrationLife
           /\ r.adapters = [x \in Adapters |-> "adapter"]
  <1> DEFINE own == [station |-> "station", fixture |-> "fixture", key |-> "station-key",
          targets |-> Rows("lab") \cup Rows("hardware") \cup Rows("qemu"), storage |-> {"disk"},
          calibration |-> o.at + CalibrationLife,
          adapters |-> [r \in Adapters |-> "adapter"]]
  <1>1. StationRegistry(o) = Over(Collected("all", o, {}), own)
    BY DEF StationRegistry
  <1>2. Successful(StationRegistry(o), "all", o, {})
    BY <1>1, CollectedSuccessful
  <1>3. \A x \in {"station", "fixture", "key", "targets", "storage", "calibration", "adapters"} :
            StationRegistry(o)[x] = own[x]
    BY <1>1, OwnFields DEF Fields
  <1> QED BY <1>2, <1>3 DEF Successful

\* CollectLab.
LEMMA LabFields ==
    ASSUME NEW t, NEW o
    PROVE  LET d == CollectLab(t, o) IN
           /\ Successful(d, t, o, LabItems(t, o.version))
           /\ d.artifact = Digest("raw", t, o) /\ d.readback = Digest("raw", t, o)
           /\ d.station = "station" /\ d.fixture = "fixture" /\ d.key = "station-key"
           /\ d.storage = "disk"
  <1> DEFINE own == [artifact |-> Digest("raw", t, o), readback |-> Digest("raw", t, o),
          station |-> "station", fixture |-> "fixture", key |-> "station-key",
          storage |-> "disk"]
  <1>1. CollectLab(t, o)
          = Over(SignStationBundle(Collected(t, o, LabItems(t, o.version))), own)
    BY DEF CollectLab
  <1>2. Successful(CollectLab(t, o), t, o, LabItems(t, o.version))
    BY <1>1, CollectedSuccessful
  <1>3. \A x \in {"artifact", "readback", "station", "fixture", "key", "storage"} :
            CollectLab(t, o)[x] = own[x]
    BY <1>1, OwnFields DEF Fields
  <1> QED BY <1>2, <1>3

\* CreateAcquisition.
LEMMA AcquisitionFields ==
    ASSUME NEW t, NEW o
    PROVE  LET d == CreateAcquisition(t, o) IN
           /\ Successful(d, t, o, Adapters)
           /\ d.artifact = Digest("raw", t, o) /\ d.readback = Digest("raw", t, o)
           /\ d.storage = "disk" /\ d.station = "station" /\ d.registry = StationRegistry(o)
           /\ d.order = AdapterOrder /\ d.adapters = [x \in Adapters |-> "adapter"]
  <1> DEFINE own == [artifact |-> Digest("raw", t, o), readback |-> Digest("raw", t, o),
          storage |-> "disk", station |-> "station", registry |-> StationRegistry(o),
          order |-> AdapterOrder, adapters |-> [r \in Adapters |-> "adapter"]]
  <1>1. CreateAcquisition(t, o) = Over(Collected(t, o, Adapters), own)
    BY DEF CreateAcquisition
  <1>2. Successful(CreateAcquisition(t, o), t, o, Adapters)
    BY <1>1, CollectedSuccessful
  <1>3. \A x \in {"artifact", "readback", "storage", "station", "registry", "order", "adapters"} :
            CreateAcquisition(t, o)[x] = own[x]
    BY <1>1, OwnFields DEF Fields
  <1> QED BY <1>2, <1>3

\* CollectHardware.
LEMMA HardwareFields ==
    ASSUME NEW t, NEW o
    PROVE  LET d == CollectHardware(t, o) IN
           /\ Successful(d, t, o, {})
           /\ d.readback = Digest("raw", t, o) /\ d.rawImage = Digest("raw", t, o)
           /\ d.event = "readback" /\ d.station = "station" /\ d.fixture = "fixture"
           /\ d.storage = "disk" /\ d.registry = StationRegistry(o)
  <1> DEFINE own == [readback |-> Digest("raw", t, o), rawImage |-> Digest("raw", t, o),
          compressed |-> Digest("xz", t, o), event |-> "readback",
          station |-> "station", fixture |-> "fixture", storage |-> "disk",
          registry |-> StationRegistry(o)]
  <1>1. CollectHardware(t, o) = Over(Collected(t, o, {}), own)
    BY DEF CollectHardware
  <1>2. Successful(CollectHardware(t, o), t, o, {})
    BY <1>1, CollectedSuccessful
  <1>3. \A x \in {"readback", "rawImage", "event", "station", "fixture", "storage", "registry"} :
            CollectHardware(t, o)[x] = own[x]
    BY <1>1, OwnFields DEF Fields
  <1> QED BY <1>2, <1>3

\* ProduceOta and CollectSigning.
LEMMA SigningFields ==
    ASSUME NEW t, NEW o
    PROVE  /\ Successful(ProduceOta(t, o), t, o, {"ota_contract"} \cup OtaRoles)
           /\ DOMAIN ProduceOta(t, o).outputs = OtaRoles
           /\ \A r \in OtaRoles : ProduceOta(t, o).outputs[r] = Digest(r, t, o)
           /\ Successful(CollectSigning(t, o), t, o, ExpectedSigningRoles(t))
           /\ \A r \in ExpectedSigningRoles(t) :
                CollectSigning(t, o).outputs[r] = Digest(IF r \in OtaRoles THEN r ELSE "xz", t, o)
  <1> DEFINE ota == [outputs |-> [r \in OtaRoles |-> Digest(r, t, o)]]
             sig == [outputs |-> [r \in ExpectedSigningRoles(t) |->
                                    Digest(IF r \in OtaRoles THEN r ELSE "xz", t, o)]]
  <1>1. ProduceOta(t, o) = Over(Collected(t, o, {"ota_contract"} \cup OtaRoles), ota)
    BY DEF ProduceOta
  <1>2. CollectSigning(t, o) = Over(Collected(t, o, ExpectedSigningRoles(t)), sig)
    BY DEF CollectSigning
  <1>3. "outputs" \in DOMAIN ota /\ "outputs" \in DOMAIN sig /\ "outputs" \notin Fields
    BY DEF Fields
  <1>4. ProduceOta(t, o)["outputs"] = ota["outputs"]
    BY <1>1, <1>3, OwnFields
  <1>5. CollectSigning(t, o)["outputs"] = sig["outputs"]
    BY <1>2, <1>3, OwnFields
  <1>6. /\ Successful(ProduceOta(t, o), t, o, {"ota_contract"} \cup OtaRoles)
        /\ Successful(CollectSigning(t, o), t, o, ExpectedSigningRoles(t))
    BY <1>1, <1>2, CollectedSuccessful
  <1>7. /\ ProduceOta(t, o).outputs = [r \in OtaRoles |-> Digest(r, t, o)]
        /\ CollectSigning(t, o).outputs
             = [r \in ExpectedSigningRoles(t) |->
                    Digest(IF r \in OtaRoles THEN r ELSE "xz", t, o)]
    BY <1>4, <1>5
  <1> QED BY <1>6, <1>7

\* CollectHsm.
LEMMA HsmFields ==
    ASSUME NEW t, NEW o
    PROVE  LET d == CollectHsm(t, o) IN
           /\ Successful(d, t, o, {"artifact-signature"})
           /\ d.artifact = Digest("xz", t, o)
           /\ d.started = o.at /\ d.signed = o.at /\ d.expires = o.at + 1
  <1> DEFINE own == [artifact |-> Digest("xz", t, o), started |-> o.at, signed |-> o.at,
          expires |-> o.at + 1]
  <1>1. CollectHsm(t, o) = Over(Collected(t, o, {"artifact-signature"}), own)
    BY DEF CollectHsm
  <1>2. Successful(CollectHsm(t, o), t, o, {"artifact-signature"})
    BY <1>1, CollectedSuccessful
  <1>3. \A x \in {"artifact", "started", "signed", "expires"} : CollectHsm(t, o)[x] = own[x]
    BY <1>1, OwnFields DEF Fields
  <1> QED BY <1>2, <1>3

\* CollectRoles, ProduceRetention, CollectApproval and CollectRepro.
LEMMA GovernanceFields ==
    ASSUME NEW t, NEW o
    PROVE  /\ Successful(CollectRoles(t, o), t, o, {"release-owner", "security-owner"})
           /\ Successful(ProduceRetention(t, o), t, o, {"export", "replay-test"})
           /\ ProduceRetention(t, o).retainUntil = o.at + RetentionLife
           /\ Successful(CollectApproval(t, o), t, o, {"release-owner", "maintainer", "decision"})
           /\ CollectApproval(t, o).expires = o.at + RiskLife
           /\ Successful(CollectRepro(t, o), t, o, {"artifact-comparison"})
  <1> DEFINE ret == [retainUntil |-> o.at + RetentionLife]
             app == [risk |-> "accepted", expires |-> o.at + RiskLife]
  <1>1. ProduceRetention(t, o) = Over(Collected(t, o, {"export", "replay-test"}), ret)
    BY DEF ProduceRetention
  <1>2. CollectApproval(t, o)
          = Over(Collected(t, o, {"release-owner", "maintainer", "decision"}), app)
    BY DEF CollectApproval
  <1>3. /\ "retainUntil" \in DOMAIN ret /\ "expires" \in DOMAIN app
        /\ "retainUntil" \notin Fields /\ "expires" \notin Fields
    BY DEF Fields
  <1>4. ProduceRetention(t, o)["retainUntil"] = ret["retainUntil"]
    BY <1>1, <1>3, OwnFields
  <1>5. CollectApproval(t, o)["expires"] = app["expires"]
    BY <1>2, <1>3, OwnFields
  <1>6. /\ Successful(CollectRoles(t, o), t, o, {"release-owner", "security-owner"})
        /\ Successful(CollectRepro(t, o), t, o, {"artifact-comparison"})
    BY CollectedSuccessful DEF CollectRoles, CollectRepro
  <1> QED BY <1>1, <1>2, <1>4, <1>5, <1>6, CollectedSuccessful

\* CollectScan, CollectQemu and CollectRuntime.
LEMMA TestFields ==
    ASSUME NEW t, NEW o
    PROVE  /\ Successful(CollectScan(t, o), t, o, {"critical", "high"})
           /\ CollectScan(t, o).native = (o.version \in Ga)
           /\ Successful(CollectQemu(t, o), t, o, QemuItems(o.version))
           /\ CollectQemu(t, o).image = Digest("raw", t, o) /\ CollectQemu(t, o).clean = TRUE
           /\ CollectQemu(t, o).facts = Passed(QemuItems(o.version))
           /\ Successful(CollectRuntime(t, o), t, o, Scenarios)
  <1> DEFINE scan == [native |-> o.version \in Ga]
             qemu == [image |-> Digest("raw", t, o), clean |-> TRUE,
                      facts |-> Passed(QemuItems(o.version))]
  <1>1. CollectScan(t, o) = Over(Collected(t, o, {"critical", "high"}), scan)
    BY DEF CollectScan
  <1>2. CollectQemu(t, o) = Over(Collected(t, o, QemuItems(o.version)), qemu)
    BY DEF CollectQemu
  <1>3. "native" \in DOMAIN scan /\ "native" \notin Fields
    BY DEF Fields
  <1>4. CollectScan(t, o)["native"] = scan["native"]
    BY <1>1, <1>3, OwnFields
  <1>5. \A x \in {"image", "clean", "facts"} : CollectQemu(t, o)[x] = qemu[x]
    BY <1>2, OwnFields DEF Fields
  <1>6. Successful(CollectRuntime(t, o), t, o, Scenarios)
    BY CollectedSuccessful DEF CollectRuntime
  <1> QED BY <1>1, <1>2, <1>4, <1>5, <1>6, CollectedSuccessful

-------------------------------------------------------------------------------
(* Every document is there *)

\* OperatorKeys: for which rows a bundle has a document of each kind.
LEMMA KeysThere ==
    ASSUME NEW v
    PROVE  /\ All("registry") \in OperatorKeys(v) /\ All("audit-log") \in OperatorKeys(v)
           /\ \A t \in LabRows(v) : <<"lab", t>> \in OperatorKeys(v)
           /\ \A t \in Rows("release") :
                /\ t \in Rows("qemu") => <<"qemu", t>> \in OperatorKeys(v)
                /\ <<"approval", t>> \in OperatorKeys(v) /\ <<"repro", t>> \in OperatorKeys(v)
  <1>1. All("registry") \in OperatorKeys(v) /\ All("audit-log") \in OperatorKeys(v)
    BY DEF OperatorKeys, RequiredPaths
  <1>2. \A t \in LabRows(v) : <<"lab", t>> \in OperatorKeys(v)
    <2>1. CASE v \in Ga
      BY <2>1 DEF OperatorKeys, At
    <2>2. CASE v \notin Ga
      <3>1. LabRows(v) \subseteq Rows("release") \cap Rows("lab")
        BY <2>2, EvidenceAssumption DEF LabRows, Rows
      <3> QED BY <3>1 DEF OperatorKeys, RequiredPaths, At
    <2> QED BY <2>1, <2>2
  <1>3. \A t \in Rows("release") :
            /\ t \in Rows("qemu") => <<"qemu", t>> \in OperatorKeys(v)
            /\ <<"approval", t>> \in OperatorKeys(v) /\ <<"repro", t>> \in OperatorKeys(v)
    BY DEF OperatorKeys, RequiredPaths, At
  <1> QED BY <1>1, <1>2, <1>3

\* And for which a bundle of a production version has one besides.
LEMMA ProductionKeysThere ==
    ASSUME NEW v \in Ga
    PROVE  /\ All("roles") \in OperatorKeys(v) /\ All("retention") \in OperatorKeys(v)
           /\ \A s \in Scans : <<"security", s>> \in OperatorKeys(v)
           /\ \A t \in LabRows(v) \cup (Rows("release") \cap Rows("qemu"))
                        \cup (Rows("release") \cap Rows("hardware")) :
                <<"acquisition", t>> \in OperatorKeys(v)
           /\ \A t \in Rows("hardware") : <<"hardware", t>> \in OperatorKeys(v)
           /\ \A t \in Rows("runtime") : <<"runtime", t>> \in OperatorKeys(v)
           /\ \A t \in Rows("ota") : <<"ota", t>> \in OperatorKeys(v)
           /\ \A t \in Rows("signing") : <<"signing", t>> \in OperatorKeys(v)
           /\ \A t \in Rows("signing") \cap Rows("release") : <<"hsm", t>> \in OperatorKeys(v)
  BY DEF OperatorKeys, RequiredPaths, At

\* The context the validators of p are called with.
LEMMA ContextFields ==
    ASSUME NEW p, GoodSource(p)
    PROVE  /\ ContextFor(p).version = p.version /\ ContextFor(p).sha = p.sha
           /\ ContextFor(p).run = p.run /\ ContextFor(p).now = p.at
           /\ ContextFor(p).registry = StationRegistry(Origin(p))
           /\ ContextFor(p).bound = BoundDigests(Workspace(p).binding)
  <1>1. Workspace(p).docs[All("registry")] = Collect(All("registry"), Origin(p))
    BY KeysThere, GoodDocs
  <1>2. Collect(All("registry"), Origin(p)) = StationRegistry(Origin(p))
    BY DEF Collect, All
  <1> QED BY <1>1, <1>2 DEF ContextFor, Context

\* The images a good document was made from are bound.
LEMMA GoodDigests ==
    ASSUME NEW p, GoodSource(p), NEW t \in Rows("release"), NEW x \in {"raw", "xz"}
    PROVE  Digest(x, t, Origin(p)) \in ContextFor(p).bound[t] /\ Digest(x, t, Origin(p)).name = x
  <1>1. BoundDigests(Workspace(p).binding)[t]
          = {[name |-> y, target |-> t, run |-> p.run, made |-> Origin(p).made[t]] : y \in {"raw", "xz"}}
    BY BoundOf DEF GoodSource, Origin
  <1>2. Digest(x, t, Origin(p)) = [name |-> x, target |-> t, run |-> p.run, made |-> Origin(p).made[t]]
    BY DEF GoodSource, Origin, Digest
  <1> QED BY <1>1, <1>2, ContextFields

\* A row that is not released has no bound images.
LEMMA UnboundRow ==
    ASSUME NEW p, GoodSource(p), NEW t \in Targets, t \notin Rows("release")
    PROVE  ContextFor(p).bound[t] = {}
  <1> DEFINE arts == [k \in {x \in DOMAIN p.files : x[2] \in {"raw", "xz"}} |-> p.files[k]]
  <1>1. Workspace(p).binding.artifacts = arts
    BY DEF Workspace, BindingPayload
  <1>2. BoundDigests(Workspace(p).binding)[t] = {arts[k] : k \in {x \in DOMAIN arts : x[1] = t}}
    BY <1>1 DEF BoundDigests
  <1>3. DOMAIN p.files = ExpectedKeys
    BY DEF Files, GoodSource
  <1>4. \A k \in ExpectedKeys : k[1] # t
    BY PartAssumption DEF ExpectedKeys, Parts
  <1> QED BY <1>2, <1>3, <1>4, ContextFields

\* A successful document of p's version is about p's subject, and has passed.
LEMMA GoodSubject ==
    ASSUME NEW p, GoodSource(p), NEW d, NEW t, NEW items, Successful(d, t, Origin(p), items)
    PROVE  /\ SameSubject(d, ContextFor(p), t)
           /\ d.version = p.version /\ d.target = t /\ d.sha = p.sha /\ d.run = p.run
           /\ DOMAIN d.results = items /\ DOMAIN d.raw = items /\ d.raw = d.results
           /\ \A i \in items : d.results[i] = "passed" /\ d.raw[i] = "passed"
           /\ \A required : required \subseteq items => AllPassed(d, required)
  <1>1. d.version = p.version /\ d.target = t /\ d.sha = p.sha /\ d.run = p.run
    BY DEF Successful, GoodSource, Origin
  <1>2. SameSubject(d, ContextFor(p), t)
    BY <1>1, ContextFields DEF SameSubject
  <1>3. /\ DOMAIN d.results = items /\ DOMAIN d.raw = items /\ d.raw = d.results
        /\ \A i \in items : d.results[i] = "passed" /\ d.raw[i] = "passed"
        /\ d.shape = "ok" /\ d.files
    BY DEF Successful, Passed
  <1> QED BY <1>1, <1>2, <1>3 DEF AllPassed

-------------------------------------------------------------------------------
(* Each validator accepts what its collector writes *)

\* validate-lab-evidence.py, for the rows validate-matrix demands.
LEMMA LabAccepted ==
    ASSUME NEW p, GoodSource(p), NoWildcard
    PROVE  LabInputs(Workspace(p), ContextFor(p))
  <1> SUFFICES ASSUME NEW t \in LabRows(p.version)
               PROVE  /\ <<"lab", t>> \in DOMAIN Workspace(p).docs
                      /\ ValidateLab(Workspace(p).docs[<<"lab", t>>], ContextFor(p), t)
    BY ContextFields DEF LabInputs
  <1> DEFINE d == CollectLab(t, Origin(p))
             r == StationRegistry(Origin(p))
  <1>1. /\ <<"lab", t>> \in DOMAIN Workspace(p).docs
        /\ Workspace(p).docs[<<"lab", t>>] = Collect(<<"lab", t>>, Origin(p))
    BY KeysThere, GoodDocs
  <1>2. Collect(<<"lab", t>>, Origin(p)) = d
    BY DEF Collect
  <1>3. /\ Successful(d, t, Origin(p), LabItems(t, Origin(p).version))
        /\ d.artifact = Digest("raw", t, Origin(p)) /\ d.readback = Digest("raw", t, Origin(p))
        /\ d.station = "station" /\ d.fixture = "fixture" /\ d.key = "station-key"
        /\ d.storage = "disk"
    BY LabFields
  <1>4. Origin(p).version = p.version
    BY DEF GoodSource, Origin
  <1> HIDE DEF d
  <1>5. SameSubject(d, ContextFor(p), t) /\ d.raw = d.results /\ AllPassed(d, LabItems(t, p.version))
        /\ d.target = t
    BY <1>3, <1>4, GoodSubject
  <1>6. t \in Targets /\ t \in Rows("lab") \cup Rows("hardware")
    BY DEF LabRows, Rows
  <1>7. /\ r.shape = "ok" /\ r.station = "station" /\ r.fixture = "fixture"
        /\ r.key = "station-key" /\ r.storage = {"disk"}
        /\ r.targets = Rows("lab") \cup Rows("hardware") \cup Rows("qemu")
        /\ r.calibration = Origin(p).at + CalibrationLife
    BY RegistryFields
  <1> HIDE DEF r
  <1>8. "*" \notin r.targets /\ t \in r.targets
    BY <1>6, <1>7 DEF NoWildcard, Rows
  <1>9. r.calibration > p.at
    BY <1>7, EvidenceAssumption DEF GoodSource, Origin
  <1>10. CheckStationRegistry(d, ContextFor(p))
    BY <1>3, <1>5, <1>7, <1>8, <1>9, ContextFields DEF CheckStationRegistry, r
  <1>11. ValidateLab(d, ContextFor(p), t)
    BY <1>3, <1>5, <1>10, ContextFields DEF ValidateLab, LabDevices, LabChecks, CheckStationBundle
  <1> QED BY <1>1, <1>2, <1>11

\* qemu-evidence.py, validate-approval.py and the comparison of two builds, for
\* every released row.
LEMMA RowsAccepted ==
    ASSUME NEW p, GoodSource(p)
    PROVE  ReleaseRows(Workspace(p), ContextFor(p))
  <1> DEFINE o == Origin(p)
             c == ContextFor(p)
             docs == Workspace(p).docs
  <1>0. /\ o.version = p.version /\ p.at < o.at + RiskLife
        /\ {p.at, o.at} \subseteq Nat
    BY DEF GoodSource, Origin
  <1>1. ASSUME NEW t \in Rows("release"), "qemu" \in Policy[t]
        PROVE  <<"qemu", t>> \in DOMAIN docs /\ ValidateQemu(docs[<<"qemu", t>>], c, t)
    <2> DEFINE d == CollectQemu(t, o)
    <2>1. t \in Rows("qemu")
      BY <1>1 DEF Rows
    <2>2. <<"qemu", t>> \in DOMAIN docs /\ docs[<<"qemu", t>>] = Collect(<<"qemu", t>>, o)
      BY <2>1, KeysThere, GoodDocs
    <2>3. Collect(<<"qemu", t>>, o) = d
      BY DEF Collect
    <2>4. /\ Successful(d, t, o, QemuItems(p.version)) /\ d.image = Digest("raw", t, o)
          /\ d.clean = TRUE /\ d.facts = Passed(QemuItems(p.version))
      BY <1>0, TestFields
    <2> HIDE DEF d
    <2>5. /\ d.version = p.version /\ d.target = t /\ d.sha = p.sha
          /\ AllPassed(d, QemuItems(p.version))
      BY <2>4, GoodSubject
    <2>6. QemuBinding(d, c, t)
      BY <2>4, <2>5, GoodDigests, ContextFields DEF QemuBinding
    <2>7. SemanticLog(d)
      BY <2>4 DEF SemanticLog, Successful
    <2>8. ValidateProductionFacts(d)
      BY <2>4, <2>5 DEF ValidateProductionFacts, Passed
    <2>9. ValidateQemu(d, c, t)
      BY <2>4, <2>5, <2>6, <2>7, <2>8, ContextFields DEF ValidateQemu, ValidateTermination
    <2> QED BY <2>2, <2>3, <2>9
  <1>2. ASSUME NEW t \in Rows("release")
        PROVE  <<"approval", t>> \in DOMAIN docs /\ ValidateApproval(docs[<<"approval", t>>], c, t)
    <2> DEFINE d == CollectApproval(t, o)
    <2>1. <<"approval", t>> \in DOMAIN docs /\ docs[<<"approval", t>>] = Collect(<<"approval", t>>, o)
      BY KeysThere, GoodDocs
    <2>2. Collect(<<"approval", t>>, o) = d
      BY DEF Collect
    <2>3. /\ Successful(d, t, o, {"release-owner", "maintainer", "decision"})
          /\ d.expires = o.at + RiskLife
      BY GovernanceFields
    <2> HIDE DEF d
    <2>4. /\ d.version = p.version /\ d.target = t /\ d.sha = p.sha /\ d.shape = "ok"
          /\ DOMAIN d.results = {"release-owner", "maintainer", "decision"}
          /\ d.results["decision"] = "passed"
      <3>1. d.shape = "ok"
        BY <2>3 DEF Successful
      <3> QED BY <2>3, <3>1, GoodSubject
    <2>5. d.expires > p.at
      BY <1>0, <2>3, EvidenceAssumption
    <2>6. ValidateApproval(d, c, t)
      BY <2>4, <2>5, ContextFields DEF ValidateApproval
    <2> QED BY <2>1, <2>2, <2>6
  <1>3. ASSUME NEW t \in Rows("release")
        PROVE  <<"repro", t>> \in DOMAIN docs /\ ValidateRepro(docs[<<"repro", t>>], c, t)
    <2> DEFINE d == CollectRepro(t, o)
    <2>1. <<"repro", t>> \in DOMAIN docs /\ docs[<<"repro", t>>] = Collect(<<"repro", t>>, o)
      BY KeysThere, GoodDocs
    <2>2. Collect(<<"repro", t>>, o) = d
      BY DEF Collect
    <2>3. Successful(d, t, o, {"artifact-comparison"})
      BY GovernanceFields
    <2> HIDE DEF d
    <2>4. /\ SameSubject(d, c, t) /\ AllPassed(d, {})
          /\ DOMAIN d.results = {"artifact-comparison"}
      BY <2>3, GoodSubject
    <2>5. ValidateRepro(d, c, t)
      BY <2>4 DEF ValidateRepro
    <2> QED BY <2>1, <2>2, <2>5
  <1> QED BY <1>1, <1>2, <1>3 DEF ReleaseRows

\* The reports a preflight of a candidate collects from the check runs, and the
\* governance report of every strict preflight.
LEMMA CheckReports ==
    ASSUME NEW p, p.profile \in Strict
    PROVE  /\ GovernanceInput(Workspace(p))
           /\ p.version \notin Ga =>
                \A s \in Scans :
                    /\ <<"security", s>> \in DOMAIN Workspace(p).docs
                    /\ Workspace(p).docs[<<"security", s>>]
                         = CollectCheck(s, p.version, p.sha, p.run)
  <1> DEFINE ops == RewriteAuditLog(Documents(p.staged.bundle))
             coll == [k \in CollectedKeys(p.version) |->
                IF k[1] = "governance" THEN [passed |-> TRUE]
                ELSE IF k[1] = "security" THEN CollectCheck(k[2], p.version, p.sha, p.run)
                ELSE [collected |-> p.id, shape |-> "ok"]]
             dry == [k \in IF p.profile = "rc-evidence-dry-run" THEN {All("dry-run")} ELSE {} |->
                     [shape |-> "ok"]]
  <1>1. p.profile # "technical-dry-run"
    BY DEF Strict
  <1>2. Workspace(p).docs = Over(coll, Over(dry, ops))
    BY <1>1 DEF Workspace
  <1>3. All("governance") \in CollectedKeys(p.version)
    BY DEF CollectedKeys
  <1>4. coll[All("governance")] = [passed |-> TRUE]
    BY <1>3 DEF All
  <1>5. ASSUME NEW s \in Scans, p.version \notin Ga
        PROVE  <<"security", s>> \in CollectedKeys(p.version)
    BY <1>5 DEF CollectedKeys, At
  <1>6. ASSUME NEW s \in Scans, p.version \notin Ga
        PROVE  coll[<<"security", s>>] = CollectCheck(s, p.version, p.sha, p.run)
    BY <1>5, <1>6
  <1>7. DOMAIN coll = CollectedKeys(p.version)
    OBVIOUS
  <1> HIDE DEF coll, dry, ops
  <1>8. \A k \in DOMAIN coll :
            k \in DOMAIN Over(coll, Over(dry, ops)) /\ Over(coll, Over(dry, ops))[k] = coll[k]
    BY DEF Over
  <1>9. GovernanceInput(Workspace(p))
    BY <1>2, <1>3, <1>4, <1>7, <1>8 DEF GovernanceInput
  <1> QED BY <1>2, <1>5, <1>6, <1>7, <1>8, <1>9

\* validate-security-evidence.py: the operator's scans of a production version,
\* and the reports of the check runs otherwise.
LEMMA SecurityAccepted ==
    ASSUME NEW p, GoodSource(p), "raw-path" \in Repairs
    PROVE  SecurityInputs(Workspace(p), ContextFor(p))
  <1> DEFINE o == Origin(p)
             c == ContextFor(p)
             docs == Workspace(p).docs
  <1> SUFFICES ASSUME NEW s \in Scans
               PROVE  /\ <<"security", s>> \in DOMAIN docs
                      /\ ValidateSecurityReport(docs[<<"security", s>>], c, s)
    BY DEF SecurityInputs
  <1>1. CASE p.version \in Ga
    <2> DEFINE d == CollectScan(s, o)
    <2>1. /\ <<"security", s>> \in DOMAIN docs
          /\ docs[<<"security", s>>] = Collect(<<"security", s>>, o)
      BY <1>1, ProductionKeysThere, GoodDocs
    <2>2. Collect(<<"security", s>>, o) = d
      BY DEF Collect
    <2>3. Successful(d, s, o, {"critical", "high"}) /\ d.native = (o.version \in Ga)
      BY TestFields
    <2>4. o.version = p.version
      BY DEF GoodSource, Origin
    <2> HIDE DEF d
    <2>5. SameSubject(d, c, s) /\ AllPassed(d, {}) /\ d.raw = d.results
      BY <2>3, GoodSubject
    <2>6. ValidateSecurityReport(d, c, s)
      BY <1>1, <2>3, <2>4, <2>5 DEF ValidateSecurityReport, ValidateRawReport, SeverityCounts
    <2> QED BY <2>1, <2>2, <2>6
  <1>2. CASE p.version \notin Ga
    <2> DEFINE d == CollectCheck(s, p.version, p.sha, p.run)
    <2>1. <<"security", s>> \in DOMAIN docs /\ docs[<<"security", s>>] = d
      BY <1>2, CheckReports DEF GoodSource
    <2>2. /\ d.version = p.version /\ d.target = s /\ d.sha = p.sha /\ d.run = p.run
          /\ d.files /\ d.shape = "ok" /\ d.native = FALSE
          /\ d.results = Passed({"critical", "high"})
      BY DEF CollectCheck
    <2> HIDE DEF d
    <2>3. SameSubject(d, c, s) /\ AllPassed(d, {})
      BY <2>2, ContextFields DEF SameSubject, AllPassed, Passed
    <2>4. ValidateSecurityReport(d, c, s)
      BY <1>2, <2>2, <2>3, ContextFields DEF ValidateSecurityReport
    <2> QED BY <2>1, <2>4
  <1> QED BY <1>1, <1>2

\* prepare-release-inputs.py plan and its validation: exactly the expected files,
\* each with its own digest.
LEMMA BindingAccepted ==
    ASSUME NEW p, GoodSource(p)
    PROVE  LET w == Workspace(p) IN
           ValidateBinding(w.binding, w.files, w.contract, p.profile, p.version, p.sha, p.run,
                           p.attempt)
  <1> DEFINE b == Workspace(p).binding
  <1>1. DOMAIN p.files = ExpectedKeys
    BY DEF GoodSource, Files
  <1>2. /\ b.artifacts = [k \in {x \in DOMAIN p.files : x[2] \in {"raw", "xz"}} |-> p.files[k]]
        /\ b.evidence = [k \in {x \in DOMAIN p.files : x[2] = "build-evidence"} |-> p.files[k]]
        /\ b.installers = [k \in {x \in DOMAIN p.files : x[2] = "installer"} |-> p.files[k]]
        /\ b.contract = p.contract
        /\ Workspace(p).files = p.files /\ Workspace(p).contract = p.contract
    BY DEF Workspace, BindingPayload
  <1>3. BindingHeader(b, p.profile, p.version, p.sha, p.run, p.attempt)
    BY WorkspaceBinding DEF BindingHeader
  <1> HIDE DEF b
  <1>4. ArtifactBindings(b, p.files)
    BY <1>1, <1>2 DEF ArtifactBindings, Measured
  <1>5. BuildEvidenceBindings(b, p.files)
    BY <1>1, <1>2 DEF BuildEvidenceBindings, Measured
  <1>6. InstallerBindings(b, p.files)
    BY <1>1, <1>2 DEF InstallerBindings, Measured
  <1> QED BY <1>2, <1>3, <1>4, <1>5, <1>6 DEF ValidateBinding, ContractBinding, b

\* operator-evidence-ingress.py: the staged manifest lists what the workspace
\* holds of the operator's files, each as it was.
LEMMA OperatorAccepted ==
    ASSUME NEW p, GoodSource(p), "collected-files" \in Repairs
    PROVE  ValidateOperatorManifest(Workspace(p).operator, Workspace(p).docs, p.version, p.sha,
                                    p.run, p.attempt, p.at)
  <1> DEFINE m == Workspace(p).operator
             docs == Workspace(p).docs
             v == p.version
  <1>1. m = OperatorManifestOf(p.staged)
    BY WorkspaceIngress DEF GoodSource
  <1>2. /\ m.version = p.staged.version /\ m.sha = p.staged.sha /\ m.run = p.staged.run
        /\ m.attempt = p.staged.attempt /\ m.files = Documents(p.staged.bundle)
        /\ m.expires = p.staged.at + IngressLife
    BY <1>1 DEF OperatorManifestOf, CreateOperatorManifest
  <1>3. /\ DOMAIN m.files = OperatorKeys(v)
        /\ \A k \in OperatorKeys(v) : m.files[k] = Collect(k, Origin(p))
    BY <1>2, GoodDocuments
  <1>4. \A k \in OperatorKeys(v) : k \in DOMAIN docs /\ docs[k] = m.files[k]
    BY <1>3, GoodDocs
  <1>5. \A k \in OperatorKeys(v) : docs[k].shape = "ok"
    <2>1. \A k \in OperatorKeys(v) : Collect(k, Origin(p)).shape = "ok"
      BY CollectCommon DEF Common
    <2> QED BY <1>3, <1>4, <2>1
  <1>6. RequiredPaths(v) \subseteq OperatorKeys(v)
    BY DEF OperatorKeys
  <1>7. DOMAIN docs = CollectedKeys(v) \cup OperatorKeys(v)
    BY WorkspaceDocs, GoodDocuments DEF GoodSource
  <1> HIDE DEF m, docs
  <1>8. Scanned(docs, v) = DOMAIN m.files
    BY <1>3, <1>7, KeysApart DEF Scanned
  <1>9. OperatorFiles(m, docs, v)
    BY <1>3, <1>4, <1>5, <1>6, <1>8 DEF OperatorFiles
  <1>10. AuditLogApproved(docs)
    <2>1. Collect(All("audit-log"), Origin(p)) = Collected("all", Origin(p), {"replay"})
      BY DEF Collect, All
    <2>2. Successful(Collected("all", Origin(p), {"replay"}), "all", Origin(p), {"replay"})
      BY CollectedSuccessful
    <2>3. /\ All("audit-log") \in DOMAIN docs
          /\ Successful(docs[All("audit-log")], "all", Origin(p), {"replay"})
      BY <1>3, <1>4, <2>1, <2>2, KeysThere
    <2> QED BY <2>3 DEF AuditLogApproved, Successful, Passed
  <1>11. CoreFiles(docs, DOMAIN m.files, v)
    BY <1>3, <1>4, <1>5, <1>6, <1>10, KeysThere DEF CoreFiles
  <1>12. m.expires > p.at
    BY <1>2 DEF GoodSource
  <1>13. m.version = v /\ m.sha = p.sha /\ m.run = p.run /\ m.attempt = p.attempt
    BY <1>2 DEF GoodSource
  <1> QED BY <1>9, <1>11, <1>12, <1>13 DEF ValidateOperatorManifest, m, docs

\* No preflight but a dry run writes the mark of a dry run.
LEMMA NoDryRun ==
    ASSUME NEW v, NEW k \in CollectedKeys(v) \cup OperatorKeys(v)
    PROVE  k # All("dry-run")
  <1>1. CASE k \in CollectedKeys(v)
    BY <1>1 DEF CollectedKeys, At, All
  <1>2. CASE k \in OperatorKeys(v)
    BY <1>2, KeyForm DEF Kinds, Global, All
  <1> QED BY <1>1, <1>2

\* release-ingress.py, but for the subject graph of a production release.
LEMMA IngressAccepted ==
    ASSUME NEW p, GoodSource(p), "collected-files" \in Repairs,
           p.profile = "production-candidate" =>
                ValidateSubjectGraph(Workspace(p).graph, Workspace(p).binding, Workspace(p).docs,
                                     p.version, p.profile, p.sha, p.run)
    PROVE  ValidateIngress(Workspace(p), p.version, p.sha, p.at)
  <1> DEFINE w == Workspace(p)
             g == Workspace(p).ingress
  <1>1. /\ g.profile = p.profile /\ g.version = p.version /\ g.sha = p.sha /\ g.run = p.run
        /\ g.attempt = p.attempt /\ g.expires = p.at + IngressLife /\ g.files = w.files
        /\ g.contract = w.contract /\ g.inputs = w.docs
    BY DEF Workspace, CreateIngress, BindingPayload
  <1>2. p.profile \in Strict /\ p.profile # "rc-evidence-dry-run"
    BY DEF GoodSource, Strict
  <1>3. DOMAIN w.docs = CollectedKeys(p.version) \cup OperatorKeys(p.version)
    BY <1>2, WorkspaceDocs, GoodDocuments
  <1>4. All("dry-run") \notin DOMAIN w.docs
    BY <1>3, NoDryRun
  <1> HIDE DEF w, g
  <1>5. IngressFiles(w)
    BY <1>1, <1>2, <1>4 DEF IngressFiles, w, g
  <1>6. g.expires > p.at
    BY <1>1 DEF GoodSource
  <1>7. ValidateOperatorIngress(w, p.at)
    BY <1>1, OperatorAccepted DEF ValidateOperatorIngress, w, g
  <1>8. /\ g.profile = w.binding.profile /\ g.version = w.binding.version /\ g.sha = w.binding.sha
        /\ g.run = w.binding.run /\ g.attempt = w.binding.attempt
    BY <1>1, WorkspaceBinding DEF w
  <1> QED BY <1>1, <1>5, <1>6, <1>7, <1>8 DEF ValidateIngress, w, g

\* What every strict preflight is asked, asked of good evidence.
LEMMA StrictAccepted ==
    ASSUME NEW p, GoodSource(p), NoWildcard, {"collected-files", "raw-path"} \subseteq Repairs,
           p.profile = "production-candidate" =>
                /\ ValidateSubjectGraph(Workspace(p).graph, Workspace(p).binding, Workspace(p).docs,
                                        p.version, p.profile, p.sha, p.run)
                /\ ProductionInputs(Workspace(p), ContextFor(p), p.profile)
    PROVE  Passes(p)
  <1>1. ValidateIngress(Workspace(p), p.version, p.sha, p.at)
    BY IngressAccepted
  <1>2. GovernanceInput(Workspace(p))
    BY CheckReports DEF GoodSource
  <1> QED BY <1>1, <1>2, BindingAccepted, LabAccepted, RowsAccepted, SecurityAccepted
          DEF Passes, ValidateReleaseInputs, ContextFor

-------------------------------------------------------------------------------
(* What only a production release is asked *)

\* The release subject graph: every node is a document that is there, every row
\* has its images.
LEMMA GraphAccepted ==
    ASSUME NEW p, GoodSource(p), p.profile = "production-candidate", ProductionMatrix,
           "artifact-path" \in Repairs
    PROVE  ValidateSubjectGraph(Workspace(p).graph, Workspace(p).binding, Workspace(p).docs,
                                p.version, p.profile, p.sha, p.run)
  <1> DEFINE w == Workspace(p)
             g == Workspace(p).graph
             b == Workspace(p).binding
             docs == Workspace(p).docs
  <1>0. p.version \in Ga
    BY DEF GoodSource, ProfileAllowed
  <1>1. g = SubjectGraphPayload(b, docs)
    BY DEF Workspace
  <1>2. /\ b.profile = p.profile /\ b.version = p.version /\ b.sha = p.sha /\ b.run = p.run
    BY WorkspaceBinding
  <1> HIDE DEF w, g, b, docs
  <1>3. /\ g.version = p.version /\ g.profile = p.profile /\ g.sha = p.sha /\ g.run = p.run
        /\ g.images = BoundDigests(b) /\ g.binding = b
        /\ g.nodes = [t \in SubjectRows |->
                         [k \in RequiredNodes(t, p.profile) |-> DocAt(docs, k)]]
    BY <1>1, <1>2 DEF SubjectGraphPayload
  <1>4. ASSUME NEW t \in SubjectRows
        PROVE  SubjectImages(g, b, t)
    <2>1. t \in Rows("release")
      BY DEF ProductionMatrix
    <2>2. \A x \in {"raw", "xz"} :
            /\ Digest(x, t, Origin(p)) \in BoundDigests(b)[t]
            /\ Digest(x, t, Origin(p)).name = x
      BY <2>1, GoodDigests, ContextFields DEF b
    <2> QED BY <1>3, <2>2 DEF SubjectImages
  <1>5. ASSUME NEW t \in SubjectRows, NEW k \in NodeKeys(t)
        PROVE  k \in DOMAIN docs
    <2>1. t \in Rows("release") /\ t \in Targets
      BY DEF ProductionMatrix, Rows
    <2>2. k \in OperatorKeys(p.version) \/ k = All("governance")
      <3>1. \A f \in Flags : f \in Policy[t] => t \in Rows(f)
        BY <2>1 DEF Rows
      <3> QED BY <1>0, <2>1, <3>1, KeysThere, ProductionKeysThere DEF NodeKeys, All, Flags
    <2>3. All("governance") \in DOMAIN docs
      BY CheckReports DEF GoodSource, GovernanceInput, docs
    <2> QED BY <2>2, <2>3, GoodDocs DEF docs
  <1>6. ASSUME NEW t \in SubjectRows, NEW k \in RequiredNodes(t, p.profile)
        PROVE  k \in DOMAIN docs /\ g.nodes[t][k] = docs[k]
    BY <1>3, <1>5, <1>6 DEF RequiredNodes, DocAt
  <1>7. ImageNodesFound
    BY DEF ImageNodesFound
  <1>8. DOMAIN g.nodes = SubjectRows /\ \A t \in SubjectRows : DOMAIN g.nodes[t] = RequiredNodes(t, p.profile)
    BY <1>3
  <1> QED BY <1>3, <1>4, <1>6, <1>7, <1>8 DEF ValidateSubjectGraph, g, b, docs

\* The station's events come in their order when each adapter runs once.
LEMMA OrderAccepted ==
    ASSUME NEW d, d.order = AdapterOrder, ProductionMatrix
    PROVE  InOrder(d)
  <1> DEFINE A == AdapterOrder
             first(r) == CHOOSE i \in 1..Len(A) : A[i] = r /\ \A j \in 1..(i - 1) : A[j] # r
  <1>1. Len(A) \in Nat
    BY EvidenceAssumption
  <1>2. ASSUME NEW i \in 1..Len(A)
        PROVE  first(A[i]) = i
    <2>1. A[i] = A[i] /\ \A j \in 1..(i - 1) : A[j] # A[i]
      BY <1>1 DEF ProductionMatrix
    <2>2. \A j \in 1..Len(A) : A[j] = A[i] => j = i
      BY DEF ProductionMatrix
    <2> QED BY <2>1, <2>2
  <1>3. \A i, j \in 1..Len(A) : i < j => first(A[i]) < first(A[j])
    BY <1>2
  <1>4. (\A i, j \in 1..Len(A) : i < j => first(A[i]) < first(A[j])) => InOrder(d)
    BY DEF InOrder
  <1> QED BY <1>3, <1>4

\* Every row with a directory of lab inputs has a station's record, and the
\* registry knows the row.
LEMMA DirectoryRows ==
    ASSUME NEW p, GoodSource(p), p.version \in Ga, ProductionMatrix,
           NEW t \in LabDirectories(Workspace(p).docs)
    PROVE  /\ <<"acquisition", t>> \in OperatorKeys(p.version)
           /\ t \in Targets /\ t \in Rows("lab") \cup Rows("hardware") \cup Rows("qemu")
  <1> DEFINE v == p.version
  <1>1. DOMAIN Workspace(p).docs = CollectedKeys(v) \cup OperatorKeys(v)
    BY WorkspaceDocs, GoodDocuments DEF GoodSource
  <1>2. PICK k \in DOMAIN Workspace(p).docs :
            k[1] \in {"qemu", "lab", "hardware", "acquisition"} /\ k[2] = t
    BY DEF LabDirectories
  <1>3. k \in OperatorKeys(v)
    BY <1>1, <1>2 DEF CollectedKeys, At, All
  <1>4. \/ t \in LabRows(v) \/ t \in Rows("hardware")
        \/ t \in Rows("release") /\ t \in Rows("qemu")
    BY <1>2, <1>3, KeyRows
  <1>5. t \in LabRows(v) => t \in Targets /\ t \in Rows("lab") \cup Rows("hardware")
    BY DEF LabRows, Rows
  <1>6. t \in Rows("hardware") => t \in Rows("release") \/ t \in LabRows(v)
    BY EvidenceAssumption DEF ProductionMatrix, LabRows, Rows
  <1>7. t \in Targets
    BY <1>4, <1>5 DEF Rows
  <1> QED BY <1>4, <1>5, <1>6, <1>7, ProductionKeysThere

\* station-acquisition.py.
LEMMA AcquisitionAccepted ==
    ASSUME NEW p, GoodSource(p), p.version \in Ga, ProductionMatrix, NoWildcard
    PROVE  AcquisitionInputs(Workspace(p), ContextFor(p))
  <1> DEFINE o == Origin(p)
             c == ContextFor(p)
             docs == Workspace(p).docs
             r == StationRegistry(o)
  <1>1. LabDirectories(docs) # {}
    <2>1. PICK t \in Rows("release") : t \in Rows("lab")
      BY MatrixAssumption
    <2>2. t \in LabRows(p.version)
      BY <2>1, EvidenceAssumption DEF LabRows, Rows
    <2>3. <<"lab", t>> \in DOMAIN docs
      BY <2>2, KeysThere, GoodDocs
    <2> QED BY <2>3 DEF LabDirectories
  <1>2. ASSUME NEW t \in LabDirectories(docs)
        PROVE  /\ <<"acquisition", t>> \in DOMAIN docs
               /\ ValidateAcquisition(docs[<<"acquisition", t>>], LabArtifact(Workspace(p), t), c, t)
    <2> DEFINE d == CreateAcquisition(t, o)
    <2>1. /\ <<"acquisition", t>> \in OperatorKeys(p.version)
          /\ t \in Targets /\ t \in Rows("lab") \cup Rows("hardware") \cup Rows("qemu")
      BY DirectoryRows
    <2>2. <<"acquisition", t>> \in DOMAIN docs
          /\ docs[<<"acquisition", t>>] = Collect(<<"acquisition", t>>, o)
      BY <2>1, GoodDocs
    <2>3. Collect(<<"acquisition", t>>, o) = d
      BY DEF Collect
    <2>4. LabArtifact(Workspace(p), t) # {} =>
            LabArtifact(Workspace(p), t) = {Digest("raw", t, o)}
      <3> SUFFICES ASSUME <<"lab", t>> \in DOMAIN docs
                   PROVE  docs[<<"lab", t>>].artifact = Digest("raw", t, o)
        BY DEF LabArtifact
      <3>1. <<"lab", t>> \notin CollectedKeys(p.version)
        BY DEF CollectedKeys, At, All
      <3>2. <<"lab", t>> \in OperatorKeys(p.version)
        BY <3>1, WorkspaceDocs, GoodDocuments DEF GoodSource
      <3>3. docs[<<"lab", t>>] = Collect(<<"lab", t>>, o)
        BY <3>2, GoodDocs
      <3>4. Collect(<<"lab", t>>, o) = CollectLab(t, o)
        BY DEF Collect
      <3> QED BY <3>3, <3>4, LabFields
    <2>5. /\ Successful(d, t, o, Adapters)
          /\ d.artifact = Digest("raw", t, o) /\ d.readback = Digest("raw", t, o)
          /\ d.station = "station" /\ d.registry = r
          /\ d.order = AdapterOrder /\ d.adapters = [x \in Adapters |-> "adapter"]
      BY AcquisitionFields
    <2> HIDE DEF d
    <2>6. /\ SameSubject(d, c, t) /\ AllPassed(d, Adapters) /\ DOMAIN d.results = Adapters
          /\ d.target = t
      BY <2>5, GoodSubject
    <2>7. /\ r.station = "station" /\ r.storage = {"disk"}
          /\ r.targets = Rows("lab") \cup Rows("hardware") \cup Rows("qemu")
          /\ r.adapters = [x \in Adapters |-> "adapter"]
      BY RegistryFields
    <2>8. c.registry = r
      BY ContextFields
    <2> HIDE DEF r, c
    <2>9. "*" \notin r.targets
      BY <2>7 DEF NoWildcard, Rows
    <2>10. ValidateRegistryBinding(d, c)
      BY <2>1, <2>5, <2>6, <2>7, <2>8, <2>9 DEF ValidateRegistryBinding
    <2>11. InOrder(d)
      BY <2>5, OrderAccepted
    <2>12. ValidateAcquisition(d, LabArtifact(Workspace(p), t), c, t)
      BY <2>4, <2>5, <2>6, <2>8, <2>10, <2>11 DEF ValidateAcquisition
    <2> QED BY <2>2, <2>3, <2>12
  <1> QED BY <1>1, <1>2 DEF AcquisitionInputs

\* signing-session replay: the sessions of the released rows, each over bytes of
\* its row.
LEMMA SessionsAccepted ==
    ASSUME NEW p, GoodSource(p), p.version \in Ga, ProductionMatrix
    PROVE  SigningSessions(Workspace(p), ContextFor(p))
  <1> DEFINE o == Origin(p)
             c == ContextFor(p)
             docs == Workspace(p).docs
             sessions == {k \in DOMAIN docs : k[1] = "hsm"}
  <1>1. sessions # {}
    <2>1. PICK t \in Rows("signing") \cap Rows("release") : TRUE
      BY DEF ProductionMatrix
    <2>2. <<"hsm", t>> \in DOMAIN docs
      BY <2>1, ProductionKeysThere, GoodDocs
    <2> QED BY <2>2
  <1>2. ASSUME NEW k \in sessions
        PROVE  HsmSessionReplay(docs[k], c, k[2])
    <2> DEFINE t == k[2]
               d == CollectHsm(k[2], o)
    <2>1. DOMAIN docs = CollectedKeys(p.version) \cup OperatorKeys(p.version)
      BY WorkspaceDocs, GoodDocuments DEF GoodSource
    <2>2. k \in OperatorKeys(p.version) /\ k[1] = "hsm"
      BY <2>1 DEF CollectedKeys, At, All
    <2>3. docs[k] = Collect(k, o)
      BY <2>2, GoodDocs
    <2>4. Collect(k, o) = d
      BY <2>2 DEF Collect
    <2>5. t \in Rows("release")
      BY <2>2 DEF OperatorKeys, RequiredPaths, At, All
    <2>6. /\ Successful(d, t, o, {"artifact-signature"}) /\ d.artifact = Digest("xz", t, o)
          /\ d.started = o.at /\ d.signed = o.at /\ d.expires = o.at + 1
      BY HsmFields
    <2> HIDE DEF d
    <2>7. o.at \in Nat
      BY DEF GoodSource, Origin
    <2>8. HsmSessionValid(d)
      BY <2>6, <2>7 DEF HsmSessionValid, Successful
    <2>9. HsmCryptoReplay(d)
      BY <2>6 DEF HsmCryptoReplay, Successful, Passed
    <2>10. d.artifact \in c.bound[t]
      BY <2>5, <2>6, GoodDigests
    <2> QED BY <2>3, <2>4, <2>8, <2>9, <2>10 DEF HsmSessionReplay
  <1> QED BY <1>1, <1>2 DEF SigningSessions

\* signing-manifest.json: every role of a row, over the bound image, and over what
\* the OTA artifacts say they are.
LEMMA SigningAccepted ==
    ASSUME NEW p, GoodSource(p), p.version \in Ga, ProductionMatrix, NEW t \in Rows("signing")
    PROVE  SigningInput(Workspace(p), ContextFor(p), t)
  <1> DEFINE o == Origin(p)
             c == ContextFor(p)
             docs == Workspace(p).docs
             d == CollectSigning(t, o)
             roles == ExpectedSigningRoles(t)
             outputs == IF "ota" \in Policy[t] /\ <<"ota", t>> \in DOMAIN docs
                        THEN OtaSigningDigests(docs[<<"ota", t>>]) ELSE <<>>
  <1>1. <<"signing", t>> \in DOMAIN docs /\ docs[<<"signing", t>>] = Collect(<<"signing", t>>, o)
    BY ProductionKeysThere, GoodDocs
  <1>2. Collect(<<"signing", t>>, o) = d
    BY DEF Collect
  <1>3. t \in Targets /\ roles # {}
    BY DEF ProductionMatrix, Rows
  <1>4. "ota" \in Policy[t] =>
            /\ <<"ota", t>> \in DOMAIN docs
            /\ DOMAIN OtaSigningDigests(docs[<<"ota", t>>]) = OtaRoles
            /\ \A r \in OtaRoles : OtaSigningDigests(docs[<<"ota", t>>])[r] = Digest(r, t, o)
    <2> SUFFICES ASSUME "ota" \in Policy[t]
                 PROVE  /\ <<"ota", t>> \in DOMAIN docs
                        /\ DOMAIN OtaSigningDigests(docs[<<"ota", t>>]) = OtaRoles
                        /\ \A r \in OtaRoles :
                            OtaSigningDigests(docs[<<"ota", t>>])[r] = Digest(r, t, o)
      OBVIOUS
    <2>1. t \in Rows("ota")
      BY <1>3 DEF Rows
    <2>2. <<"ota", t>> \in DOMAIN docs /\ docs[<<"ota", t>>] = Collect(<<"ota", t>>, o)
      BY <2>1, ProductionKeysThere, GoodDocs
    <2>3. Collect(<<"ota", t>>, o) = ProduceOta(t, o)
      BY DEF Collect
    <2> QED BY <2>2, <2>3, SigningFields DEF OtaSigningDigests
  <1>5. /\ Successful(d, t, o, roles)
        /\ \A r \in roles : d.outputs[r] = Digest(IF r \in OtaRoles THEN r ELSE "xz", t, o)
    BY SigningFields
  <1>6. DOMAIN outputs \subseteq OtaRoles /\ \A r \in DOMAIN outputs : outputs[r] = Digest(r, t, o)
    BY <1>4
  <1> HIDE DEF d, outputs, docs
  <1>7. /\ SameSubject(d, c, t) /\ DOMAIN d.results = roles
        /\ \A r \in roles : d.results[r] = "passed"
    BY <1>5, GoodSubject
  <1>8. d.shape = "ok"
    BY <1>5 DEF Successful
  <1>9. c.bound[t] # {} => Digest("xz", t, o) \in c.bound[t]
    BY <1>3, GoodDigests, UnboundRow
  <1> HIDE DEF roles, c, o
  <1>10. \A r \in roles :
            /\ r = "release-artifact" /\ c.bound[t] # {} => d.outputs[r] \in c.bound[t]
            /\ r \in DOMAIN outputs => d.outputs[r] = outputs[r]
    BY <1>5, <1>6, <1>9 DEF OtaRoles
  <1>11. ValidateSigningManifest(d, outputs, c, t)
    BY <1>3, <1>7, <1>8, <1>10 DEF ValidateSigningManifest, roles
  <1> QED BY <1>1, <1>2, <1>11 DEF SigningInput, outputs, docs, o, c

\* hardware-subject.json, against the station's record of the same row.
LEMMA HardwareAccepted ==
    ASSUME NEW p, GoodSource(p), p.version \in Ga, ProductionMatrix, NEW t \in Rows("hardware")
    PROVE  HardwareInput(Workspace(p), ContextFor(p), t)
  <1> DEFINE o == Origin(p)
             c == ContextFor(p)
             docs == Workspace(p).docs
             d == CollectHardware(t, o)
             a == CreateAcquisition(t, o)
             r == StationRegistry(o)
  <1>1. <<"hardware", t>> \in DOMAIN docs /\ docs[<<"hardware", t>>] = Collect(<<"hardware", t>>, o)
    BY ProductionKeysThere, GoodDocs
  <1>2. t \in LabDirectories(docs)
    BY <1>1 DEF LabDirectories
  <1>3. <<"acquisition", t>> \in OperatorKeys(p.version)
    BY <1>2, DirectoryRows
  <1>4. /\ <<"acquisition", t>> \in DOMAIN docs
        /\ docs[<<"acquisition", t>>] = Collect(<<"acquisition", t>>, o)
    BY <1>3, GoodDocs
  <1>5. Collect(<<"hardware", t>>, o) = d /\ Collect(<<"acquisition", t>>, o) = a
    BY DEF Collect
  <1>6. /\ Successful(d, t, o, {})
        /\ d.readback = Digest("raw", t, o) /\ d.rawImage = Digest("raw", t, o)
        /\ d.event = "readback" /\ d.station = "station" /\ d.fixture = "fixture"
        /\ d.storage = "disk" /\ d.registry = r
    BY HardwareFields
  <1>7. /\ Successful(a, t, o, Adapters)
        /\ a.artifact = Digest("raw", t, o) /\ a.readback = Digest("raw", t, o)
        /\ a.storage = "disk" /\ a.station = "station" /\ a.registry = r
    BY AcquisitionFields
  <1>8. r.station = "station" /\ r.fixture = "fixture" /\ r.storage = {"disk"}
    BY RegistryFields
  <1>9. c.registry = r
    BY ContextFields
  <1>10. t \in Targets
    BY DEF Rows
  <1>11. c.bound[t] # {} => Digest("raw", t, o) \in c.bound[t]
    BY <1>10, GoodDigests, UnboundRow
  <1> HIDE DEF d, a, r, docs
  <1>12. SameSubject(d, c, t) /\ SameSubject(a, c, t) /\ DOMAIN a.results = Adapters
    BY <1>6, <1>7, GoodSubject
  <1>13. d.shape = "ok"
    BY <1>6 DEF Successful
  <1> HIDE DEF c, o
  <1>14. /\ StationMeasurements(a).events = Adapters
         /\ StationMeasurements(a).readbacks = {a.readback}
         /\ StationMeasurements(a).storage # {} => StationMeasurements(a).storage = {"disk"}
    BY <1>7, <1>12 DEF StationMeasurements, ProductionMatrix
  <1>15. ValidateHardwareSubject(d, a, c, t)
    BY <1>6, <1>7, <1>8, <1>9, <1>11, <1>12, <1>13, <1>14
       DEF ValidateHardwareSubject, ProductionMatrix
  <1> QED BY <1>1, <1>4, <1>5, <1>15 DEF HardwareInput, docs, o, c

\* produce-ota-artifacts.py and the runtime suite.
LEMMA SuitesAccepted ==
    ASSUME NEW p, GoodSource(p), p.version \in Ga
    PROVE  /\ \A t \in Rows("ota") : OtaInput(Workspace(p), ContextFor(p), t)
           /\ RuntimeInputs(Workspace(p), ContextFor(p))
  <1> DEFINE o == Origin(p)
             c == ContextFor(p)
             docs == Workspace(p).docs
  <1>1. ASSUME NEW t \in Rows("ota")
        PROVE  OtaInput(Workspace(p), c, t)
    <2> DEFINE d == ProduceOta(t, o)
    <2>1. <<"ota", t>> \in DOMAIN docs /\ docs[<<"ota", t>>] = Collect(<<"ota", t>>, o)
      BY ProductionKeysThere, GoodDocs
    <2>2. Collect(<<"ota", t>>, o) = d
      BY DEF Collect
    <2>3. Successful(d, t, o, {"ota_contract"} \cup OtaRoles)
      BY SigningFields
    <2> HIDE DEF d
    <2>4. /\ SameSubject(d, c, t) /\ DOMAIN d.results = {"ota_contract"} \cup OtaRoles
          /\ d.results["ota_contract"] = "passed"
      BY <2>3, GoodSubject
    <2>5. d.shape = "ok" /\ "ota" \in Policy[t]
      BY <2>3 DEF Successful, Rows
    <2>6. ValidateOtaArtifacts(d, c, t)
      BY <2>4, <2>5 DEF ValidateOtaArtifacts
    <2> QED BY <2>1, <2>2, <2>6 DEF OtaInput
  <1>2. ASSUME NEW t \in Rows("runtime")
        PROVE  /\ <<"runtime", t>> \in DOMAIN docs
               /\ ValidateRuntimeSuite(docs[<<"runtime", t>>], c, t)
    <2> DEFINE d == CollectRuntime(t, o)
    <2>1. <<"runtime", t>> \in DOMAIN docs /\ docs[<<"runtime", t>>] = Collect(<<"runtime", t>>, o)
      BY ProductionKeysThere, GoodDocs
    <2>2. Collect(<<"runtime", t>>, o) = d
      BY DEF Collect
    <2>3. Successful(d, t, o, Scenarios)
      BY TestFields
    <2> HIDE DEF d
    <2>4. /\ SameSubject(d, c, t) /\ DOMAIN d.results = Scenarios
          /\ \A i \in Scenarios : d.results[i] = "passed" /\ d.raw[i] = "passed"
      BY <2>3, GoodSubject
    <2>5. d.shape = "ok" /\ d.files
      BY <2>3 DEF Successful
    <2>6. ValidateRuntimeSuite(d, c, t)
      BY <2>4, <2>5 DEF ValidateRuntimeSuite, ValidateScenario, ObservedOutcome
    <2> QED BY <2>1, <2>2, <2>6
  <1> QED BY <1>1, <1>2 DEF RuntimeInputs

\* Role bindings and retention.
LEMMA GovernanceAccepted ==
    ASSUME NEW p, GoodSource(p), p.version \in Ga
    PROVE  ProductionGovernance(Workspace(p), ContextFor(p))
  <1> DEFINE o == Origin(p)
             c == ContextFor(p)
             docs == Workspace(p).docs
             d == CollectRoles("all", o)
             e == ProduceRetention("all", o)
  <1>1. /\ All("roles") \in DOMAIN docs /\ docs[All("roles")] = Collect(All("roles"), o)
        /\ All("retention") \in DOMAIN docs /\ docs[All("retention")] = Collect(All("retention"), o)
    BY ProductionKeysThere, GoodDocs
  <1>2. Collect(All("roles"), o) = d /\ Collect(All("retention"), o) = e
    BY DEF Collect, All
  <1>3. /\ Successful(d, "all", o, {"release-owner", "security-owner"})
        /\ Successful(e, "all", o, {"export", "replay-test"})
        /\ e.retainUntil = o.at + RetentionLife
    BY GovernanceFields
  <1> HIDE DEF d, e
  <1>4. /\ d.version = p.version /\ DOMAIN d.results = {"release-owner", "security-owner"}
        /\ \A i \in DOMAIN d.results : d.results[i] = "passed"
    BY <1>3, GoodSubject
  <1>5. /\ e.version = p.version /\ e.sha = p.sha /\ e.run = p.run
        /\ DOMAIN e.results = {"export", "replay-test"}
        /\ \A i \in DOMAIN e.results : e.results[i] = "passed"
    BY <1>3, GoodSubject
  <1>6. d.shape = "ok" /\ e.shape = "ok"
    BY <1>3 DEF Successful
  <1>7. e.retainUntil > p.at
    BY <1>3, EvidenceAssumption DEF GoodSource, Origin
  <1>8. ValidateRoleBindings(d, c)
    BY <1>4, <1>6, ContextFields DEF ValidateRoleBindings
  <1>9. ValidateRetention(e, c)
    BY <1>5, <1>6, <1>7, ContextFields DEF ValidateRetention
  <1> QED BY <1>1, <1>2, <1>8, <1>9 DEF ProductionGovernance

\* What only production-candidate asks for, asked of good evidence.
LEMMA ProductionAccepted ==
    ASSUME NEW p, GoodSource(p), p.profile = "production-candidate", ProductionMatrix, NoWildcard,
           Repairs = RepairNames
    PROVE  ProductionInputs(Workspace(p), ContextFor(p), p.profile)
  <1>1. p.version \in Ga
    BY DEF GoodSource, ProfileAllowed
  <1>2. ProductionRows(Workspace(p), ContextFor(p))
    BY <1>1, SigningAccepted, HardwareAccepted, SuitesAccepted DEF ProductionRows
  <1>3. ValidateSubjectGraph(Workspace(p).graph, Workspace(p).binding, Workspace(p).docs,
                             ContextFor(p).version, p.profile, ContextFor(p).sha, ContextFor(p).run)
    BY GraphAccepted, ContextFields DEF RepairNames
  <1> QED BY <1>1, <1>2, <1>3, AcquisitionAccepted, SessionsAccepted, SuitesAccepted,
             GovernanceAccepted DEF ProductionInputs

-------------------------------------------------------------------------------
(* Good evidence passes *)

\* With the three repairs of the pipeline it needs, a release candidate with good
\* evidence for its build is never refused by the validation of its inputs
\* (GoodEvidencePasses), from any build matrix.
THEOREM GoodCandidateIsAccepted ==
    ASSUME {"collected-files", "raw-path", "audit-layout"} \subseteq Repairs, NoWildcard
    PROVE  Spec => [](preflight.profile = "release-candidate" => GoodEvidencePasses)
  <1>1. ASSUME GateInv, EvidenceInv, AcceptInv, TypeOK, preflight.profile = "release-candidate"
        PROVE  GoodEvidencePasses
    <2> SUFFICES ASSUME preflight.step = "refused", GoodEvidence(preflight)
                 PROVE  FALSE
      BY DEF GoodEvidencePasses
    <2>1. preflight.profile \in Strict /\ now \in Nat
      BY <1>1 DEF Strict, TypeOK
    <2>2. GoodSource(preflight)
      BY <1>1, <2>1, GoodEvidenceSource
    <2>3. Passes(preflight)
      BY <1>1, <2>2, StrictAccepted
    <2> QED BY <1>1, <2>3 DEF AcceptInv
  <1> QED BY <1>1, GateInvariance, EvidenceInvariance, AcceptInvariance, GateTypes, PTL

\* With the four repairs, and from a build matrix that a production release can
\* be made from, no strict preflight with good evidence for its build is refused
\* (GoodEvidencePasses).
THEOREM GoodEvidenceIsAccepted ==
    ASSUME Repairs = RepairNames, NoWildcard, ProductionMatrix
    PROVE  Spec => []GoodEvidencePasses
  <1>1. ASSUME GateInv, EvidenceInv, AcceptInv, TypeOK
        PROVE  GoodEvidencePasses
    <2> SUFFICES ASSUME preflight.step = "refused", preflight.profile \in Strict,
                        GoodEvidence(preflight)
                 PROVE  FALSE
      BY DEF GoodEvidencePasses
    <2>1. now \in Nat
      BY <1>1 DEF TypeOK
    <2>2. GoodSource(preflight)
      BY <1>1, <2>1, GoodEvidenceSource DEF RepairNames
    <2>3. {"collected-files", "raw-path", "artifact-path"} \subseteq Repairs
      BY DEF RepairNames
    <2>4. Passes(preflight)
      BY <2>2, <2>3, GraphAccepted, ProductionAccepted, StrictAccepted
    <2> QED BY <1>1, <2>4 DEF AcceptInv
  <1> QED BY <1>1, GateInvariance, EvidenceInvariance, AcceptInvariance, GateTypes, PTL

===============================================================================
