------------------------- MODULE ReleaseEvidenceProofs -------------------------
(*****************************************************************************)
(* Theorems about the evidence an authorised release rests on, for every     *)
(* build matrix, policy and version, and for every bundle the operator may    *)
(* assemble: with documents kept from an earlier round, or with any one flaw. *)
(*                                                                           *)
(* The argument has two halves.  An accepted document is one that a collector *)
(* wrote, with at most one thing changed (DocumentForms, AcceptedCopy); and   *)
(* each thing that could have been changed is what some validator looks at    *)
(* (GlobalHolds, RowHolds, AllThere).                                         *)
(*****************************************************************************)
EXTENDS ReleaseGateProofs, WellFoundedInduction

-------------------------------------------------------------------------------
(* Documents and their flaws *)

\* Everything about d that does not depend on which flaw it has: d is a document
\* e of key k with at most one thing changed.
Altered(d, e, k) ==
    /\ DOMAIN d = DOMAIN e
    /\ \A x \in DOMAIN e \ {"results", "raw", "files", "shape", "facts", "order"} : d[x] = e[x]
    /\ DOMAIN d.results \subseteq DOMAIN e.results
    /\ DOMAIN d.raw \subseteq DOMAIN e.raw
    /\ k[1] = "security" => DOMAIN d.raw = DOMAIN e.raw
    /\ \A i \in DOMAIN d.results :
        d.results[i] = e.results[i] \/ (i \in DOMAIN d.raw /\ d.raw[i] = "failed")
    /\ k[1] = "acquisition" =>
        d.order = e.order \/ d.order = [i \in DOMAIN e.order |-> e.order[Len(e.order) + 1 - i]]

\* What Flawed needs of a document.
Complete(e, k) ==
    /\ {"results", "raw", "files", "shape"} \subseteq DOMAIN e
    /\ DOMAIN e.raw = DOMAIN e.results
    /\ Outcomes(k, e) \subseteq DOMAIN e.results
    /\ k[1] = "qemu" => "facts" \in DOMAIN e
    /\ k[1] = "acquisition" => "order" \in DOMAIN e

\* The flaws of a document, by kind (Flaws).
LEMMA FlawForms ==
    ASSUME NEW k, NEW v, NEW o, NEW f \in Flaws(k, v, o)
    PROVE  /\ f.key = k
           /\ \/ f.kind \in {"failed", "edited"} /\ f.item \in Outcomes(k, Collect(k, o))
              \/ f.kind = "dropped" /\ f.item \in DOMAIN Collect(k, o).results
              \/ f.kind \in {"damaged", "wrong-schema", "malformed", "missing"}
              \/ f.kind = "misfiled" /\ f.from \in OperatorKeys(v) /\ f.from[1] = k[1]
              \/ f.kind = "reordered" /\ k[1] = "acquisition"
  BY DEF Flaws

\* A document is itself with nothing changed.
LEMMA AlteredSame ==
    ASSUME NEW e, NEW k
    PROVE  Altered(e, e, k)
  BY DEF Altered

\* Flawed changes one thing: a result only where the raw evidence says so, the
\* order only to its reverse.
LEMMA FlawedIsAltered ==
    ASSUME NEW k, NEW v, NEW o, NEW f \in Flaws(k, v, o), f.kind \notin {"missing", "misfiled"},
           NEW e, e = Collect(k, o), Complete(e, k)
    PROVE  Altered(Flawed(e, f, o), e, k)
  <1> DEFINE d == Flawed(e, f, o)
  <1> SUFFICES Altered(d, e, k)
    OBVIOUS
  <1>0. f.key = k
    BY FlawForms
  <1>1. CASE f.kind \in {"failed", "edited"}
    <2>1. f.item \in Outcomes(k, e) /\ f.item \in DOMAIN e.results /\ f.item \in DOMAIN e.raw
      BY <1>1, FlawForms DEF Complete
    <2> DEFINE res == IF f.kind = "failed" THEN [e.results EXCEPT ![f.item] = "failed"] ELSE e.results
               raw == [e.raw EXCEPT ![f.item] = "failed"]
    <2>2. /\ DOMAIN d = DOMAIN e /\ d.results = res /\ d.raw = raw
          /\ \A x \in DOMAIN e \ {"results", "raw", "facts"} : d[x] = e[x]
      BY <1>0, <1>1 DEF Flawed, Complete
    <2>3. /\ DOMAIN res = DOMAIN e.results /\ DOMAIN raw = DOMAIN e.raw
          /\ raw[f.item] = "failed"
          /\ \A i \in DOMAIN res : i # f.item => res[i] = e.results[i]
      BY <2>1
    <2> HIDE DEF d, res, raw
    <2>4. k[1] = "acquisition" => d.order = e.order
      BY <2>2 DEF Complete
    <2> QED BY <2>1, <2>2, <2>3, <2>4 DEF Altered
  <1>2. CASE f.kind = "dropped"
    <2> DEFINE raw == IF k[1] = "security" THEN e.raw ELSE Without(e.raw, f.item)
    <2>1. /\ DOMAIN d = DOMAIN e /\ d.results = Without(e.results, f.item) /\ d.raw = raw
          /\ \A x \in DOMAIN e \ {"results", "raw"} : d[x] = e[x]
      BY <1>0, <1>2 DEF Flawed, Complete
    <2>2. /\ DOMAIN Without(e.results, f.item) \subseteq DOMAIN e.results
          /\ \A i \in DOMAIN Without(e.results, f.item) :
                Without(e.results, f.item)[i] = e.results[i]
          /\ DOMAIN Without(e.raw, f.item) \subseteq DOMAIN e.raw
      BY DEF Without
    <2> HIDE DEF d
    <2>3. k[1] = "acquisition" => d.order = e.order
      BY <2>1 DEF Complete
    <2> QED BY <2>1, <2>2, <2>3 DEF Altered
  <1>3. CASE f.kind \in {"damaged", "wrong-schema", "malformed"}
    <2>1. /\ DOMAIN d = DOMAIN e
          /\ \A x \in DOMAIN e \ {"files", "shape"} : d[x] = e[x]
      BY <1>3 DEF Flawed, Complete
    <2> HIDE DEF d
    <2>2. d.results = e.results /\ d.raw = e.raw /\ (k[1] = "acquisition" => d.order = e.order)
      BY <2>1 DEF Complete
    <2> QED BY <2>1, <2>2 DEF Altered
  <1>4. CASE f.kind = "reordered"
    <2>1. /\ DOMAIN d = DOMAIN e
          /\ \A x \in DOMAIN e \ {"order"} : d[x] = e[x]
          /\ d.order = [i \in DOMAIN e.order |-> e.order[Len(e.order) + 1 - i]]
      BY <1>4, FlawForms DEF Flawed, Complete
    <2> HIDE DEF d
    <2>2. d.results = e.results /\ d.raw = e.raw
      BY <2>1 DEF Complete
    <2> QED BY <2>1, <2>2 DEF Altered
  <1> QED BY <1>1, <1>2, <1>3, <1>4, FlawForms

-------------------------------------------------------------------------------
(* Documents as they are collected *)

Fields == {"version", "target", "sha", "run", "results", "raw", "files", "shape"}

\* e is an unflawed document about subject t, from origin o.
Common(e, t, o) ==
    /\ Fields \subseteq DOMAIN e
    /\ e.version = o.version /\ e.target = t /\ e.sha = o.sha /\ e.run = o.run
    /\ e.files = TRUE /\ e.shape = "ok"
    /\ DOMAIN e.raw = DOMAIN e.results
    /\ \A i \in DOMAIN e.results : e.results[i] = "passed"

\* Collected: complete, successful and about its subject.
LEMMA CollectedCommon ==
    ASSUME NEW t, NEW o, NEW items
    PROVE  Common(Collected(t, o, items), t, o)
  BY DEF Common, Collected, Passed, Fields

\* A collector's own fields do not replace those.
LEMMA OverCommon ==
    ASSUME NEW e, NEW t, NEW o, NEW own, Common(e, t, o)
    PROVE  Common(Over(e, own), t, o)
  BY DEF Common, Over, Fields

\* Nor does a station's signature.
LEMMA SignCommon ==
    ASSUME NEW t, NEW o, NEW items
    PROVE  /\ Common(SignStationBundle(Collected(t, o, items)), t, o)
           /\ DOMAIN SignStationBundle(Collected(t, o, items)) = Fields
           /\ SignStationBundle(Collected(t, o, items)).results = Passed(items)
           /\ SignStationBundle(Collected(t, o, items)).raw = Passed(items)
  BY DEF Common, Collected, Passed, Fields, SignStationBundle

\* The subject of the documents that are about everything.
Global == {"registry", "audit-log", "roles", "retention"}
Kinds == Global \cup {"security", "qemu", "lab", "hardware", "acquisition", "signing", "hsm",
                      "runtime", "ota", "approval", "repro"}

\* The kinds of documents an operator supplies, and their subjects.
LEMMA KeyForm ==
    ASSUME NEW v, NEW k \in OperatorKeys(v)
    PROVE  /\ k[1] \in Kinds
           /\ k[1] \in Global => k = <<k[1], "all">> /\ k[2] = "all"
           /\ k = <<k[1], k[2]>>
  BY DEF OperatorKeys, RequiredPaths, At, All, Kinds, Global

\* Every collector writes the common fields of its document.
LEMMA CollectCommon ==
    ASSUME NEW v, NEW k \in OperatorKeys(v), NEW o
    PROVE  Common(Collect(k, o), k[2], o)
  <1>1. CASE k[1] = "registry"
    BY <1>1, KeyForm, CollectedCommon, OverCommon, SignCommon DEF Collect, StationRegistry, Global
  <1>2. CASE k[1] = "audit-log"
    BY <1>2, KeyForm, CollectedCommon, OverCommon, SignCommon DEF Collect, Global
  <1>3. CASE k[1] = "roles"
    BY <1>3, KeyForm, CollectedCommon, OverCommon, SignCommon DEF Collect, CollectRoles, Global
  <1>4. CASE k[1] = "retention"
    BY <1>4, KeyForm, CollectedCommon, OverCommon, SignCommon DEF Collect, ProduceRetention, Global
  <1>5. CASE k[1] = "security"
    BY <1>5, KeyForm, CollectedCommon, OverCommon, SignCommon DEF Collect, CollectScan
  <1>6. CASE k[1] = "qemu"
    BY <1>6, KeyForm, CollectedCommon, OverCommon, SignCommon DEF Collect, CollectQemu
  <1>7. CASE k[1] = "lab"
    BY <1>7, KeyForm, CollectedCommon, OverCommon, SignCommon DEF Collect, CollectLab
  <1>8. CASE k[1] = "hardware"
    BY <1>8, KeyForm, CollectedCommon, OverCommon, SignCommon DEF Collect, CollectHardware
  <1>9. CASE k[1] = "acquisition"
    BY <1>9, KeyForm, CollectedCommon, OverCommon, SignCommon DEF Collect, CreateAcquisition
  <1>10. CASE k[1] = "signing"
    BY <1>10, KeyForm, CollectedCommon, OverCommon, SignCommon DEF Collect, CollectSigning
  <1>11. CASE k[1] = "hsm"
    BY <1>11, KeyForm, CollectedCommon, OverCommon, SignCommon DEF Collect, CollectHsm
  <1>12. CASE k[1] = "runtime"
    BY <1>12, KeyForm, CollectedCommon, OverCommon, SignCommon DEF Collect, CollectRuntime
  <1>13. CASE k[1] = "ota"
    BY <1>13, KeyForm, CollectedCommon, OverCommon, SignCommon DEF Collect, ProduceOta
  <1>14. CASE k[1] = "approval"
    BY <1>14, KeyForm, CollectedCommon, OverCommon, SignCommon DEF Collect, CollectApproval
  <1>15. CASE k[1] = "repro"
    BY <1>15, KeyForm, CollectedCommon, OverCommon, SignCommon DEF Collect, CollectRepro
  <1> QED BY <1>1, <1>2, <1>3, <1>4, <1>5, <1>6, <1>7, <1>8, <1>9, <1>10, <1>11, <1>12, <1>13, <1>14, <1>15, KeyForm DEF Kinds, Global

\* What Flawed changes is there to be changed.
LEMMA CollectComplete ==
    ASSUME NEW v, NEW k \in OperatorKeys(v), NEW o
    PROVE  Complete(Collect(k, o), k)
  <1>1. Common(Collect(k, o), k[2], o)
    BY CollectCommon
  <1>2. k[1] = "qemu" => "facts" \in DOMAIN Collect(k, o)
    BY DEF Collect, CollectQemu, Over
  <1>3. k[1] = "acquisition" => "order" \in DOMAIN Collect(k, o)
    BY DEF Collect, CreateAcquisition, Over
  <1>4. k[1] = "approval" => "decision" \in DOMAIN Collect(k, o).results
    BY DEF Collect, CollectApproval, Over, Collected, Passed
  <1>5. k[1] = "ota" => "ota_contract" \in DOMAIN Collect(k, o).results
    BY DEF Collect, ProduceOta, Over, Collected, Passed
  <1>6. Outcomes(k, Collect(k, o)) \subseteq DOMAIN Collect(k, o).results
    BY <1>4, <1>5 DEF Outcomes
  <1> QED BY <1>1, <1>2, <1>3, <1>6 DEF Complete, Common, Fields

-------------------------------------------------------------------------------
(* Bundles *)

\* An origin names one build: run i builds commit i.
BundleOK(b) ==
    /\ b.origin.version = b.version
    /\ b.origin.sha = b.origin.run
    /\ b.old.sha = b.old.run
    /\ b.flaw = NoFlaw
       \/ /\ b.kept = {}
          /\ b.flaw.key \in OperatorKeys(b.version)
          /\ b.flaw \in Flaws(b.flaw.key, b.version, b.origin)

\* The origin of the document of key k.
OriginIn(b, k) == IF k \in b.kept THEN b.old ELSE b.origin

\* A document of a bundle is the collected one with at most one flaw, or that
\* of another subject.
LEMMA DocumentForms ==
    ASSUME NEW b, BundleOK(b), NEW k \in DOMAIN Documents(b)
    PROVE  /\ k \in OperatorKeys(b.version)
           /\ \E q \in OperatorKeys(b.version) :
                /\ q[1] = k[1]
                /\ Altered(Documents(b)[k], Collect(q, OriginIn(b, k)), q)
  <1> DEFINE o == OriginIn(b, k)
  <1>0. k \in OperatorKeys(b.version)
    BY DEF Documents
  <1>1. CASE b.flaw = NoFlaw \/ b.flaw.key # k
    <2>1. Documents(b)[k] = Collect(k, o)
      BY <1>1 DEF Documents, OriginIn, NoFlaw
    <2> QED BY <1>0, <2>1, AlteredSame
  <1>2. CASE b.flaw # NoFlaw /\ b.flaw.key = k
    <2>1. b.flaw \in Flaws(k, b.version, b.origin) /\ o = b.origin
      BY <1>2 DEF BundleOK, OriginIn
    <2>2. b.flaw.kind # "none" /\ b.flaw.kind # "missing"
      BY <1>2, <2>1, FlawForms DEF Documents
    <2>3. Documents(b)[k] = Flawed(Collect(k, o), b.flaw, o)
      BY <1>2, <2>2 DEF Documents, OriginIn
    <2>4. CASE b.flaw.kind = "misfiled"
      <3>1. Documents(b)[k] = Collect(b.flaw.from, o)
        BY <2>3, <2>4 DEF Flawed
      <3>2. b.flaw.from \in OperatorKeys(b.version) /\ b.flaw.from[1] = k[1]
        BY <2>1, <2>4, FlawForms
      <3> QED BY <1>0, <3>1, <3>2, AlteredSame
    <2>5. CASE b.flaw.kind # "misfiled"
      <3>1. Complete(Collect(k, o), k)
        BY <1>0, CollectComplete
      <3>2. Altered(Documents(b)[k], Collect(k, o), k)
        BY <2>1, <2>2, <2>3, <2>5, <3>1, FlawedIsAltered
      <3> QED BY <1>0, <3>2
    <2> QED BY <2>4, <2>5
  <1> QED BY <1>1, <1>2

\* The bundle a strict preflight works on.
StagedOK(q) == BundleOK(q.bundle) /\ q.version = q.bundle.version

StrictOK(p) == p.profile \in Strict => StagedOK(p.staged) /\ p.staged.version = p.version

EvidenceInv ==
    /\ bundle.count \in Nat
    /\ bundle.count > 0 => BundleOK(bundle)
    /\ \A q \in staged : StagedOK(q)
    /\ preflight.step # "idle" => StrictOK(preflight)
    /\ \A a \in artifacts : StrictOK(a)

\* The invariant holds initially.
LEMMA EvidenceInit ==
    ASSUME Init
    PROVE  EvidenceInv
  BY DEF Init, EvidenceInv, NoBundle, Idle

\* A bundle is assembled as BundleOK says: of one origin, or of two that follow
\* each other, with at most one flaw.
LEMMA AssembleOK ==
    ASSUME EvidenceInv, NEW v, NEW r, NEW kept, NEW flaw, AssembleBundle(v, r, kept, flaw),
           flaw = NoFlaw
           \/ /\ kept = {}
              /\ flaw.key \in OperatorKeys(v)
              /\ flaw \in Flaws(flaw.key, v, OriginOf(v, r))
    PROVE  EvidenceInv'
  <1>1. UNCHANGED <<staged, preflight, artifacts>>
    BY DEF AssembleBundle
  <1>2. /\ bundle'.count = bundle.count + 1 /\ bundle'.version = v
        /\ bundle'.origin = OriginOf(v, r) /\ bundle'.kept = kept /\ bundle'.flaw = flaw
        /\ bundle'.old = IF kept = {} THEN OriginOf(v, r) ELSE bundle.origin
    BY DEF AssembleBundle
  <1>3. OriginOf(v, r).version = v /\ OriginOf(v, r).sha = OriginOf(v, r).run
    BY DEF OriginOf
  <1>4. kept # {} => bundle.origin.sha = bundle.origin.run
    BY DEF AssembleBundle, EvidenceInv, BundleOK
  <1>5. BundleOK(bundle')
    BY <1>2, <1>3, <1>4 DEF BundleOK
  <1> QED BY <1>1, <1>2, <1>5 DEF EvidenceInv

\* The operator's steps preserve the invariant.
LEMMA EvidenceOperator ==
    ASSUME EvidenceInv, OperatorStep
    PROVE  EvidenceInv'
  <1>1. ASSUME NEW v \in Versions, NEW r \in Commits, NEW k \in OperatorKeys(v),
               NEW flaw \in Flaws(k, v, OriginOf(v, r)), AssembleBundle(v, r, {}, flaw)
        PROVE  EvidenceInv'
    <2>1. flaw.key = k
      BY FlawForms
    <2> QED BY <1>1, <2>1, AssembleOK
  <1>2. ASSUME NEW v \in Versions, NEW r \in Commits, NEW kept, AssembleBundle(v, r, kept, NoFlaw)
        PROVE  EvidenceInv'
    BY <1>2, AssembleOK
  <1>3. ASSUME NEW r, StageEvidence(r)
        PROVE  EvidenceInv'
    <2> DEFINE s == [bundle |-> bundle, version |-> bundle.version, sha |-> r, run |-> r,
                     attempt |-> runs[r].attempt, at |-> now]
    <2>1. UNCHANGED <<bundle, preflight, artifacts>> /\ staged' = staged \cup {s}
          /\ bundle.count > 0
      BY <1>3 DEF StageEvidence
    <2>2. StagedOK(s)
      BY <2>1 DEF StagedOK, EvidenceInv
    <2> QED BY <2>1, <2>2 DEF EvidenceInv
  <1>4. ASSUME NEW v, NEW c, NEW note, PushTag(v, c, note)
        PROVE  EvidenceInv'
    BY <1>4 DEF PushTag, EvidenceInv
  <1> QED BY <1>1, <1>2, <1>3, <1>4 DEF OperatorStep

\* The steps of the preflight workflow preserve it: the bundle a strict
\* preflight takes is a staged one, of the version it releases.
LEMMA EvidencePreflight ==
    ASSUME EvidenceInv, GateInv, PreflightStep
    PROVE  EvidenceInv'
  <1>0. UNCHANGED <<bundle, staged>>
    BY PreflightFrame
  <1>1. ASSUME NEW profile \in Profiles, NEW v, NEW r,
               NEW s \in IF profile \in Strict THEN staged ELSE {None},
               ResolveSource(profile, v, r, s)
        PROVE  EvidenceInv'
    <2>1. /\ preflight'.profile = profile /\ preflight'.version = v /\ preflight'.staged = s
          /\ artifacts' = artifacts
      BY <1>1 DEF ResolveSource, GateInv, PreflightOK, Idle
    <2>2. profile \in Strict => s \in staged /\ s.version = v
      BY <1>1 DEF ResolveSource
    <2>3. StrictOK(preflight')
      BY <2>1, <2>2 DEF StrictOK, EvidenceInv
    <2> QED BY <1>0, <2>1, <2>3 DEF EvidenceInv
  <1>2. ASSUME NEW lost, NEW seen, NEW after, NEW checks,
               BindArtifacts(lost, seen, after, checks)
        PROVE  EvidenceInv'
    <2>1. /\ preflight'.profile = preflight.profile /\ preflight'.version = preflight.version
          /\ preflight'.staged = preflight.staged /\ artifacts' = artifacts
          /\ preflight.step = "resolved"
      BY <1>2 DEF BindArtifacts, GateInv, PreflightOK, Idle
    <2>2. StrictOK(preflight')
      BY <2>1 DEF StrictOK, EvidenceInv
    <2> QED BY <1>0, <2>1, <2>2 DEF EvidenceInv
  <1>3. CASE FinishPreflight
    <2> DEFINE p == [preflight EXCEPT !.at = now]
               x == [p EXCEPT !.step = "refused"]
    <2>1. /\ p.profile = preflight.profile /\ p.version = preflight.version
          /\ p.staged = preflight.staged
          /\ x.profile = preflight.profile /\ x.version = preflight.version
          /\ x.staged = preflight.staged
      BY DEF GateInv, PreflightOK, Idle
    <2>2. preflight.step = "bound"
      BY <1>3 DEF FinishPreflight
    <2>3. \/ artifacts' = artifacts \cup {p} /\ preflight' = Idle(p.count)
          \/ artifacts' = artifacts /\ preflight' = x
      BY <1>3 DEF FinishPreflight
    <2> HIDE DEF p, x
    <2>4. StrictOK(p) /\ StrictOK(x)
      BY <2>1, <2>2 DEF StrictOK, EvidenceInv
    <2>5. Idle(p.count).step = "idle"
      BY DEF Idle
    <2> QED BY <1>0, <2>3, <2>4, <2>5 DEF EvidenceInv
  <1>4. CASE PreflightFails
    BY <1>0, <1>4 DEF PreflightFails, EvidenceInv, Idle
  <1> QED BY <1>1, <1>2, <1>3, <1>4 DEF PreflightStep

\* Every step preserves it.
LEMMA EvidenceStep ==
    ASSUME EvidenceInv, GateInv, [Next]_vars
    PROVE  EvidenceInv'
  <1>1. CASE BuildStep
    BY <1>1 DEF BuildStep, PushMain, StartRerun, RebuildPart, FinishRerun, EvidenceInv
  <1>2. CASE TagStep
    BY <1>2, TagFrame DEF EvidenceInv
  <1>3. ASSUME NEW days, Tick(days)
        PROVE  EvidenceInv'
    BY <1>3 DEF Tick, EvidenceInv
  <1>4. ASSUME NEW after, ChangeSettings(after)
        PROVE  EvidenceInv'
    BY <1>4 DEF ChangeSettings, EvidenceInv
  <1>5. ASSUME NEW lost, NEW seen, NEW after, GovernanceDrift(lost, seen, after)
        PROVE  EvidenceInv'
    BY <1>5 DEF GovernanceDrift, EvidenceInv
  <1>6. CASE UNCHANGED vars
    BY <1>6 DEF vars, EvidenceInv
  <1> QED BY <1>1, <1>2, <1>3, <1>4, <1>5, <1>6, EvidenceOperator, EvidencePreflight DEF Next

\* Every bundle, staged or taken by a preflight, was assembled by the operator
\* for the version it is used for.
THEOREM EvidenceInvariance == Spec => []EvidenceInv
  <1>1. Init => EvidenceInv
    BY EvidenceInit
  <1>2. EvidenceInv /\ GateInv /\ [Next]_vars => EvidenceInv'
    BY EvidenceStep
  <1> QED BY <1>1, <1>2, GateInvariance, PTL DEF Spec

-------------------------------------------------------------------------------
(* What an authorised tag rests on *)

\* A tag that every gate has let through.
Ready(g) ==
    /\ TagBound(g)
    /\ StrictOK(g.artifact)
    /\ g.artifact.sha = g.artifact.run
    /\ Validated(g)

Docs(g) == Workspace(g.artifact).docs
BundleOf(g) == g.artifact.staged.bundle
ContextOf(g) == Context(Workspace(g.artifact), g.name, g.commit, g.run, g.at)

\* An authorised tag has passed every gate.
LEMMA AuthorisedReady ==
    ASSUME GateInv, EvidenceInv, Authorised
    PROVE  Ready(tag)
  <1>1. TagBound(tag) /\ Validated(tag) /\ tag.artifact \in artifacts
    BY DEF GateInv, TagOK, Authorised
  <1>2. Bound(tag.artifact, main, runs) /\ StrictOK(tag.artifact)
    BY <1>1 DEF GateInv, ArtifactsOK, EvidenceInv
  <1> QED BY <1>1, <1>2 DEF Ready, Bound, Resolved

\* Such a tag rests on a strict preflight of its own version and commit.
LEMMA ReadyStrict ==
    ASSUME NEW g, Ready(g)
    PROVE  /\ g.artifact.profile \in Strict /\ g.artifact.profile # "technical-dry-run"
           /\ g.artifact.profile # "rc-evidence-dry-run"
           /\ g.artifact.profile = ProfileFor(g.name) /\ g.artifact.version = g.name
           /\ BundleOK(BundleOf(g)) /\ BundleOf(g).version = g.name
           /\ g.commit = g.run
  BY DEF Ready, TagBound, StrictOK, StagedOK, ProfileFor, Strict, BundleOf

\* The documents of a strict preflight: what it collects, and the bundle's, whose
\* audit log is written anew.
LEMMA WorkspaceDocs ==
    ASSUME NEW p, p.profile \in Strict
    PROVE  /\ DOMAIN Workspace(p).docs = CollectedKeys(p.version) \cup DOMAIN Documents(p.staged.bundle)
           /\ \A k \in DOMAIN Documents(p.staged.bundle) :
                k \notin CollectedKeys(p.version) /\ "audit-layout" \in Repairs =>
                    Workspace(p).docs[k] = Documents(p.staged.bundle)[k]
  <1> DEFINE ops == RewriteAuditLog(Documents(p.staged.bundle))
             coll == [k \in CollectedKeys(p.version) |->
                IF k[1] = "governance" THEN [passed |-> TRUE]
                ELSE IF k[1] = "security" THEN CollectCheck(k[2], p.version, p.sha, p.run)
                ELSE [collected |-> p.id, shape |-> "ok"]]
             dry == [k \in IF p.profile = "rc-evidence-dry-run" THEN {All("dry-run")} ELSE {} |->
                     [shape |-> "ok"]]
  <1>1. p.profile # "technical-dry-run" /\ p.profile # "rc-evidence-dry-run"
    BY DEF Strict
  <1>2. Workspace(p).docs = Over(coll, Over(dry, ops))
    BY <1>1 DEF Workspace
  <1>3. DOMAIN coll = CollectedKeys(p.version) /\ DOMAIN dry = {}
    BY <1>1
  <1> HIDE DEF coll, dry, ops
  <1>4. /\ DOMAIN Over(coll, Over(dry, ops)) = DOMAIN coll \cup DOMAIN ops
        /\ \A k \in DOMAIN ops : k \notin DOMAIN coll => Over(coll, Over(dry, ops))[k] = ops[k]
    BY <1>3 DEF Over
  <1>5. /\ DOMAIN Workspace(p).docs = CollectedKeys(p.version) \cup DOMAIN ops
        /\ \A k \in DOMAIN ops :
                k \notin CollectedKeys(p.version) => Workspace(p).docs[k] = ops[k]
    BY <1>2, <1>3, <1>4
  <1>6. /\ DOMAIN ops = DOMAIN Documents(p.staged.bundle)
        /\ "audit-layout" \in Repairs =>
             \A k \in DOMAIN ops : ops[k] = Documents(p.staged.bundle)[k]
    BY DEF RewriteAuditLog, ops
  <1> QED BY <1>5, <1>6

\* The operator fills no key that the preflight collects.
LEMMA KeysApart ==
    ASSUME NEW v, NEW k \in OperatorKeys(v)
    PROVE  k \notin CollectedKeys(v)
  <1>1. k[1] \in Kinds
    BY KeyForm
  <1>2. k[1] = "security" => v \in Ga
    BY DEF OperatorKeys, RequiredPaths, At, All
  <1> QED BY <1>1, <1>2 DEF CollectedKeys, Kinds, Global, At, All

\* What the last validation found.
LEMMA ReadyValidated ==
    ASSUME NEW g, Ready(g)
    PROVE  /\ ValidateIngress(Workspace(g.artifact), g.name, g.commit, g.at)
           /\ LabInputs(Workspace(g.artifact), ContextOf(g))
           /\ ReleaseRows(Workspace(g.artifact), ContextOf(g))
           /\ SecurityInputs(Workspace(g.artifact), ContextOf(g))
           /\ g.name \in Ga =>
                ProductionInputs(Workspace(g.artifact), ContextOf(g), "production-candidate")
  BY DEF Ready, Validated, ValidateReleaseInputs, ProfileFor, Strict, ContextOf

\* What the validators compare the documents with.
LEMMA ContextForm ==
    ASSUME NEW g
    PROVE  /\ ContextOf(g).version = g.name /\ ContextOf(g).sha = g.commit
           /\ ContextOf(g).run = g.run /\ ContextOf(g).now = g.at
           /\ ContextOf(g).registry = Docs(g)[All("registry")]
           /\ ContextOf(g).bound = BoundDigests(Workspace(g.artifact).binding)
  BY DEF ContextOf, Context, Docs

\* The ingress manifest of a workspace expires a lifetime after it was made.
LEMMA WorkspaceIngress ==
    ASSUME NEW p
    PROVE  /\ Workspace(p).ingress.expires = p.at + IngressLife
           /\ Workspace(p).ingress.profile = p.profile
           /\ p.profile \in Strict => Workspace(p).operator = OperatorManifestOf(p.staged)
  BY DEF Workspace, CreateIngress, BindingPayload

\* What the validators find at an operator's key is what the operator's manifest
\* lists there: a file that was written over is refused.
LEMMA ReadyDocs ==
    ASSUME NEW g, Ready(g), NEW k \in DOMAIN Documents(BundleOf(g))
    PROVE  k \in DOMAIN Docs(g) /\ Docs(g)[k] = Documents(BundleOf(g))[k]
  <1> DEFINE w == Workspace(g.artifact)
  <1>1. ValidateIngress(w, g.name, g.commit, g.at) /\ w.ingress.profile \in Strict
    BY ReadyValidated, ReadyStrict, WorkspaceIngress
  <1>2. w.docs = Docs(g)
    BY DEF Docs
  <1>3. w.operator = OperatorManifestOf(g.artifact.staged)
    BY ReadyStrict, WorkspaceIngress
  <1>4. OperatorManifestOf(g.artifact.staged).files = Documents(BundleOf(g))
    BY DEF BundleOf, OperatorManifestOf, CreateOperatorManifest
  <1> HIDE DEF w
  <1> QED BY <1>1, <1>2, <1>3, <1>4 DEF ValidateIngress, ValidateOperatorIngress,
             ValidateOperatorManifest, OperatorFiles

\* An operator document that reached the validators was collected at one of the
\* two origins of its bundle.
LEMMA AcceptedForms ==
    ASSUME NEW g, Ready(g), NEW k \in OperatorKeys(g.name), k \in DOMAIN Docs(g)
    PROVE  \E q \in OperatorKeys(g.name), o \in {BundleOf(g).origin, BundleOf(g).old} :
                /\ q[1] = k[1] /\ o.sha = o.run
                /\ Altered(Docs(g)[k], Collect(q, o), q)
  <1> DEFINE b == BundleOf(g)
  <1>1. k \notin CollectedKeys(g.name)
    BY KeysApart
  <1>2. k \in DOMAIN Documents(b) /\ Docs(g)[k] = Documents(b)[k]
    <2>1. k \in DOMAIN Documents(b)
      BY <1>1, ReadyStrict, WorkspaceDocs DEF Docs, BundleOf
    <2> QED BY <2>1, ReadyDocs
  <1>3. BundleOK(b) /\ b.version = g.name
    BY ReadyStrict
  <1>4. PICK q \in OperatorKeys(g.name) :
            q[1] = k[1] /\ Altered(Documents(b)[k], Collect(q, OriginIn(b, k)), q)
    BY <1>2, <1>3, DocumentForms
  <1>5. OriginIn(b, k) \in {b.origin, b.old} /\ OriginIn(b, k).sha = OriginIn(b, k).run
    BY <1>3 DEF OriginIn, BundleOK
  <1> QED BY <1>2, <1>4, <1>5

-------------------------------------------------------------------------------
(* Nothing has expired *)

\* Every approval that an operator hands in accepts a risk until a day.
LEMMA ApprovalRisk ==
    ASSUME NEW g, Ready(g), NEW t \in Rows("release"), <<"approval", t>> \in DOMAIN Docs(g)
    PROVE  Docs(g)[<<"approval", t>>].risk = "accepted"
  <1> DEFINE k == <<"approval", t>>
  <1>1. k \in OperatorKeys(g.name)
    BY DEF OperatorKeys, RequiredPaths, At
  <1>2. PICK q \in OperatorKeys(g.name), o \in {BundleOf(g).origin, BundleOf(g).old} :
            q[1] = k[1] /\ Altered(Docs(g)[k], Collect(q, o), q)
    BY <1>1, AcceptedForms
  <1>3. Collect(q, o).risk = "accepted" /\ "risk" \in DOMAIN Collect(q, o)
    BY <1>2 DEF Collect, CollectApproval, Over, Collected
  <1> QED BY <1>2, <1>3 DEF Altered

\* Nothing an authorisation rests on has expired when it is given, however long
\* the tag workflow waited (NothingExpired).
THEOREM AuthorisedIsCurrent == Spec => []NothingExpired
  <1>1. GateInv /\ EvidenceInv => NothingExpired
    <2> SUFFICES ASSUME GateInv, EvidenceInv, Authorised
                 PROVE  /\ LabRows(tag.name) # {} => Docs(tag)[All("registry")].calibration > tag.at
                        /\ \A t \in Rows("release") : Docs(tag)[<<"approval", t>>].expires > tag.at
                        /\ tag.name \in Ga => Docs(tag)[All("retention")].retainUntil > tag.at
                        /\ OperatorManifestOf(tag.artifact.staged).expires > tag.at
                        /\ tag.artifact.at + IngressLife > tag.at
      BY DEF NothingExpired, Accepted, Docs
    <2> DEFINE w == Workspace(tag.artifact)
               c == ContextOf(tag)
    <2>0. Ready(tag)
      BY AuthorisedReady
    <2>1. /\ ValidateIngress(w, tag.name, tag.commit, tag.at) /\ LabInputs(w, c) /\ ReleaseRows(w, c)
          /\ tag.name \in Ga => ProductionInputs(w, c, "production-candidate")
      BY <2>0, ReadyValidated
    <2>2. c.now = tag.at /\ c.version = tag.name /\ c.registry = Docs(tag)[All("registry")]
          /\ w.docs = Docs(tag)
      BY ContextForm DEF Docs
    <2>3. w.ingress.expires > tag.at /\ w.operator.expires > tag.at
      <3>1. w.ingress.profile \in Strict
        BY <2>0, ReadyStrict, WorkspaceIngress
      <3> QED BY <2>1, <3>1 DEF ValidateIngress, ValidateOperatorIngress, ValidateOperatorManifest
    <2>4. w.ingress.expires = tag.artifact.at + IngressLife
          /\ w.operator = OperatorManifestOf(tag.artifact.staged)
      BY <2>0, ReadyStrict, WorkspaceIngress
    <2> HIDE DEF w, c
    <2>5. ASSUME NEW t \in LabRows(tag.name)
          PROVE  Docs(tag)[All("registry")].calibration > tag.at
      BY <2>1, <2>2 DEF LabInputs, ValidateLab, CheckStationBundle, CheckStationRegistry
    <2>6. ASSUME NEW t \in Rows("release")
          PROVE  Docs(tag)[<<"approval", t>>].expires > tag.at
      <3>1. <<"approval", t>> \in DOMAIN Docs(tag)
            /\ ValidateApproval(Docs(tag)[<<"approval", t>>], c, t)
        BY <2>1, <2>2 DEF ReleaseRows
      <3>2. Docs(tag)[<<"approval", t>>].risk = "accepted"
        BY <2>0, <3>1, ApprovalRisk
      <3> QED BY <2>2, <3>1, <3>2 DEF ValidateApproval
    <2>7. tag.name \in Ga => Docs(tag)[All("retention")].retainUntil > tag.at
      BY <2>1, <2>2 DEF ProductionInputs, ProductionGovernance, ValidateRetention
    <2> QED BY <2>3, <2>4, <2>5, <2>6, <2>7
  <1> QED BY <1>1, GateInvariance, EvidenceInvariance, PTL

-------------------------------------------------------------------------------
(* Evidence about bytes *)

\* The digests bound for row t: its image and its compressed image, of one run
\* and one attempt.
LEMMA BoundOf ==
    ASSUME NEW p, NEW t \in Rows("release"), NEW n, p.files = Files(p.run, n)
    PROVE  BoundDigests(Workspace(p).binding)[t]
             = {[name |-> x, target |-> t, run |-> p.run, made |-> n[t]] : x \in {"raw", "xz"}}
  <1> DEFINE arts == [k \in {x \in DOMAIN p.files : x[2] \in {"raw", "xz"}} |-> p.files[k]]
  <1>1. Workspace(p).binding.artifacts = arts
    BY DEF Workspace, BindingPayload
  <1>2. t \in Targets /\ t \in Parts /\ t # Installers
    BY PartAssumption DEF Rows, Parts
  <1>3. BoundDigests(Workspace(p).binding)[t] = {arts[k] : k \in {x \in DOMAIN arts : x[1] = t}}
    BY <1>1, <1>2 DEF BoundDigests
  <1>4. DOMAIN p.files = ExpectedKeys
    BY DEF Files
  <1>5. {x \in ExpectedKeys : x[2] \in {"raw", "xz"} /\ x[1] = t} = {<<t, "raw">>, <<t, "xz">>}
    BY <1>2 DEF ExpectedKeys, Names
  <1>6. \A x \in {"raw", "xz"} :
            arts[<<t, x>>] = [name |-> x, target |-> t, run |-> p.run, made |-> n[t]]
    BY <1>4, <1>5 DEF Files
  <1>7. {x \in DOMAIN arts : x[1] = t} = {<<t, "raw">>, <<t, "xz">>}
    BY <1>4, <1>5
  <1> HIDE DEF arts
  <1> QED BY <1>3, <1>6, <1>7

\* Every released row has bound digests.
LEMMA BoundNonempty ==
    ASSUME NEW g, NEW t \in Rows("release"), NEW n, g.artifact.files = Files(g.artifact.run, n)
    PROVE  ContextOf(g).bound[t] # {}
  <1>1. BoundDigests(Workspace(g.artifact).binding)[t]
          = {[name |-> x, target |-> t, run |-> g.artifact.run, made |-> n[t]] : x \in {"raw", "xz"}}
    BY BoundOf
  <1>2. ContextOf(g).bound[t] = BoundDigests(Workspace(g.artifact).binding)[t]
    BY ContextForm
  <1> QED BY <1>1, <1>2

\* Whichever digest of a hardware subject is bound, what was read back is.
LEMMA HardwareReadback ==
    ASSUME NEW g, Ready(g), NEW t \in Rows("release") \cap Rows("hardware"), g.name \in Ga,
           NEW n, g.artifact.files = Files(g.artifact.run, n),
           <<"hardware", t>> \in DOMAIN Docs(g), NEW acq,
           ValidateHardwareSubject(Docs(g)[<<"hardware", t>>], acq, ContextOf(g), t)
    PROVE  Docs(g)[<<"hardware", t>>].readback \in ContextOf(g).bound[t]
  <1> DEFINE k == <<"hardware", t>>
             d == Docs(g)[k]
             bound == ContextOf(g).bound[t]
  <1>1. k \in OperatorKeys(g.name)
    BY DEF OperatorKeys, At
  <1>2. PICK q \in OperatorKeys(g.name), o \in {BundleOf(g).origin, BundleOf(g).old} :
            q[1] = k[1] /\ Altered(d, Collect(q, o), q)
    BY <1>1, AcceptedForms
  <1>3. Common(Collect(q, o), q[2], o)
    BY CollectCommon
  <1>4. /\ Collect(q, o).rawImage = Digest("raw", q[2], o)
        /\ Collect(q, o).compressed = Digest("xz", q[2], o)
        /\ Collect(q, o).readback = Digest("raw", q[2], o)
        /\ {"rawImage", "compressed", "readback", "target"} \subseteq DOMAIN Collect(q, o)
    BY <1>2 DEF Collect, CollectHardware, Over, Collected
  <1>5. /\ d.rawImage = Digest("raw", q[2], o) /\ d.compressed = Digest("xz", q[2], o)
        /\ d.readback = Digest("raw", q[2], o) /\ d.target = q[2]
    BY <1>2, <1>3, <1>4 DEF Altered, Common
  <1>6. d.target = t
    BY DEF ValidateHardwareSubject, SameSubject
  <1>7. bound = {[name |-> x, target |-> t, run |-> g.artifact.run, made |-> n[t]] : x \in {"raw", "xz"}}
    <2>1. t \in Rows("release")
      OBVIOUS
    <2>2. BoundDigests(Workspace(g.artifact).binding)[t]
            = {[name |-> x, target |-> t, run |-> g.artifact.run, made |-> n[t]] : x \in {"raw", "xz"}}
      BY <2>1, BoundOf
    <2>3. bound = BoundDigests(Workspace(g.artifact).binding)[t]
      BY ContextForm
    <2> QED BY <2>2, <2>3
  <1>8. {d.compressed, d.readback} \cap bound # {}
    <2>1. bound # {}
      BY <1>7
    <2> QED BY <2>1 DEF ValidateHardwareSubject
  <1>9. d.compressed = Digest("xz", t, o) /\ d.readback = Digest("raw", t, o)
    BY <1>5, <1>6
  <1> HIDE DEF d, bound
  <1>10. o.run = g.artifact.run /\ o.made[t] = n[t]
    BY <1>7, <1>8, <1>9 DEF Digest
  <1>11. d.readback \in bound
    BY <1>7, <1>9, <1>10 DEF Digest
  <1> QED BY <1>11 DEF d, bound

\* Evidence about bytes that was accepted is about the bytes that are promoted,
\* also when the build was rerun after the evidence was collected
\* (BytesArePromoted).
THEOREM EvidenceIsAboutTheBytes == Spec => []BytesArePromoted
  <1>1. GateInv /\ EvidenceInv => BytesArePromoted
    <2> DEFINE w == Workspace(tag.artifact)
               c == ContextOf(tag)
               docs == Docs(tag)
    <2> SUFFICES ASSUME GateInv, EvidenceInv, Authorised
                 PROVE  /\ \A t \in Rows("release") \cap Rows("qemu") :
                            docs[<<"qemu", t>>].image \in c.bound[t]
                        /\ tag.name \in Ga =>
                            /\ \A t \in Rows("release") \cap Rows("signing") \cap Rows("public") :
                                docs[<<"signing", t>>].outputs["release-artifact"] \in c.bound[t]
                            /\ \A k \in DOMAIN docs :
                                k[1] = "hsm" => docs[k].artifact \in c.bound[k[2]]
                            /\ \A t \in Rows("release") \cap Rows("hardware") :
                                /\ docs[<<"hardware", t>>].readback \in c.bound[t]
                                /\ docs[<<"acquisition", t>>].readback \in c.bound[t]
                                /\ t \in LabRows(tag.name) =>
                                    docs[<<"lab", t>>].readback \in c.bound[t]
      BY ContextForm DEF BytesArePromoted, Accepted, Docs
    <2>0. Ready(tag) /\ w.docs = docs
      BY AuthorisedReady DEF Docs
    <2>1. /\ LabInputs(w, c) /\ ReleaseRows(w, c)
          /\ tag.name \in Ga => ProductionInputs(w, c, "production-candidate")
      BY <2>0, ReadyValidated
    <2>2. c.version = tag.name
      BY ContextForm
    <2>3. PICK n : tag.artifact.files = Files(tag.artifact.run, n)
      BY DEF GateInv, TagOK, Authorised, ArtifactsOK, Bound
    <2>4. ASSUME NEW t \in Rows("release")
          PROVE  c.bound[t] # {}
      BY <2>3, BoundNonempty
    <2>5. ASSUME NEW t \in Rows("release") \cap Rows("qemu")
          PROVE  docs[<<"qemu", t>>].image \in c.bound[t]
      <3>1. "qemu" \in Policy[t]
        BY DEF Rows
      <3>2. ValidateQemu(docs[<<"qemu", t>>], c, t)
        BY <2>0, <2>1, <3>1 DEF ReleaseRows
      <3> QED BY <3>2 DEF ValidateQemu, QemuBinding
    <2>6. ASSUME tag.name \in Ga,
                 NEW t \in Rows("release") \cap Rows("signing") \cap Rows("public")
          PROVE  docs[<<"signing", t>>].outputs["release-artifact"] \in c.bound[t]
      <3>1. "public" \in Policy[t]
        BY DEF Rows
      <3>2. "release-artifact" \in ExpectedSigningRoles(t)
        BY <3>1 DEF ExpectedSigningRoles, PublicRoles
      <3>3. SigningInput(w, c, t)
        BY <2>1, <2>6 DEF ProductionInputs, ProductionRows
      <3>4. PICK outputs : ValidateSigningManifest(docs[<<"signing", t>>], outputs, c, t)
        BY <2>0, <3>3 DEF SigningInput
      <3> QED BY <2>4, <3>2, <3>4 DEF ValidateSigningManifest
    <2>7. ASSUME tag.name \in Ga, NEW k \in DOMAIN docs, k[1] = "hsm"
          PROVE  docs[k].artifact \in c.bound[k[2]]
      BY <2>0, <2>1, <2>7 DEF ProductionInputs, SigningSessions, HsmSessionReplay
    <2>8. ASSUME tag.name \in Ga, NEW t \in Rows("release") \cap Rows("hardware")
          PROVE  /\ docs[<<"hardware", t>>].readback \in c.bound[t]
                 /\ docs[<<"acquisition", t>>].readback \in c.bound[t]
                 /\ t \in LabRows(tag.name) => docs[<<"lab", t>>].readback \in c.bound[t]
      <3> DEFINE hw == docs[<<"hardware", t>>]
                 acq == docs[<<"acquisition", t>>]
                 lab == docs[<<"lab", t>>]
      <3>1. /\ <<"hardware", t>> \in DOMAIN docs /\ <<"acquisition", t>> \in DOMAIN docs
            /\ ValidateHardwareSubject(hw, acq, c, t)
        BY <2>0, <2>1, <2>8 DEF ProductionInputs, ProductionRows, HardwareInput
      <3>2. hw.readback \in c.bound[t]
        BY <2>0, <2>3, <2>8, <3>1, HardwareReadback
      <3>3. hw.readback = acq.artifact
        BY <3>1 DEF ValidateHardwareSubject
      <3>4. t \in LabDirectories(docs)
        BY <3>1 DEF LabDirectories
      <3>5. ValidateAcquisition(acq, LabArtifact(w, t), c, t)
        BY <2>0, <2>1, <2>8, <3>4 DEF ProductionInputs, AcquisitionInputs
      <3>6. acq.readback = acq.artifact
        BY <3>5 DEF ValidateAcquisition
      <3>7. ASSUME t \in LabRows(tag.name)
            PROVE  lab.readback \in c.bound[t]
        <4>1. <<"lab", t>> \in DOMAIN docs /\ ValidateLab(lab, c, t)
          BY <2>0, <2>1, <2>2, <3>7 DEF LabInputs
        <4>2. LabArtifact(w, t) = {lab.artifact}
          BY <2>0, <4>1 DEF LabArtifact
        <4>3. acq.artifact = lab.artifact /\ lab.readback = lab.artifact
          BY <3>5, <4>1, <4>2 DEF ValidateAcquisition, ValidateLab, LabDevices
        <4> QED BY <3>2, <3>3, <4>3
      <3> QED BY <3>2, <3>3, <3>6, <3>7
    <2> QED BY <2>5, <2>6, <2>7, <2>8
  <1> QED BY <1>1, GateInvariance, EvidenceInvariance, PTL

-------------------------------------------------------------------------------
(* Raw evidence *)

\* For which rows, and in which releases, an operator hands in a document.
LEMMA KeyRows ==
    ASSUME NEW v, NEW k \in OperatorKeys(v)
    PROVE  /\ k[1] \in {"roles", "retention", "security", "hardware", "acquisition", "signing", "hsm",
                        "runtime", "ota"} => v \in Ga
           /\ k[1] = "security" => k[2] \in Scans
           /\ k[1] = "lab" => k[2] \in LabRows(v)
           /\ k[1] = "qemu" => k[2] \in Rows("release") /\ k[2] \in Rows("qemu")
           /\ k[1] = "runtime" => k[2] \in Rows("runtime")
           /\ k[1] = "hardware" => k[2] \in Rows("hardware")
           /\ k[1] = "signing" => k[2] \in Rows("signing")
           /\ k[1] = "ota" => k[2] \in Rows("ota")
           /\ k[1] \in {"approval", "repro"} => k[2] \in Rows("release")
           /\ k[1] = "acquisition" =>
                \/ k[2] \in LabRows(v) \/ k[2] \in Rows("hardware")
                \/ k[2] \in Rows("release") /\ k[2] \in Rows("qemu")
  <1>1. k[1] = "lab" => k[2] \in LabRows(v)
    BY DEF OperatorKeys, RequiredPaths, At, All, LabRows, Rows
  <1> QED BY <1>1 DEF OperatorKeys, RequiredPaths, At, All

\* The checks a document of key k reports.
ItemsOf(k, v) ==
    CASE k[1] \in {"registry", "hardware"} -> {}
      [] k[1] = "audit-log"   -> {"replay"}
      [] k[1] = "roles"       -> {"release-owner", "security-owner"}
      [] k[1] = "retention"   -> {"export", "replay-test"}
      [] k[1] = "security"    -> {"critical", "high"}
      [] k[1] = "qemu"        -> QemuItems(v)
      [] k[1] = "lab"         -> LabItems(k[2], v)
      [] k[1] = "acquisition" -> Adapters
      [] k[1] = "signing"     -> ExpectedSigningRoles(k[2])
      [] k[1] = "hsm"         -> {"artifact-signature"}
      [] k[1] = "runtime"     -> Scenarios
      [] k[1] = "ota"         -> {"ota_contract"} \cup OtaRoles
      [] k[1] = "approval"    -> {"release-owner", "maintainer", "decision"}
      [] k[1] = "repro"       -> {"artifact-comparison"}

\* A collector records exactly the items it was asked for.
LEMMA ItemsCollected ==
    ASSUME NEW t, NEW o, NEW items, NEW own
    PROVE  /\ DOMAIN Collected(t, o, items).results = items
           /\ DOMAIN Over(Collected(t, o, items), own).results = items
           /\ DOMAIN Over(SignStationBundle(Collected(t, o, items)), own).results = items
  <1>1. DOMAIN Collected(t, o, items).results = items /\ "results" \in DOMAIN Collected(t, o, items)
    BY DEF Collected, Passed
  <1>2. DOMAIN SignStationBundle(Collected(t, o, items)).results = items
        /\ "results" \in DOMAIN SignStationBundle(Collected(t, o, items))
    BY DEF SignStationBundle, Collected, Passed
  <1> QED BY <1>1, <1>2 DEF Over

\* The items of every kind of document.
LEMMA CollectItems ==
    ASSUME NEW v, NEW k \in OperatorKeys(v), NEW o
    PROVE  DOMAIN Collect(k, o).results = ItemsOf(k, o.version)
  <1>1. CASE k[1] = "registry"
    BY <1>1, ItemsCollected DEF Collect, ItemsOf, StationRegistry
  <1>2. CASE k[1] = "audit-log"
    BY <1>2, ItemsCollected DEF Collect, ItemsOf
  <1>3. CASE k[1] = "roles"
    BY <1>3, ItemsCollected DEF Collect, ItemsOf, CollectRoles
  <1>4. CASE k[1] = "retention"
    BY <1>4, ItemsCollected DEF Collect, ItemsOf, ProduceRetention
  <1>5. CASE k[1] = "security"
    BY <1>5, ItemsCollected DEF Collect, ItemsOf, CollectScan
  <1>6. CASE k[1] = "qemu"
    BY <1>6, ItemsCollected DEF Collect, ItemsOf, CollectQemu
  <1>7. CASE k[1] = "lab"
    BY <1>7, ItemsCollected DEF Collect, ItemsOf, CollectLab
  <1>8. CASE k[1] = "hardware"
    BY <1>8, ItemsCollected DEF Collect, ItemsOf, CollectHardware
  <1>9. CASE k[1] = "acquisition"
    BY <1>9, ItemsCollected DEF Collect, ItemsOf, CreateAcquisition
  <1>10. CASE k[1] = "signing"
    BY <1>10, ItemsCollected DEF Collect, ItemsOf, CollectSigning
  <1>11. CASE k[1] = "hsm"
    BY <1>11, ItemsCollected DEF Collect, ItemsOf, CollectHsm
  <1>12. CASE k[1] = "runtime"
    BY <1>12, ItemsCollected DEF Collect, ItemsOf, CollectRuntime
  <1>13. CASE k[1] = "ota"
    BY <1>13, ItemsCollected DEF Collect, ItemsOf, ProduceOta
  <1>14. CASE k[1] = "approval"
    BY <1>14, ItemsCollected DEF Collect, ItemsOf, CollectApproval
  <1>15. CASE k[1] = "repro"
    BY <1>15, ItemsCollected DEF Collect, ItemsOf, CollectRepro
  <1> QED BY <1>1, <1>2, <1>3, <1>4, <1>5, <1>6, <1>7, <1>8, <1>9, <1>10, <1>11, <1>12, <1>13, <1>14, <1>15, KeyForm DEF Kinds, Global

\* An accepted document: of which key and origin it is a copy, and how far it
\* may differ from what was collected.
CopyOf(d, k, v, q, o) ==
    /\ q \in OperatorKeys(v) /\ q[1] = k[1]
    /\ d.version = o.version /\ d.target = q[2] /\ d.sha = o.sha /\ d.run = o.sha
    /\ DOMAIN d.results \subseteq ItemsOf(q, o.version)
    /\ DOMAIN d.raw \subseteq ItemsOf(q, o.version)
    /\ k[1] = "security" => DOMAIN d.raw = ItemsOf(q, o.version)
    /\ \A i \in DOMAIN d.results :
        d.results[i] = "passed" \/ (i \in DOMAIN d.raw /\ d.raw[i] = "failed")
    /\ k[1] = "acquisition" =>
        \/ d.order = AdapterOrder
        \/ d.order = [i \in DOMAIN AdapterOrder |-> AdapterOrder[Len(AdapterOrder) + 1 - i]]

\* An accepted document is a copy of a collected one, with few differences.
LEMMA AcceptedCopy ==
    ASSUME NEW g, Ready(g), NEW k \in OperatorKeys(g.name), k \in DOMAIN Docs(g)
    PROVE  \E q, o : CopyOf(Docs(g)[k], k, g.name, q, o)
  <1> DEFINE d == Docs(g)[k]
  <1>1. PICK q \in OperatorKeys(g.name), o \in {BundleOf(g).origin, BundleOf(g).old} :
            q[1] = k[1] /\ o.sha = o.run /\ Altered(d, Collect(q, o), q)
    BY AcceptedForms
  <1> DEFINE e == Collect(q, o)
  <1>2. Common(e, q[2], o) /\ DOMAIN e.results = ItemsOf(q, o.version)
    BY CollectCommon, CollectItems
  <1>3. q[1] = "acquisition" => e.order = AdapterOrder
    BY DEF Collect, CreateAcquisition, Over, Collected
  <1> HIDE DEF d, e
  <1>4. d.version = o.version /\ d.target = q[2] /\ d.sha = o.sha /\ d.run = o.sha
    BY <1>1, <1>2 DEF Altered, Common, Fields, e
  <1>5. CopyOf(d, k, g.name, q, o)
    BY <1>1, <1>2, <1>3, <1>4 DEF Altered, Common, CopyOf, e
  <1> QED BY <1>5 DEF d

\* Where the raw evidence is replayed it says what the accepted documents say
\* (RawEvidenceAgrees).
THEOREM RawEvidenceHeld == Spec => []RawEvidenceAgrees
  <1>1. GateInv /\ EvidenceInv => RawEvidenceAgrees
    <2> DEFINE w == Workspace(tag.artifact)
               c == ContextOf(tag)
               docs == Docs(tag)
               v == tag.name
    <2> SUFFICES ASSUME GateInv, EvidenceInv, Authorised,
                        NEW k \in DOMAIN docs \ CollectedKeys(v),
                        k[1] \in {"lab", "hsm", "runtime"}
                                 \cup (IF v \in Ga THEN {"security", "qemu"} ELSE {})
                 PROVE  (\A i \in DOMAIN docs[k].raw : docs[k].raw[i] = "passed") /\ docs[k].files
      BY DEF RawEvidenceAgrees, Accepted, Docs
    <2> DEFINE d == docs[k]
    <2>0. Ready(tag) /\ w.docs = docs
      BY AuthorisedReady DEF Docs
    <2>1. /\ LabInputs(w, c) /\ ReleaseRows(w, c) /\ SecurityInputs(w, c)
          /\ v \in Ga => ProductionInputs(w, c, "production-candidate")
      BY <2>0, ReadyValidated
    <2>2. c.version = v
      BY ContextForm
    <2>3. k \in OperatorKeys(v)
      <3>1. k \in DOMAIN Documents(BundleOf(tag))
        BY <2>0, ReadyStrict, WorkspaceDocs DEF Docs, BundleOf
      <3> QED BY <2>0, <3>1, ReadyStrict, DocumentForms
    <2>4. k = <<k[1], k[2]>>
      BY <2>3, KeyForm
    <2>5. PICK q, o : CopyOf(d, k, v, q, o)
      BY <2>0, <2>3, AcceptedCopy
    <2>6. CASE k[1] = "lab"
      <3>1. ValidateLab(d, c, k[2])
        BY <2>0, <2>1, <2>2, <2>3, <2>4, <2>6, KeyRows DEF LabInputs
      <3> QED BY <3>1 DEF ValidateLab, LabChecks, AllPassed, CheckStationBundle
    <2>7. CASE k[1] = "hsm"
      <3>1. v \in Ga
        BY <2>3, <2>7, KeyRows
      <3>2. HsmSessionReplay(d, c, k[2])
        BY <2>0, <2>1, <2>7, <3>1 DEF ProductionInputs, SigningSessions
      <3> QED BY <3>2 DEF HsmSessionReplay, HsmCryptoReplay
    <2>8. CASE k[1] = "runtime"
      <3>1. v \in Ga /\ k[2] \in Rows("runtime")
        BY <2>3, <2>8, KeyRows
      <3>2. ValidateRuntimeSuite(d, c, k[2])
        BY <2>0, <2>1, <2>4, <2>8, <3>1 DEF ProductionInputs, RuntimeInputs
      <3>3. DOMAIN d.raw \subseteq Scenarios
        BY <2>5, <2>8 DEF CopyOf, ItemsOf
      <3> QED BY <3>2, <3>3 DEF ValidateRuntimeSuite, ValidateScenario, ObservedOutcome
    <2>9. CASE k[1] = "security" /\ v \in Ga
      <3>1. ValidateSecurityReport(d, c, k[2])
        BY <2>0, <2>1, <2>3, <2>4, <2>9, KeyRows DEF SecurityInputs
      <3> QED BY <2>2, <2>9, <3>1
              DEF ValidateSecurityReport, AllPassed, ValidateRawReport, SeverityCounts
    <2>10. CASE k[1] = "qemu" /\ v \in Ga
      <3>1. k[2] \in Rows("release") /\ "qemu" \in Policy[k[2]]
        BY <2>3, <2>10, KeyRows DEF Rows
      <3>2. ValidateQemu(d, c, k[2])
        BY <2>0, <2>1, <2>4, <2>10, <3>1 DEF ReleaseRows
      <3>3. d.version = o.version /\ DOMAIN d.raw \subseteq QemuItems(o.version)
        BY <2>5, <2>10 DEF CopyOf, ItemsOf
      <3> QED BY <2>2, <2>10, <3>2, <3>3
              DEF ValidateQemu, AllPassed, SemanticLog, ValidateProductionFacts
    <2> QED BY <2>6, <2>7, <2>8, <2>9, <2>10
  <1> QED BY <1>1, GateInvariance, EvidenceInvariance, PTL

-------------------------------------------------------------------------------
(* The order of a station's events *)

\* A nonempty set of numbers has a least one.
LEMMA Least ==
    ASSUME NEW S \in SUBSET Nat, S # {}
    PROVE  \E m \in S : \A n \in S : m <= n
  <1>1. PICK m \in S : \A n \in S : ~(<<n, m>> \in OpToRel(<, Nat))
    BY WFMin, NatLessThanWellFounded, Zenon
  <1>2. \A n \in S : ~(n < m)
    BY <1>1, Zenon DEF OpToRel
  <1>3. \A n \in S : m <= n
    BY <1>2
  <1> QED BY <1>3

\* Events that are told in reverse are out of order, but for a single one.
LEMMA ReversedOrder ==
    ASSUME NEW d, InOrder(d),
           d.order = [i \in DOMAIN AdapterOrder |-> AdapterOrder[Len(AdapterOrder) + 1 - i]]
    PROVE  d.order = AdapterOrder
  <1> DEFINE A == AdapterOrder
             n == Len(A)
             R == d.order
             first(r) == CHOOSE i \in 1..Len(d.order) :
                            /\ d.order[i] = r
                            /\ \A j \in 1..(i - 1) : d.order[j] # r
  <1>1. n \in Nat /\ DOMAIN A = 1..n /\ A \in Seq(STRING)
    BY EvidenceAssumption
  <1>2. R = [i \in 1..n |-> A[n + 1 - i]]
    BY <1>1
  <1>3. R \in Seq(STRING) /\ Len(R) = n
    BY <1>1, <1>2
  <1>4. CASE n <= 1
    <2>1. \A i \in 1..n : n + 1 - i = i
      BY <1>1, <1>4
    <2>2. A = [i \in 1..n |-> A[i]]
      BY <1>1
    <2> QED BY <1>2, <2>1, <2>2
  <1>5. CASE n > 1
    <2>1. R[1] = A[n] /\ R[n] = A[1] /\ 1 \in 1..n /\ n \in 1..n
      BY <1>1, <1>2, <1>5
    <2>2. first(A[1]) < first(A[n])
      <3> DEFINE seen == {i \in 1..Len(AdapterOrder) : \E j \in 1..Len(d.order) : d.order[j] = AdapterOrder[i]}
      <3>1. 1 \in seen /\ n \in seen
        BY <1>3, <2>1
      <3> QED BY <1>5, <3>1 DEF InOrder
    <2>3. first(A[n]) = 1
      <3>1. \E i \in 1..Len(R) : R[i] = A[n] /\ \A j \in 1..(i - 1) : R[j] # A[n]
        <4>1. 1 \in 1..Len(R) /\ R[1] = A[n] /\ \A j \in 1..(1 - 1) : R[j] # A[n]
          BY <1>3, <2>1
        <4> QED BY <4>1
      <3>2. /\ first(A[n]) \in 1..Len(R)
            /\ \A j \in 1..(first(A[n]) - 1) : R[j] # A[n]
        BY <3>1
      <3>3. 1 \in 1..(first(A[n]) - 1) => R[1] # A[n]
        BY <3>2
      <3> HIDE DEF first
      <3>4. 1 \notin 1..(first(A[n]) - 1)
        BY <2>1, <3>3
      <3>5. first(A[n]) \in 1..n
        BY <1>3, <3>2
      <3> HIDE DEF A, R, n
      <3> QED BY <1>1, <3>4, <3>5
    <2>4. first(A[1]) \in 1..Len(R)
      <3> DEFINE S == {i \in 1..n : R[i] = A[1]}
      <3>0. n \in S
        BY <2>1
      <3>1. S \in SUBSET Nat /\ S # {}
        <4>1. 1..n \subseteq Nat
          BY <1>1
        <4> QED BY <3>0, <4>1
      <3>2. PICK m \in S : \A i \in S : m <= i
        BY <3>1, Least
      <3>3. \A j \in 1..(m - 1) : R[j] # A[1]
        BY <1>1, <3>2
      <3>4. m \in 1..Len(R) /\ R[m] = A[1]
        BY <1>3, <3>2
      <3> QED BY <3>3, <3>4
    <2> HIDE DEF first
    <2> QED BY <1>1, <1>3, <2>2, <2>3, <2>4
  <1> QED BY <1>1, <1>4, <1>5


-------------------------------------------------------------------------------
(* Accepted evidence holds *)

\* What AcceptedEvidenceHolds says of one document of tag g.
Holds(d, k, g) ==
    /\ d.shape = "ok"
    /\ DOMAIN d.results = ItemsOf(k, g.name)
    /\ \A i \in Outcomes(k, d) : d.results[i] = "passed"
    /\ k[1] = "acquisition" => d.order = AdapterOrder
    /\ k[1] \notin Subjectless =>
        d.version = g.name /\ d.target = k[2] /\ d.sha = g.commit /\ d.run = g.run

\* What the operator's manifest lists, and what the core files have to be.
LEMMA ReadyCore ==
    ASSUME NEW g, Ready(g)
    PROVE  RequiredPaths(g.name) \subseteq DOMAIN Docs(g) /\ AuditLogApproved(Docs(g))
  <1> DEFINE w == Workspace(g.artifact)
  <1>1. ValidateIngress(w, g.name, g.commit, g.at) /\ w.ingress.profile \in Strict
    BY ReadyValidated, ReadyStrict, WorkspaceIngress
  <1>2. w.docs = Docs(g)
    BY DEF Docs
  <1>3. w.ingress.version = g.name
    BY <1>1 DEF ValidateIngress
  <1> HIDE DEF w
  <1> QED BY <1>1, <1>2, <1>3 DEF ValidateIngress, ValidateOperatorIngress, ValidateOperatorManifest,
             CoreFiles, OperatorFiles

\* Documents that are about the release as a whole.
LEMMA GlobalHolds ==
    ASSUME NEW g, Ready(g), NEW k \in OperatorKeys(g.name), k[1] \in Global, k \in DOMAIN Docs(g)
    PROVE  Holds(Docs(g)[k], k, g)
  <1> DEFINE d == Docs(g)[k]
             c == ContextOf(g)
             w == Workspace(g.artifact)
  <1>0. k = <<k[1], "all">> /\ k[2] = "all" /\ w.docs = Docs(g)
    BY KeyForm DEF Docs
  <1>1. PICK q, o : CopyOf(d, k, g.name, q, o)
    BY AcceptedCopy
  <1>2. q[2] = "all"
    BY <1>1, KeyForm DEF CopyOf
  <1>3. /\ c.version = g.name /\ c.sha = g.commit /\ c.run = g.run
        /\ c.registry = Docs(g)[All("registry")]
    BY ContextForm
  <1>4. /\ LabInputs(w, c)
        /\ g.name \in Ga => ProductionInputs(w, c, "production-candidate")
    BY ReadyValidated
  <1> HIDE DEF c, w
  <1>5. CASE k[1] = "registry"
    <2>1. d = c.registry
      BY <1>0, <1>3, <1>5 DEF All
    <2>2. PICK t : t \in LabRows(g.name)
      BY MatrixAssumption DEF LabRows, Rows
    <2>3. d.shape = "ok"
      BY <1>3, <1>4, <2>1, <2>2 DEF LabInputs, ValidateLab, CheckStationBundle, CheckStationRegistry
    <2>4. DOMAIN d.results = {} /\ ItemsOf(k, g.name) = {}
      BY <1>1, <1>5 DEF CopyOf, ItemsOf
    <2> QED BY <1>5, <2>3, <2>4 DEF Holds, Outcomes, Subjectless
  <1>6. CASE k[1] = "audit-log"
    <2>1. k = All("audit-log")
      BY <1>0, <1>6 DEF All
    <2>2. d.shape = "ok" /\ "replay" \in DOMAIN d.results
          /\ \A i \in DOMAIN d.results : d.results[i] = "passed"
      BY <2>1, ReadyCore DEF AuditLogApproved
    <2>3. DOMAIN d.results \subseteq {"replay"} /\ ItemsOf(k, g.name) = {"replay"}
      BY <1>1, <1>6 DEF CopyOf, ItemsOf
    <2> QED BY <1>6, <2>2, <2>3 DEF Holds, Outcomes, Subjectless
  <1>7. CASE k[1] = "roles"
    <2>1. k = All("roles") /\ g.name \in Ga
      BY <1>0, <1>7, KeyRows DEF All
    <2>2. ValidateRoleBindings(d, c)
      BY <1>0, <1>4, <2>1 DEF ProductionInputs, ProductionGovernance
    <2>3. DOMAIN d.results \subseteq {"release-owner", "security-owner"}
          /\ ItemsOf(k, g.name) = {"release-owner", "security-owner"}
      BY <1>1, <1>7 DEF CopyOf, ItemsOf
    <2> QED BY <1>7, <2>2, <2>3 DEF Holds, Outcomes, Subjectless, ValidateRoleBindings
  <1>8. CASE k[1] = "retention"
    <2>1. k = All("retention") /\ g.name \in Ga
      BY <1>0, <1>8, KeyRows DEF All
    <2>2. ValidateRetention(d, c)
      BY <1>0, <1>4, <2>1 DEF ProductionInputs, ProductionGovernance
    <2>3. DOMAIN d.results \subseteq {"export", "replay-test"}
          /\ ItemsOf(k, g.name) = {"export", "replay-test"} /\ d.target = "all"
      BY <1>1, <1>2, <1>8 DEF CopyOf, ItemsOf
    <2>4. DOMAIN d.results = ItemsOf(k, g.name)
          /\ \A i \in DOMAIN d.results : d.results[i] = "passed"
      BY <2>2, <2>3 DEF ValidateRetention
    <2> QED BY <1>0, <1>3, <1>8, <2>2, <2>3, <2>4 DEF Holds, Outcomes, ValidateRetention
  <1> QED BY <1>5, <1>6, <1>7, <1>8 DEF Global

\* Documents about one row or one scan.
LEMMA RowHolds ==
    ASSUME NEW g, Ready(g), NEW k \in OperatorKeys(g.name), k[1] \notin Global, k \in DOMAIN Docs(g)
    PROVE  Holds(Docs(g)[k], k, g)
  <1> DEFINE d == Docs(g)[k]
             c == ContextOf(g)
             w == Workspace(g.artifact)
             t == k[2]
             v == g.name
  <1> SUFFICES Holds(d, k, g)
    OBVIOUS
  <1>0. k = <<k[1], k[2]>> /\ k[1] \in Kinds /\ w.docs = Docs(g) /\ g.commit = g.run
    BY KeyForm, ReadyStrict DEF Docs
  <1>1. PICK q, o : CopyOf(d, k, g.name, q, o)
    BY AcceptedCopy
  <1>2. c.version = v /\ c.sha = g.commit /\ c.run = g.run
    BY ContextForm
  <1>3. /\ LabInputs(w, c) /\ ReleaseRows(w, c) /\ SecurityInputs(w, c)
        /\ v \in Ga => ProductionInputs(w, c, "production-candidate")
    BY ReadyValidated
  <1>4. /\ k[1] = q[1] /\ d.version = o.version /\ d.target = q[2] /\ d.run = d.sha
        /\ DOMAIN d.results \subseteq ItemsOf(q, o.version)
    BY <1>1 DEF CopyOf
  <1>5. SameSubject(d, c, t) =>
            /\ d.version = v /\ d.target = k[2] /\ d.sha = g.commit /\ d.run = g.run
            /\ ItemsOf(q, o.version) = ItemsOf(k, v)
    BY <1>2, <1>4 DEF SameSubject, ItemsOf
  <1> HIDE DEF c, w
  <1>6. CASE k[1] = "security"
    <2>1. t \in Scans /\ v \in Ga
      BY <1>6, KeyRows
    <2>2. ValidateSecurityReport(d, c, t)
      BY <1>0, <1>3, <1>6, <2>1 DEF SecurityInputs
    <2>3. d.raw = d.results
      BY <1>2, <2>1, <2>2 DEF ValidateSecurityReport, ValidateRawReport, SeverityCounts
    <2>4. DOMAIN d.results = ItemsOf(k, v)
      BY <1>1, <1>5, <1>6, <2>2, <2>3 DEF CopyOf, ValidateSecurityReport
    <2> QED BY <1>5, <1>6, <2>2, <2>4 DEF Holds, Outcomes, ValidateSecurityReport, AllPassed
  <1>7. CASE k[1] = "qemu"
    <2>1. t \in Rows("release") /\ "qemu" \in Policy[t]
      BY <1>7, KeyRows DEF Rows
    <2>2. ValidateQemu(d, c, t)
      BY <1>0, <1>3, <1>7, <2>1 DEF ReleaseRows
    <2>3. SameSubject(d, c, t)
      BY <1>0, <1>2, <1>4, <2>2 DEF ValidateQemu, QemuBinding, SameSubject
    <2>4. ItemsOf(k, v) = QemuItems(v)
      BY <1>7 DEF ItemsOf
    <2>5. DOMAIN d.results = ItemsOf(k, v)
      BY <1>2, <1>4, <1>5, <2>2, <2>3, <2>4 DEF ValidateQemu, AllPassed
    <2> QED BY <1>5, <1>7, <2>2, <2>3, <2>5 DEF Holds, Outcomes, ValidateQemu, AllPassed
  <1>8. CASE k[1] = "lab"
    <2>1. t \in LabRows(v)
      BY <1>8, KeyRows
    <2>2. ValidateLab(d, c, t)
      BY <1>0, <1>2, <1>3, <1>8, <2>1 DEF LabInputs
    <2>3. ItemsOf(k, v) = LabItems(t, v)
      BY <1>8 DEF ItemsOf
    <2>4. DOMAIN d.results = ItemsOf(k, v)
      BY <1>2, <1>4, <1>5, <2>2, <2>3 DEF ValidateLab, LabChecks, AllPassed
    <2> QED BY <1>5, <1>8, <2>2, <2>4 DEF Holds, Outcomes, ValidateLab, LabChecks, AllPassed
  <1>9. CASE k[1] = "hardware"
    <2>1. v \in Ga /\ t \in Rows("hardware")
      BY <1>9, KeyRows
    <2>2. PICK acq : ValidateHardwareSubject(d, acq, c, t)
      BY <1>0, <1>3, <1>9, <2>1 DEF ProductionInputs, ProductionRows, HardwareInput
    <2>3. ItemsOf(k, v) = {}
      BY <1>9 DEF ItemsOf
    <2>4. SameSubject(d, c, t) /\ d.shape = "ok"
      BY <2>2 DEF ValidateHardwareSubject
    <2> QED BY <1>4, <1>5, <1>9, <2>3, <2>4 DEF Holds, Outcomes
  <1>10. CASE k[1] = "acquisition"
    <2>1. v \in Ga
      BY <1>10, KeyRows
    <2>2. t \in LabDirectories(w.docs)
      BY <1>0, <1>10 DEF LabDirectories
    <2>3. PICK x : ValidateAcquisition(d, x, c, t)
      BY <1>0, <1>3, <1>10, <2>1, <2>2 DEF ProductionInputs, AcquisitionInputs
    <2>4. ItemsOf(k, v) = Adapters
      BY <1>10 DEF ItemsOf
    <2>5. DOMAIN d.results = ItemsOf(k, v)
      BY <1>4, <1>5, <2>3, <2>4 DEF ValidateAcquisition, AllPassed
    <2>6. d.order = AdapterOrder
      BY <1>1, <1>10, <2>3, ReversedOrder DEF CopyOf, ValidateAcquisition
    <2> QED BY <1>5, <1>10, <2>3, <2>5, <2>6 DEF Holds, Outcomes, ValidateAcquisition, AllPassed
  <1>11. CASE k[1] = "signing"
    <2>1. v \in Ga /\ t \in Rows("signing")
      BY <1>11, KeyRows
    <2>2. PICK outputs : ValidateSigningManifest(d, outputs, c, t)
      BY <1>0, <1>3, <1>11, <2>1 DEF ProductionInputs, ProductionRows, SigningInput
    <2>3. ItemsOf(k, v) = ExpectedSigningRoles(t)
      BY <1>11 DEF ItemsOf
    <2>4. DOMAIN d.results = ItemsOf(k, v)
      BY <1>4, <1>5, <2>2, <2>3 DEF ValidateSigningManifest
    <2> QED BY <1>5, <1>11, <2>2, <2>4 DEF Holds, Outcomes, ValidateSigningManifest
  <1>12. CASE k[1] = "hsm"
    <2>1. v \in Ga
      BY <1>12, KeyRows
    <2>2. HsmSessionReplay(d, c, t)
      BY <1>0, <1>3, <1>12, <2>1 DEF ProductionInputs, SigningSessions
    <2>3. ItemsOf(k, v) = {"artifact-signature"} /\ ItemsOf(q, o.version) = {"artifact-signature"}
      BY <1>4, <1>12 DEF ItemsOf
    <2>4. DOMAIN d.results = ItemsOf(k, v)
      BY <1>4, <2>2, <2>3 DEF HsmSessionReplay, HsmCryptoReplay
    <2>5. \A i \in DOMAIN d.results : d.results[i] = "passed"
      BY <1>1, <2>2 DEF HsmSessionReplay, HsmCryptoReplay, CopyOf
    <2> QED BY <1>12, <2>2, <2>4, <2>5 DEF Holds, Outcomes, HsmSessionReplay, HsmSessionValid,
               Subjectless
  <1>13. CASE k[1] = "runtime"
    <2>1. v \in Ga /\ t \in Rows("runtime")
      BY <1>13, KeyRows
    <2>2. ValidateRuntimeSuite(d, c, t)
      BY <1>0, <1>3, <1>13, <2>1 DEF ProductionInputs, RuntimeInputs
    <2>3. ItemsOf(k, v) = Scenarios
      BY <1>13 DEF ItemsOf
    <2> QED BY <1>5, <1>13, <2>2, <2>3 DEF Holds, Outcomes, ValidateRuntimeSuite, ValidateScenario
  <1>14. CASE k[1] = "ota"
    <2>1. v \in Ga /\ t \in Rows("ota")
      BY <1>14, KeyRows
    <2>2. ValidateOtaArtifacts(d, c, t)
      BY <1>0, <1>3, <1>14, <2>1 DEF ProductionInputs, ProductionRows, OtaInput
    <2>3. ItemsOf(k, v) = {"ota_contract"} \cup OtaRoles
      BY <1>14 DEF ItemsOf
    <2> QED BY <1>5, <1>14, <2>2, <2>3 DEF Holds, Outcomes, ValidateOtaArtifacts
  <1>15. CASE k[1] = "approval"
    <2>1. t \in Rows("release")
      BY <1>15, KeyRows
    <2>2. ValidateApproval(d, c, t)
      BY <1>0, <1>3, <1>15, <2>1 DEF ReleaseRows
    <2>3. SameSubject(d, c, t)
      BY <1>0, <1>2, <1>4, <2>2 DEF ValidateApproval, SameSubject
    <2>4. ItemsOf(k, v) = {"release-owner", "maintainer", "decision"}
      BY <1>15 DEF ItemsOf
    <2>5. DOMAIN d.results = ItemsOf(k, v)
      BY <1>4, <1>5, <2>2, <2>3, <2>4 DEF ValidateApproval
    <2> QED BY <1>5, <1>15, <2>2, <2>3, <2>5 DEF Holds, Outcomes, ValidateApproval
  <1>16. CASE k[1] = "repro"
    <2>1. t \in Rows("release")
      BY <1>16, KeyRows
    <2>2. ValidateRepro(d, c, t)
      BY <1>0, <1>3, <1>16, <2>1 DEF ReleaseRows
    <2>3. ItemsOf(k, v) = {"artifact-comparison"}
      BY <1>16 DEF ItemsOf
    <2>4. DOMAIN d.results = ItemsOf(k, v)
      BY <1>4, <1>5, <2>2, <2>3 DEF ValidateRepro
    <2> QED BY <1>5, <1>16, <2>2, <2>4 DEF Holds, Outcomes, ValidateRepro, AllPassed
  <1> QED BY <1>0, <1>6, <1>7, <1>8, <1>9, <1>10, <1>11, <1>12, <1>13, <1>14, <1>15, <1>16
          DEF Kinds

\* Every document but the HSM sessions has to be there.
LEMMA AllThere ==
    ASSUME NEW g, Ready(g), NEW k \in OperatorKeys(g.name), k[1] # "hsm"
    PROVE  k \in DOMAIN Docs(g)
  <1> DEFINE c == ContextOf(g)
             w == Workspace(g.artifact)
             t == k[2]
             v == g.name
             docs == Docs(g)
  <1>0. k = <<k[1], k[2]>> /\ w.docs = docs
    BY KeyForm DEF Docs
  <1>1. /\ LabInputs(w, c) /\ ReleaseRows(w, c) /\ SecurityInputs(w, c)
        /\ v \in Ga => ProductionInputs(w, c, "production-candidate")
    BY ReadyValidated
  <1>2. c.version = v
    BY ContextForm
  <1> HIDE DEF c, w, docs
  <1>3. ASSUME NEW x \in LabRows(v)
        PROVE  <<"lab", x>> \in DOMAIN docs
    BY <1>0, <1>1, <1>2 DEF LabInputs
  <1>4. ASSUME NEW x \in Rows("release"), "qemu" \in Policy[x]
        PROVE  <<"qemu", x>> \in DOMAIN docs
    BY <1>0, <1>1, <1>4 DEF ReleaseRows
  <1>5. ASSUME NEW x \in Rows("hardware"), v \in Ga
        PROVE  <<"hardware", x>> \in DOMAIN docs
    BY <1>0, <1>1, <1>5 DEF ProductionInputs, ProductionRows, HardwareInput
  <1>6. CASE k \in RequiredPaths(v)
    BY <1>6, ReadyCore DEF docs
  <1>7. CASE k[1] = "lab"
    BY <1>0, <1>3, <1>7, KeyRows DEF docs
  <1>8. CASE k[1] = "hardware"
    BY <1>0, <1>5, <1>8, KeyRows DEF docs
  <1>9. CASE k[1] = "acquisition"
    <2>1. v \in Ga
      BY <1>9, KeyRows
    <2>2. \E x \in DOMAIN docs : x[1] \in {"qemu", "lab", "hardware"} /\ x[2] = t
      <3>1. CASE t \in LabRows(v)
        BY <1>3, <3>1
      <3>2. CASE t \in Rows("hardware")
        BY <1>5, <2>1, <3>2
      <3>3. CASE t \in Rows("release") /\ t \in Rows("qemu")
        BY <1>4, <3>3 DEF Rows
      <3> QED BY <1>9, <3>1, <3>2, <3>3, KeyRows
    <2>3. t \in LabDirectories(docs)
      BY <2>2 DEF LabDirectories
    <2>4. <<"acquisition", t>> \in DOMAIN docs
      BY <1>0, <1>1, <2>1, <2>3 DEF ProductionInputs, AcquisitionInputs
    <2> QED BY <1>0, <1>9, <2>4 DEF docs
  <1>10. CASE k[1] = "runtime"
    BY <1>0, <1>1, <1>10, KeyRows DEF ProductionInputs, RuntimeInputs, docs
  <1>11. CASE k[1] = "ota"
    BY <1>0, <1>1, <1>11, KeyRows DEF ProductionInputs, ProductionRows, OtaInput, docs
  <1>12. CASE k[1] = "signing"
    BY <1>0, <1>1, <1>12, KeyRows DEF ProductionInputs, ProductionRows, SigningInput, docs
  <1>13. k \in RequiredPaths(v) \/ k[1] \in {"lab", "hardware", "acquisition", "runtime", "ota", "signing"}
    BY DEF OperatorKeys, At
  <1> QED BY <1>6, <1>7, <1>8, <1>9, <1>10, <1>11, <1>12, <1>13

\* The documents an authorised release rests on are all there, complete,
\* successful, and about its version, commit and rows, whatever flaw the
\* operator's bundle has (AcceptedEvidenceHolds).
THEOREM EvidenceHolds == Spec => []AcceptedEvidenceHolds
  <1>1. GateInv /\ EvidenceInv => AcceptedEvidenceHolds
    <2> DEFINE docs == Docs(tag)
               v == tag.name
               origin == BundleOf(tag).origin
    <2> SUFFICES ASSUME GateInv, EvidenceInv, Authorised
                 PROVE  /\ \A k \in OperatorKeys(v) : k[1] # "hsm" => k \in DOMAIN docs
                        /\ v \in Ga => \E k \in DOMAIN docs : k[1] = "hsm"
                        /\ \A k \in OperatorKeys(v) \cap DOMAIN docs :
                            /\ docs[k].shape = "ok"
                            /\ DOMAIN docs[k].results = DOMAIN Collect(k, origin).results
                            /\ \A i \in Outcomes(k, docs[k]) : docs[k].results[i] = "passed"
                            /\ k[1] = "acquisition" => docs[k].order = AdapterOrder
                            /\ k[1] \notin Subjectless =>
                                /\ docs[k].version = v /\ docs[k].target = k[2]
                                /\ docs[k].sha = tag.commit /\ docs[k].run = tag.run
      BY DEF AcceptedEvidenceHolds, Accepted, Docs, BundleOf
    <2>0. Ready(tag)
      BY AuthorisedReady
    <2>1. ASSUME NEW k \in OperatorKeys(v), k[1] # "hsm"
          PROVE  k \in DOMAIN docs
      BY <2>0, <2>1, AllThere
    <2>2. ASSUME v \in Ga
          PROVE  \E k \in DOMAIN docs : k[1] = "hsm"
      <3>1. SigningSessions(Workspace(tag.artifact), ContextOf(tag))
        BY <2>0, <2>2, ReadyValidated DEF ProductionInputs
      <3> QED BY <3>1 DEF SigningSessions, Docs
    <2>3. ASSUME NEW k \in OperatorKeys(v), k \in DOMAIN docs
          PROVE  /\ Holds(docs[k], k, tag)
                 /\ DOMAIN docs[k].results = DOMAIN Collect(k, origin).results
      <3>1. Holds(docs[k], k, tag)
        BY <2>0, <2>3, GlobalHolds, RowHolds
      <3>2. origin.version = v
        BY <2>0, ReadyStrict DEF BundleOK
      <3>3. DOMAIN Collect(k, origin).results = ItemsOf(k, v)
        BY <3>2, CollectItems
      <3> QED BY <3>1, <3>3 DEF Holds
    <2> HIDE DEF docs, origin
    <2> QED BY <2>1, <2>2, <2>3 DEF Holds
  <1> QED BY <1>1, GateInvariance, EvidenceInvariance, PTL

===============================================================================
