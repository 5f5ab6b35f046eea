--------------------------- MODULE ReleaseGateProofs ---------------------------
(*****************************************************************************)
(* Theorems about ReleaseGate, for every build matrix and policy and every   *)
(* number of commits, attempts, bundles, preflights and drift runs: what is   *)
(* promoted is one build, and governance was compliant when it was.           *)
(*                                                                           *)
(* The invariant follows the bytes.  A contract is never rewritten once its   *)
(* attempt is over (RunsOK, Kept); a preflight that has bound its artifacts   *)
(* holds the files of the contract it resolved (Bound); a tag names such a    *)
(* preflight, and each step of its workflow adds what it checked (TagOK).     *)
(*****************************************************************************)
EXTENDS ReleaseGate, FiniteSetTheorems, TLAPS

\* The attempts of a run, and which of them made the parts it has now.
Attempts == 1..MaxAttempt
Made == [Parts -> Attempts]

RunRecords ==
    [attempt : Attempts, status : {"none", "success", "running", "cancelled"}, made : Made,
     todo : SUBSET Parts, contract : Nat, log : Seq(Made)]

\* A run that succeeded has one contract per attempt, the last over its outputs;
\* one that is rerun has those of the attempts before.
RunOK(m, rs, r) ==
    /\ rs[r].contract \in 1..Len(rs[r].log)
    /\ rs[r].status = "success" =>
        /\ rs[r].contract = rs[r].attempt
        /\ Len(rs[r].log) = rs[r].attempt
        /\ rs[r].log[rs[r].attempt] = rs[r].made
    /\ rs[r].status = "running" => Len(rs[r].log) + 1 = rs[r].attempt
    /\ r > m => rs[r].status = "none"

RunsOK(m, rs) ==
    /\ m \in Commits
    /\ rs \in [Commits -> RunRecords]
    /\ \A r \in Commits : RunOK(m, rs, r)

\* What a contract was written over stays what it was written over.
Kept(m, rs, m2, rs2) ==
    /\ m <= m2
    /\ \A r \in 1..m :
        /\ Len(rs[r].log) <= Len(rs2[r].log)
        /\ \A n \in 1..Len(rs[r].log) : rs2[r].log[n] = rs[r].log[n]

\* The record of a first, successful attempt is a run record.
LEMMA FreshOK == Fresh \in RunRecords
  <1>1. [p \in Parts |-> 1] \in Made
    BY GateAssumption DEF Made, Attempts
  <1>2. << [p \in Parts |-> 1] >> \in Seq(Made)
    BY <1>1
  <1> QED BY <1>1, <1>2, GateAssumption DEF Fresh, RunRecords, Attempts

\* A first attempt, whose contract is over its own outputs, is consistent.
LEMMA FreshRun ==
    ASSUME NEW m \in Nat, NEW rs, NEW r \in Nat, rs[r] = Fresh, r <= m
    PROVE  RunOK(m, rs, r)
  BY GateAssumption DEF RunOK, Fresh

\* The build of the first commit is consistent.
LEMMA RunsInit ==
    ASSUME Init
    PROVE  RunsOK(main, runs)
  <1>1. NoRun \in RunRecords
    BY FreshOK DEF NoRun, RunRecords
  <1>2. 1 \in Commits
    BY GateAssumption DEF Commits
  <1>3. runs \in [Commits -> RunRecords]
    BY <1>1, FreshOK DEF Init
  <1>4. \A r \in Commits : RunOK(main, runs, r)
    BY <1>2 DEF Init, RunOK, Fresh, NoRun, Commits
  <1> QED BY <1>2, <1>3, <1>4 DEF RunsOK, Init

\* A push to main starts a run of its own and leaves the earlier runs alone.
LEMMA PushRuns ==
    ASSUME RunsOK(main, runs), PushMain
    PROVE  RunsOK(main', runs') /\ Kept(main, runs, main', runs')
  <1>1. main' \in Commits /\ main' = main + 1 /\ main \in Nat /\ main' \in Nat
    BY GateAssumption DEF RunsOK, PushMain, Commits
  <1>2. ASSUME NEW r \in Commits
        PROVE  runs'[r] \in RunRecords /\ RunOK(main', runs', r)
    <2> r \in Nat
      BY DEF Commits
    <2>0. runs[r] \in RunRecords /\ RunOK(main, runs, r)
      BY DEF RunsOK
    <2>1. CASE r = main + 1
      <3>1. runs'[r] = Fresh
        BY <2>1 DEF PushMain
      <3> QED BY <3>1, <2>1, <1>1, FreshOK, FreshRun
    <2>2. CASE r # main + 1 /\ runs[r].status = "running"
      <3>1. runs'[r] = [runs[r] EXCEPT !.status = "cancelled"]
        BY <2>2 DEF PushMain
      <3>2. runs'[r] \in RunRecords
        BY <2>0, <3>1 DEF RunRecords
      <3>3. runs'[r].contract = runs[r].contract /\ runs'[r].log = runs[r].log
            /\ runs'[r].status = "cancelled"
        BY <2>0, <3>1 DEF RunRecords
      <3>4. ~(r > main')
        BY <1>1, <2>0, <2>2 DEF RunOK
      <3> QED BY <2>0, <3>2, <3>3, <3>4 DEF RunOK
    <2>3. CASE r # main + 1 /\ runs[r].status # "running"
      <3>1. runs'[r] = runs[r]
        BY <2>3 DEF PushMain
      <3> QED BY <2>0, <3>1, <1>1 DEF RunOK
    <2> QED BY <2>1, <2>2, <2>3
  <1>3. runs' \in [Commits -> RunRecords]
    BY <1>2 DEF PushMain
  <1>4. ASSUME NEW r \in 1..main
        PROVE  runs'[r].log = runs[r].log
    <2> r \in Commits /\ r # main + 1
      BY <1>1, GateAssumption DEF Commits, RunsOK
    <2> runs[r] \in RunRecords
      BY DEF RunsOK
    <2> QED BY DEF PushMain, RunRecords
  <1>5. \A r \in 1..main : Len(runs[r].log) \in Nat
    <2> TAKE r \in 1..main
    <2> r \in Commits
      BY <1>1, GateAssumption DEF Commits, RunsOK
    <2> QED BY DEF RunsOK, RunRecords
  <1>6. Kept(main, runs, main', runs')
    BY <1>1, <1>4, <1>5 DEF Kept
  <1> QED BY <1>1, <1>2, <1>3, <1>6 DEF RunsOK

\* A step that touches one run, extends its log or leaves it, keeps the rest.
LEMMA OneRun ==
    ASSUME NEW m, NEW rs, NEW rs2, RunsOK(m, rs), NEW r \in Commits, NEW x \in RunRecords,
           rs2 = [rs EXCEPT ![r] = x],
           RunOK(m, rs2, r),
           Len(rs[r].log) <= Len(x.log),
           \A n \in 1..Len(rs[r].log) : x.log[n] = rs[r].log[n]
    PROVE  RunsOK(m, rs2) /\ Kept(m, rs, m, rs2)
  <1>1. m \in Nat
    BY DEF RunsOK, Commits
  <1>2. rs \in [Commits -> RunRecords] /\ rs2[r] = x
    BY DEF RunsOK
  <1>3. \A q \in Commits : q # r => rs2[q] = rs[q]
    BY <1>2
  <1>4. rs2 \in [Commits -> RunRecords]
    BY <1>2
  <1>5. ASSUME NEW q \in Commits
        PROVE  RunOK(m, rs2, q)
    BY <1>3 DEF RunsOK, RunOK
  <1>6. ASSUME NEW q \in 1..m
        PROVE  /\ Len(rs[q].log) <= Len(rs2[q].log)
               /\ \A n \in 1..Len(rs[q].log) : rs2[q].log[n] = rs[q].log[n]
    <2>1. q \in Commits
      BY <1>1, GateAssumption DEF Commits, RunsOK
    <2>2. Len(rs[q].log) \in Nat
      BY <2>1, <1>2 DEF RunRecords
    <2>3. CASE q = r
      BY <2>3, <1>2
    <2>4. CASE q # r
      BY <2>1, <2>2, <2>4, <1>3
    <2> QED BY <2>3, <2>4
  <1>7. Kept(m, rs, m, rs2)
    BY <1>1, <1>6 DEF Kept
  <1> QED BY <1>4, <1>5, <1>7 DEF RunsOK

\* StartRerun: a rerun leaves the logs of the earlier attempts as they are.
LEMMA StartRerunRuns ==
    ASSUME RunsOK(main, runs), NEW r \in Commits, NEW S \in SUBSET Parts, StartRerun(r, S)
    PROVE  RunsOK(main', runs') /\ Kept(main, runs, main', runs')
  <1> DEFINE x == [runs[r] EXCEPT !.status = "running", !.attempt = @ + 1, !.todo = S]
  <1>1. runs[r] \in RunRecords /\ RunOK(main, runs, r) /\ runs \in [Commits -> RunRecords]
    BY DEF RunsOK
  <1>2. runs' = [runs EXCEPT ![r] = x] /\ main' = main
    BY <1>1 DEF StartRerun
  <1>3. x \in RunRecords
    BY <1>1, GateAssumption DEF StartRerun, RunRecords, Attempts
  <1>4. /\ x.status = "running" /\ x.attempt = runs[r].attempt + 1
        /\ x.log = runs[r].log /\ x.contract = runs[r].contract
    BY <1>1 DEF RunRecords
  <1>5. runs'[r] = x
    BY <1>1, <1>2
  <1> HIDE DEF x
  <1>6. RunOK(main, runs', r)
    BY <1>1, <1>4, <1>5 DEF RunOK, StartRerun, RunRecords, Attempts
  <1>7. Len(runs[r].log) <= Len(x.log)
    BY <1>1, <1>4 DEF RunRecords
  <1>8. \A n \in 1..Len(runs[r].log) : x.log[n] = runs[r].log[n]
    BY <1>4
  <1> QED BY <1>2, <1>3, <1>6, <1>7, <1>8, OneRun

\* RebuildPart: a job of a rerun replaces its own output and no contract.
LEMMA RebuildPartRuns ==
    ASSUME RunsOK(main, runs), NEW r \in Commits, NEW p \in Parts, RebuildPart(r, p)
    PROVE  RunsOK(main', runs') /\ Kept(main, runs, main', runs')
  <1> DEFINE x == [runs[r] EXCEPT !.made = [@ EXCEPT ![p] = runs[r].attempt],
                                  !.todo = @ \ {p}]
  <1>1. runs[r] \in RunRecords /\ RunOK(main, runs, r) /\ runs \in [Commits -> RunRecords]
    BY DEF RunsOK
  <1>2. runs' = [runs EXCEPT ![r] = x] /\ main' = main
    BY <1>1 DEF RebuildPart
  <1>3. x \in RunRecords
    BY <1>1 DEF RunRecords, Made
  <1>4. /\ x.status = runs[r].status /\ x.attempt = runs[r].attempt
        /\ x.log = runs[r].log /\ x.contract = runs[r].contract
    BY <1>1 DEF RunRecords
  <1>5. runs'[r] = x
    BY <1>1, <1>2
  <1> HIDE DEF x
  <1>6. RunOK(main, runs', r)
    BY <1>1, <1>4, <1>5 DEF RunOK, RebuildPart
  <1>7. Len(runs[r].log) <= Len(x.log)
    BY <1>1, <1>4 DEF RunRecords
  <1>8. \A n \in 1..Len(runs[r].log) : x.log[n] = runs[r].log[n]
    BY <1>4
  <1> QED BY <1>2, <1>3, <1>6, <1>7, <1>8, OneRun

\* FinishRerun: the contract of the new attempt is over what is now there, the
\* earlier contracts stay what they were.
LEMMA FinishRerunRuns ==
    ASSUME RunsOK(main, runs), NEW r \in Commits, FinishRerun(r)
    PROVE  RunsOK(main', runs') /\ Kept(main, runs, main', runs')
  <1> DEFINE log == Append(runs[r].log, runs[r].made)
             x == [runs[r] EXCEPT !.status = "success", !.contract = runs[r].attempt,
                                  !.log = log]
  <1>1. runs[r] \in RunRecords /\ RunOK(main, runs, r) /\ runs \in [Commits -> RunRecords]
    BY DEF RunsOK
  <1>2. runs' = [runs EXCEPT ![r] = x] /\ main' = main
    BY <1>1 DEF FinishRerun
  <1>3. /\ runs[r].log \in Seq(Made) /\ runs[r].made \in Made
        /\ Len(runs[r].log) \in Nat /\ runs[r].attempt \in Attempts
    BY <1>1 DEF RunRecords
  <1>4. /\ log \in Seq(Made)
        /\ Len(log) = Len(runs[r].log) + 1
        /\ log[Len(runs[r].log) + 1] = runs[r].made
        /\ \A n \in 1..Len(runs[r].log) : log[n] = runs[r].log[n]
    BY <1>3
  <1> HIDE DEF log
  <1>5. x \in RunRecords
    <2>1. runs[r].attempt \in Nat
      BY <1>3, GateAssumption DEF Attempts
    <2> QED BY <1>1, <1>3, <1>4, <2>1 DEF RunRecords
  <1>6. /\ x.status = "success" /\ x.attempt = runs[r].attempt /\ x.made = runs[r].made
        /\ x.log = log /\ x.contract = runs[r].attempt
    BY <1>1 DEF RunRecords
  <1>7. runs'[r] = x
    BY <1>1, <1>2
  <1> HIDE DEF x
  <1>8. runs[r].status = "running" /\ Len(runs[r].log) + 1 = runs[r].attempt /\ ~(r > main)
    BY <1>1 DEF RunOK, FinishRerun
  <1>9. RunOK(main, runs', r)
    BY <1>3, <1>4, <1>6, <1>7, <1>8 DEF RunOK, Attempts
  <1>10. Len(runs[r].log) <= Len(x.log)
    BY <1>3, <1>4, <1>6
  <1>11. \A n \in 1..Len(runs[r].log) : x.log[n] = runs[r].log[n]
    BY <1>4, <1>6
  <1> QED BY <1>2, <1>5, <1>9, <1>10, <1>11, OneRun

\* What does not change is kept.
LEMMA KeptSame ==
    ASSUME NEW m, NEW rs, RunsOK(m, rs)
    PROVE  Kept(m, rs, m, rs)
  <1>1. m \in Nat
    BY DEF RunsOK, Commits
  <1>2. ASSUME NEW r \in 1..m
        PROVE  Len(rs[r].log) \in Nat
    <2> r \in Commits
      BY <1>1, GateAssumption DEF Commits, RunsOK
    <2> QED BY DEF RunsOK, RunRecords
  <1> QED BY <1>1, <1>2 DEF Kept

-------------------------------------------------------------------------------
(* Preflights, artifacts and the tag *)

\* p names a commit of main, its run and one of the contracts of that run.
Resolved(p, m, rs) ==
    /\ p.run \in 1..m
    /\ p.sha = p.run
    /\ p.attempt \in 1..Len(rs[p.run].log)
    /\ p.profile # "technical-dry-run" => p.head = p.sha

\* And holds the files that contract was written over.
Bound(p, m, rs) ==
    /\ Resolved(p, m, rs)
    /\ p.files = Files(p.run, rs[p.run].log[p.attempt])

PreflightOK ==
    /\ DOMAIN preflight = DOMAIN Idle(0)
    /\ preflight.step \in {"idle", "resolved", "bound", "refused"}
    /\ preflight.step # "idle" => Resolved(preflight, main, runs)
    /\ preflight.step \in {"bound", "refused"} => Bound(preflight, main, runs)

ArtifactsOK == \A a \in artifacts : Bound(a, main, runs)

DriftOK == \A r \in drift : r.policy = PolicyDigest(r.head)

\* What BindPreflight, GovernanceGate and InputPreflight have checked of a tag.
TagBound(g) ==
    /\ g.version = g.name
    /\ g.sha = g.commit
    /\ g.artifact.profile = ProfileFor(g.name)
    /\ g.artifact.version = g.name
    /\ g.artifact.sha = g.commit
    /\ g.artifact.run = g.run
    /\ g.artifact.attempt = g.attempt

Governed(g) ==
    /\ \A c \in Controls : g.settings[c] /\ g.drift.snapshot.controls[c] = "ok"
    /\ PolicyDigest(g.drift.head) = PolicyDigest(g.commit)
    /\ g.governedAt - g.drift.at <= DriftLife

Validated(g) ==
    ValidateReleaseInputs(Workspace(g.artifact), ProfileFor(g.name), g.name, g.commit, g.run,
                          g.attempt, g.at)

TagOK ==
    /\ DOMAIN tag = DOMAIN NoTag
    /\ tag.step \in {"none", "pushed", "bound", "governed", "authorised"}
    /\ tag.step \in {"bound", "governed", "authorised"} => tag.artifact \in artifacts /\ TagBound(tag)
    /\ tag.step \in {"governed", "authorised"} => Governed(tag)
    /\ tag.step = "authorised" => Validated(tag)

GateInv == RunsOK(main, runs) /\ PreflightOK /\ ArtifactsOK /\ DriftOK /\ TagOK

\* A run has a natural number of contracts.
LEMMA LogLength ==
    ASSUME NEW m, NEW rs, RunsOK(m, rs), NEW r \in Commits
    PROVE  Len(rs[r].log) \in Nat
  <1>1. rs[r] \in RunRecords
    BY DEF RunsOK
  <1>2. rs[r].log \in Seq(Made)
    BY <1>1 DEF RunRecords
  <1> QED BY <1>2

\* A source that was resolved stays resolved through later pushes and reruns.
LEMMA ResolvedKept ==
    ASSUME NEW p, NEW m, NEW rs, NEW m2, NEW rs2, RunsOK(m, rs), RunsOK(m2, rs2),
           Kept(m, rs, m2, rs2), Resolved(p, m, rs)
    PROVE  Resolved(p, m2, rs2)
  <1>1. m \in Nat /\ m2 \in Nat /\ m <= m2 /\ p.run \in 1..m /\ p.run \in Commits
    BY GateAssumption DEF RunsOK, Commits, Kept, Resolved
  <1>2. Len(rs[p.run].log) \in Nat /\ Len(rs2[p.run].log) \in Nat
    BY <1>1, LogLength
  <1>3. Len(rs[p.run].log) <= Len(rs2[p.run].log)
    BY <1>1 DEF Kept
  <1> QED BY <1>1, <1>2, <1>3 DEF Resolved

\* Files bound to an attempt stay those of its contract, whatever is rerun.
LEMMA BoundKept ==
    ASSUME NEW p, NEW m, NEW rs, NEW m2, NEW rs2, RunsOK(m, rs), RunsOK(m2, rs2),
           Kept(m, rs, m2, rs2), Bound(p, m, rs)
    PROVE  Bound(p, m2, rs2)
  <1>1. rs2[p.run].log[p.attempt] = rs[p.run].log[p.attempt]
    BY DEF Kept, Bound, Resolved
  <1> QED BY <1>1, ResolvedKept DEF Bound

\* The invariant holds initially.
LEMMA GateInit ==
    ASSUME Init
    PROVE  GateInv
  <1>1. PreflightOK
    BY DEF Init, PreflightOK, Idle
  <1>2. ArtifactsOK
    BY DEF Init, ArtifactsOK
  <1>3. DriftOK
    BY DEF Init, DriftOK, DriftRun
  <1>4. TagOK
    BY DEF Init, TagOK, NoTag
  <1> QED BY RunsInit, <1>1, <1>2, <1>3, <1>4 DEF GateInv

\* Build steps: nothing but the runs changes.
LEMMA GateBuild ==
    ASSUME GateInv, BuildStep
    PROVE  GateInv'
  <1>0. RunsOK(main, runs)
    BY DEF GateInv
  <1>1. RunsOK(main', runs') /\ Kept(main, runs, main', runs')
    <2>1. CASE PushMain
      BY <1>0, <2>1, PushRuns
    <2>2. ASSUME NEW r \in Commits, NEW S \in {Parts} \cup {{p} : p \in Parts}, StartRerun(r, S)
          PROVE  RunsOK(main', runs') /\ Kept(main, runs, main', runs')
      <3> S \in SUBSET Parts
        OBVIOUS
      <3> QED BY <1>0, <2>2, StartRerunRuns
    <2>3. ASSUME NEW r \in Commits, NEW p \in Parts, RebuildPart(r, p)
          PROVE  RunsOK(main', runs') /\ Kept(main, runs, main', runs')
      BY <1>0, <2>3, RebuildPartRuns
    <2>4. ASSUME NEW r \in Commits, FinishRerun(r)
          PROVE  RunsOK(main', runs') /\ Kept(main, runs, main', runs')
      BY <1>0, <2>4, FinishRerunRuns
    <2> QED BY <2>1, <2>2, <2>3, <2>4 DEF BuildStep
  <1>2. /\ preflight' = preflight /\ artifacts' = artifacts /\ drift' = drift /\ tag' = tag
    BY DEF BuildStep, PushMain, StartRerun, RebuildPart, FinishRerun, govVars
  <1>3. PreflightOK'
    <2>1. preflight.step # "idle" => Resolved(preflight, main', runs')
      BY <1>0, <1>1, ResolvedKept DEF GateInv, PreflightOK
    <2>2. preflight.step \in {"bound", "refused"} => Bound(preflight, main', runs')
      BY <1>0, <1>1, BoundKept DEF GateInv, PreflightOK
    <2> QED BY <1>2, <2>1, <2>2 DEF GateInv, PreflightOK
  <1>4. ArtifactsOK'
    BY <1>0, <1>1, <1>2, BoundKept DEF GateInv, ArtifactsOK
  <1>5. DriftOK' /\ TagOK'
    BY <1>2 DEF GateInv, DriftOK, TagOK
  <1> QED BY <1>1, <1>3, <1>4, <1>5 DEF GateInv

\* Workspace: the release binding repeats what the preflight resolved.
LEMMA WorkspaceBinding ==
    ASSUME NEW p
    PROVE  /\ Workspace(p).binding.profile = p.profile
           /\ Workspace(p).binding.version = p.version
           /\ Workspace(p).binding.sha = p.sha
           /\ Workspace(p).binding.run = p.run
           /\ Workspace(p).binding.attempt = p.attempt
  BY DEF Workspace, BindingPayload

\* Nothing of the runs changes outside the build steps.
LEMMA GateResolve ==
    ASSUME GateInv, NEW profile, NEW v, NEW r \in Commits, NEW s, ResolveSource(profile, v, r, s)
    PROVE  GateInv'
  <1>1. RunsOK(main, runs) /\ runs[r] \in RunRecords /\ RunOK(main, runs, r) /\ main \in Nat
    BY DEF GateInv, RunsOK, Commits
  <1>2. /\ preflight'.run = r /\ preflight'.sha = r /\ preflight'.attempt = runs[r].attempt
        /\ preflight'.profile = profile /\ preflight'.head = main
        /\ preflight'.step = "resolved" /\ DOMAIN preflight' = DOMAIN Idle(0)
    BY DEF ResolveSource, GateInv, PreflightOK, Idle
  <1>3. /\ r \in 1..main
        /\ runs[r].attempt \in 1..Len(runs[r].log)
    BY <1>1 DEF ResolveSource, RunOK, RunRecords, Attempts, Commits
  <1>4. UNCHANGED <<main, runs, artifacts, drift, tag>>
    BY DEF ResolveSource, buildVars, govVars
  <1>5. Resolved(preflight', main, runs)
    BY <1>2, <1>3 DEF Resolved, ResolveSource
  <1>6. PreflightOK'
    BY <1>2, <1>4, <1>5 DEF PreflightOK
  <1> QED BY <1>4, <1>6 DEF GateInv, ArtifactsOK, DriftOK, TagOK, RunsOK, RunOK

\* BindArtifacts: the downloaded files are accepted only if they are those of
\* the attempt's contract (validate-build-contract.py).
LEMMA GateBindArtifacts ==
    ASSUME GateInv, NEW lost, NEW seen, NEW after, NEW checks,
               BindArtifacts(lost, seen, after, checks)
    PROVE  GateInv'
  <1> DEFINE p == preflight
             n == runs[p.run].contract
  <1>1. UNCHANGED <<main, runs, artifacts, drift, tag>>
    BY DEF BindArtifacts, buildVars, govVars
  <1>2. p.step = "resolved" /\ Resolved(p, main, runs)
    BY DEF BindArtifacts, GateInv, PreflightOK
  <1>3. ValidateContract(ContractOf(p.run, n), Files(p.run, runs[p.run].made), p.sha, p.run,
                         p.attempt)
    BY DEF BindArtifacts
  <1>4. /\ preflight'.run = p.run /\ preflight'.sha = p.sha /\ preflight'.attempt = p.attempt
        /\ preflight'.profile = p.profile /\ preflight'.head = p.head
        /\ preflight'.step = "bound" /\ DOMAIN preflight' = DOMAIN Idle(0)
        /\ preflight'.files = Files(p.run, runs[p.run].made)
    BY DEF BindArtifacts, GateInv, PreflightOK, Idle
  <1>5. n = p.attempt
    BY <1>3 DEF ValidateContract, ContractOf, CreateContract
  <1>6. Files(p.run, runs[p.run].made) = Files(p.run, runs[p.run].log[p.attempt])
    <2>1. \A k \in ExpectedKeys :
            Files(p.run, runs[p.run].made)[k] = Files(p.run, runs[p.run].log[n])[k]
      BY <1>3 DEF ValidateContract, ContractOf, CreateContract, Files
    <2> QED BY <2>1, <1>5 DEF Files
  <1>7. Resolved(preflight', main, runs)
    BY <1>2, <1>4 DEF Resolved
  <1>8. Bound(preflight', main, runs)
    BY <1>4, <1>6, <1>7 DEF Bound
  <1>9. PreflightOK'
    BY <1>1, <1>4, <1>7, <1>8 DEF PreflightOK
  <1> QED BY <1>1, <1>9 DEF GateInv, ArtifactsOK, DriftOK, TagOK, RunsOK, RunOK

\* FinishPreflight: an uploaded artifact is a bound preflight.
LEMMA GateFinishPreflight ==
    ASSUME GateInv, FinishPreflight
    PROVE  GateInv'
  <1> DEFINE p == [preflight EXCEPT !.at = now]
  <1>1. UNCHANGED <<main, runs, drift, tag>>
    BY DEF FinishPreflight, buildVars, govVars
  <1>2. preflight.step = "bound" /\ Bound(preflight, main, runs)
    BY DEF FinishPreflight, GateInv, PreflightOK
  <1>3. /\ p.run = preflight.run /\ p.sha = preflight.sha /\ p.attempt = preflight.attempt
        /\ p.profile = preflight.profile /\ p.head = preflight.head
        /\ DOMAIN p = DOMAIN Idle(0)
        /\ p.files = preflight.files
    BY DEF GateInv, PreflightOK, Idle
  <1>4. /\ [p EXCEPT !.step = "refused"].run = p.run /\ [p EXCEPT !.step = "refused"].sha = p.sha
        /\ [p EXCEPT !.step = "refused"].attempt = p.attempt
        /\ [p EXCEPT !.step = "refused"].profile = p.profile
        /\ [p EXCEPT !.step = "refused"].head = p.head
        /\ DOMAIN [p EXCEPT !.step = "refused"] = DOMAIN Idle(0)
        /\ [p EXCEPT !.step = "refused"].files = p.files
        /\ [p EXCEPT !.step = "refused"].step = "refused"
    BY <1>3 DEF Idle
  <1>5. Bound(p, main, runs)
    BY <1>2, <1>3 DEF Bound, Resolved
  <1>6. Bound([p EXCEPT !.step = "refused"], main, runs)
    BY <1>4, <1>5 DEF Bound, Resolved
  <1>7. \/ artifacts' = artifacts \cup {p} /\ preflight' = Idle(p.count)
        \/ artifacts' = artifacts /\ preflight' = [p EXCEPT !.step = "refused"]
    BY DEF FinishPreflight
  <1>8. PreflightOK'
    <2>1. CASE preflight' = Idle(p.count)
      BY <2>1 DEF PreflightOK, Idle
    <2>2. CASE preflight' = [p EXCEPT !.step = "refused"]
      <3>1. Bound(preflight', main, runs) /\ preflight'.step = "refused"
            /\ DOMAIN preflight' = DOMAIN Idle(0)
        BY <2>2, <1>4, <1>6
      <3> QED BY <3>1, <1>1 DEF PreflightOK, Bound
    <2> QED BY <1>7, <2>1, <2>2
  <1>9. ArtifactsOK' /\ artifacts \subseteq artifacts'
    BY <1>1, <1>5, <1>7 DEF GateInv, ArtifactsOK
  <1> QED BY <1>1, <1>8, <1>9 DEF GateInv, DriftOK, TagOK, RunsOK, RunOK

\* PushTag: a pushed tag is bound to nothing yet.
LEMMA GatePushTag ==
    ASSUME GateInv, NEW v, NEW c, NEW note, PushTag(v, c, note)
    PROVE  GateInv'
  <1>1. UNCHANGED <<main, runs, preflight, artifacts, drift>>
    BY DEF PushTag, buildVars, govVars
  <1>2. tag'.step = "pushed" /\ DOMAIN tag' = DOMAIN NoTag
    BY DEF PushTag, GateInv, TagOK, NoTag
  <1>3. TagOK'
    BY <1>2 DEF TagOK
  <1> QED BY <1>1, <1>3 DEF GateInv, PreflightOK, ArtifactsOK, DriftOK, RunsOK, RunOK

\* What preflight-binding compares: the tag, the artifact's run, its manifests.
LEMMA GateBindPreflight ==
    ASSUME GateInv, NEW a \in artifacts, BindPreflight(a)
    PROVE  GateInv'
  <1>1. UNCHANGED <<main, runs, preflight, artifacts, drift>>
    BY DEF BindPreflight, buildVars, govVars
  <1>2. /\ tag'.step = "bound" /\ DOMAIN tag' = DOMAIN NoTag /\ tag'.artifact = a
        /\ tag'.name = tag.name /\ tag'.commit = tag.commit /\ tag'.version = tag.version
        /\ tag'.sha = tag.sha /\ tag'.run = tag.run /\ tag'.attempt = tag.attempt
    BY DEF BindPreflight, GateInv, TagOK, NoTag
  <1>3. tag.version = tag.name /\ tag.sha = tag.commit
    BY DEF BindPreflight, ParseTag
  <1>4. a.profile = ProfileFor(tag.version) /\ a.version = tag.version /\ a.sha = tag.sha
    BY DEF BindPreflight, ValidateRun
  <1>5. a.run = tag.run /\ a.attempt = tag.attempt
    <2>1. CrossBinding(tag, Workspace(a))
      BY DEF BindPreflight
    <2>2. Workspace(a).binding.run = tag.run /\ Workspace(a).binding.attempt = tag.attempt
      <3> DEFINE b == Workspace(a).binding
                 m == [version |-> b.version, sha |-> b.sha, run |-> b.run,
                       attempt |-> b.attempt, profile |-> b.profile]
      <3>1. m.run = tag.run /\ m.attempt = tag.attempt
        BY <2>1 DEF CrossBinding
      <3> QED BY <3>1
    <2> QED BY <2>2, WorkspaceBinding
  <1>6. TagBound(tag')
    BY <1>2, <1>3, <1>4, <1>5 DEF TagBound
  <1>7. TagOK'
    BY <1>1, <1>2, <1>6 DEF TagOK
  <1> QED BY <1>1, <1>7 DEF GateInv, PreflightOK, ArtifactsOK, DriftOK, RunsOK, RunOK

\* A snapshot that passes has every setting as the policy wants it.
LEMMA SnapshotHolds ==
    ASSUME NEW settings, NEW lost, NEW exported,
           ValidateGovernance(CollectSnapshot(settings, lost, exported))
    PROVE  \A c \in Controls : settings[c]
  <1> TAKE c \in Controls
  <1>1. CollectSnapshot(settings, lost, exported).controls[c] = "ok"
    BY DEF ValidateGovernance, ValidateControls
  <1> QED BY <1>1 DEF CollectSnapshot

\* GovernanceGate: the settings, the drift run and the policy were checked.
LEMMA GateGovernance ==
    ASSUME GateInv, NEW lost, NEW seen, NEW after, NEW r \in drift,
           GovernanceGate(lost, seen, after, r)
    PROVE  GateInv'
  <1>1. UNCHANGED <<main, runs, preflight, artifacts, drift>>
    BY DEF GovernanceGate, buildVars, govVars
  <1>2. /\ tag.step = "bound"
        /\ tag'.step = "governed" /\ DOMAIN tag' = DOMAIN NoTag /\ tag'.artifact = tag.artifact
        /\ tag'.name = tag.name /\ tag'.commit = tag.commit /\ tag'.version = tag.version
        /\ tag'.sha = tag.sha /\ tag'.run = tag.run /\ tag'.attempt = tag.attempt
        /\ tag'.drift = r /\ tag'.settings = seen /\ tag'.governedAt = now
    BY DEF GovernanceGate, GateInv, TagOK, NoTag
  <1>3. \A c \in Controls : seen[c]
    BY SnapshotHolds DEF GovernanceGate
  <1>4. r \in SelectRun(drift, now) /\ ValidateDriftReplay(r, tag.commit)
    BY DEF GovernanceGate
  <1>5. \A c \in Controls : r.snapshot.controls[c] = "ok"
    BY <1>4 DEF ValidateDriftReplay, ValidateGovernance, ValidateControls
  <1>6. PolicyDigest(r.head) = PolicyDigest(tag.commit)
    BY <1>4 DEF ValidateDriftReplay, GateInv, DriftOK
  <1>7. now - r.at <= DriftLife
    BY <1>4 DEF SelectRun
  <1>8. Governed(tag')
    BY <1>2, <1>3, <1>5, <1>6, <1>7 DEF Governed
  <1>9. TagBound(tag') /\ tag'.artifact \in artifacts
    BY <1>2 DEF GateInv, TagOK, TagBound
  <1>10. TagOK'
    BY <1>1, <1>2, <1>8, <1>9 DEF TagOK
  <1> QED BY <1>1, <1>10 DEF GateInv, PreflightOK, ArtifactsOK, DriftOK, RunsOK, RunOK

\* InputPreflight: the tag is authorised only after the inputs validated again.
LEMMA GateInputPreflight ==
    ASSUME GateInv, InputPreflight
    PROVE  GateInv'
  <1>1. UNCHANGED <<main, runs, preflight, artifacts, drift>>
    BY DEF InputPreflight, buildVars, govVars
  <1>2. /\ tag.step = "governed"
        /\ tag'.step = "authorised" /\ DOMAIN tag' = DOMAIN NoTag /\ tag'.artifact = tag.artifact
        /\ tag'.name = tag.name /\ tag'.commit = tag.commit /\ tag'.version = tag.version
        /\ tag'.sha = tag.sha /\ tag'.run = tag.run /\ tag'.attempt = tag.attempt
        /\ tag'.drift = tag.drift /\ tag'.settings = tag.settings
        /\ tag'.governedAt = tag.governedAt /\ tag'.at = now
    BY DEF InputPreflight, GateInv, TagOK, NoTag
  <1>3. TagBound(tag') /\ tag'.artifact \in artifacts /\ Governed(tag')
    BY <1>2 DEF GateInv, TagOK, TagBound, Governed
  <1>4. Validated(tag')
    BY <1>2 DEF InputPreflight, InputsHold, Validated
  <1>5. TagOK'
    BY <1>1, <1>2, <1>3, <1>4 DEF TagOK
  <1> QED BY <1>1, <1>5 DEF GateInv, PreflightOK, ArtifactsOK, DriftOK, RunsOK, RunOK

\* GovernanceDrift: a scheduled run records the policy of the commit it ran on.
LEMMA GateDrift ==
    ASSUME GateInv, NEW lost, NEW seen, NEW after, GovernanceDrift(lost, seen, after)
    PROVE  GateInv'
  <1>1. UNCHANGED <<main, runs, preflight, artifacts, tag>>
    BY DEF GovernanceDrift, buildVars
  <1>2. DriftOK'
    BY DEF GovernanceDrift, DriftRun, GateInv, DriftOK
  <1> QED BY <1>1, <1>2 DEF GateInv, PreflightOK, ArtifactsOK, TagOK, RunsOK, RunOK

\* Steps that leave all of this alone.
LEMMA GateStutter ==
    ASSUME GateInv, UNCHANGED <<main, runs, drift, preflight, artifacts, tag>>
    PROVE  GateInv'
  BY DEF GateInv, PreflightOK, ArtifactsOK, DriftOK, TagOK, RunsOK, RunOK

\* PreflightFails: the preflight starts over.
LEMMA GateFails ==
    ASSUME GateInv, PreflightFails
    PROVE  GateInv'
  <1>1. UNCHANGED <<main, runs, drift, artifacts, tag>>
    BY DEF PreflightFails, buildVars, govVars
  <1>2. PreflightOK'
    BY DEF PreflightFails, PreflightOK, Idle
  <1> QED BY <1>1, <1>2 DEF GateInv, ArtifactsOK, DriftOK, TagOK, RunsOK, RunOK

\* Every step preserves the invariant.
LEMMA GateStep ==
    ASSUME GateInv, [Next]_vars
    PROVE  GateInv'
  <1>1. ASSUME NEW days, Tick(days)
        PROVE  GateInv'
    BY <1>1, GateStutter DEF Tick, buildVars, govVars
  <1>2. ASSUME NEW after, ChangeSettings(after)
        PROVE  GateInv'
    BY <1>2, GateStutter DEF ChangeSettings, buildVars
  <1>3. ASSUME NEW v, NEW r, NEW kept, NEW flaw, AssembleBundle(v, r, kept, flaw)
        PROVE  GateInv'
    BY <1>3, GateStutter DEF AssembleBundle, buildVars, govVars
  <1>4. ASSUME NEW r, StageEvidence(r)
        PROVE  GateInv'
    BY <1>4, GateStutter DEF StageEvidence, buildVars, govVars
  <1>5. CASE OperatorStep
    BY <1>3, <1>4, <1>5, GatePushTag DEF OperatorStep
  <1>6. CASE PreflightStep
    BY <1>6, GateResolve, GateBindArtifacts, GateFinishPreflight, GateFails DEF PreflightStep
  <1>7. CASE TagStep
    BY <1>7, GateBindPreflight, GateGovernance, GateInputPreflight DEF TagStep
  <1>8. CASE UNCHANGED vars
    BY <1>8, GateStutter DEF vars
  <1> QED
    BY <1>1, <1>2, <1>5, <1>6, <1>7, <1>8, GateBuild, GateDrift DEF Next

\* The inductive invariant of builds, preflights, artifacts and the tag holds in
\* every reachable state.
THEOREM GateInvariance == Spec => []GateInv
  <1>1. Init => GateInv
    BY GateInit
  <1>2. GateInv /\ [Next]_vars => GateInv'
    BY GateStep
  <1> QED BY <1>1, <1>2, PTL DEF Spec

\* What an authorised tag promotes is the whole output of one attempt of the
\* build of its commit, whenever attempts are rerun while the preflight
\* downloads (PromotedIsOneBuild), for every number of commits, attempts, parts
\* and preflights.
THEOREM OneBuildIsPromoted == Spec => []PromotedIsOneBuild
  <1>1. GateInv => PromotedIsOneBuild
    <2> SUFFICES ASSUME GateInv, Authorised
                 PROVE  /\ tag.commit = tag.run
                        /\ tag.artifact.files = Files(tag.run, runs[tag.run].log[tag.attempt])
                        /\ tag.artifact.profile \in Strict /\ tag.artifact.head = tag.commit
      BY DEF PromotedIsOneBuild
    <2>1. tag.artifact \in artifacts /\ TagBound(tag)
      BY DEF Authorised, GateInv, TagOK
    <2>2. Bound(tag.artifact, main, runs)
      BY <2>1 DEF GateInv, ArtifactsOK
    <2>3. tag.artifact.profile \in Strict /\ tag.artifact.profile # "technical-dry-run"
      BY <2>1 DEF TagBound, ProfileFor, Strict
    <2> QED BY <2>1, <2>2, <2>3 DEF TagBound, Bound, Resolved
  <1> QED BY <1>1, GateInvariance, PTL

\* When a tag was authorised the settings satisfied the policy, then and at the
\* drift run the gate relied on (GovernanceWasCompliant).
THEOREM GovernanceHeld == Spec => []GovernanceWasCompliant
  <1>1. GateInv => GovernanceWasCompliant
    BY DEF GateInv, TagOK, Governed, GovernanceWasCompliant, Authorised
  <1> QED BY <1>1, GateInvariance, PTL

-------------------------------------------------------------------------------
(* Bounds *)

BundleStaged == \E q \in staged : q.bundle = bundle

StagedCount ==
    /\ bundle.count \in 0..MaxBundles
    /\ \A q \in staged : q.bundle.count \in 1..bundle.count
    /\ IsFiniteSet(staged) /\ Cardinality(staged) <= bundle.count
    /\ ~BundleStaged => staged = {} \/ Cardinality(staged) < bundle.count

ArtifactCount ==
    /\ preflight.count \in Nat
    /\ IsFiniteSet(artifacts) /\ Cardinality(artifacts) <= preflight.count
    /\ preflight.step \in {"resolved", "bound"} => Cardinality(artifacts) < preflight.count

DriftCount == IsFiniteSet(drift) /\ Cardinality(drift) <= MaxDrift

Clock == now \in Nat /\ upsets \in 0..MaxUpsets

Settings == live \in [Controls -> BOOLEAN]

CountInv == StagedCount /\ ArtifactCount /\ DriftCount /\ Clock /\ Settings

\* Adding an element makes a finite set larger by one at most.
LEMMA AddOne ==
    ASSUME NEW S, IsFiniteSet(S), NEW x
    PROVE  /\ IsFiniteSet(S \cup {x}) /\ Cardinality(S) \in Nat
           /\ Cardinality(S \cup {x}) \in Nat
           /\ Cardinality(S \cup {x}) <= Cardinality(S) + 1
  <1>1. IsFiniteSet(S \cup {x})
    BY FS_AddElement
  <1>2. Cardinality(S) \in Nat /\ Cardinality(S \cup {x}) \in Nat
    BY <1>1, FS_CardinalityType
  <1>3. Cardinality(S \cup {x}) = IF x \in S THEN Cardinality(S) ELSE Cardinality(S) + 1
    BY FS_AddElement
  <1> QED BY <1>1, <1>2, <1>3

\* The bounds hold initially.
LEMMA CountInit ==
    ASSUME Init
    PROVE  CountInv
  <1>1. IsFiniteSet({}) /\ Cardinality({}) = 0
    BY FS_EmptySet
  <1>2. StagedCount
    BY <1>1, GateAssumption DEF Init, StagedCount, NoBundle, BundleStaged
  <1>3. ArtifactCount
    BY <1>1 DEF Init, ArtifactCount, Idle
  <1>4. DriftCount
    <2>1. PICK x : drift = {x}
      BY DEF Init
    <2>2. IsFiniteSet(drift) /\ Cardinality(drift) = 1
      BY <2>1, FS_Singleton
    <2> QED BY <2>2, GateAssumption DEF DriftCount
  <1>5. Clock
    BY GateAssumption DEF Init, Clock
  <1>6. Settings
    BY DEF Init, Settings
  <1> QED BY <1>2, <1>3, <1>4, <1>5, <1>6 DEF CountInv

\* Upset counts no further than MaxUpsets.
LEMMA UpsetKept ==
    ASSUME upsets \in 0..MaxUpsets, NEW n \in Nat, Upset(n)
    PROVE  upsets' \in 0..MaxUpsets
  BY GateAssumption DEF Upset

\* A set of lost calls has a size.
LEMMA LossSize ==
    ASSUME NEW lost \in Losses
    PROVE  Cardinality(lost) \in Nat
  <1>1. CASE lost = {}
    BY <1>1, FS_EmptySet
  <1>2. ASSUME NEW c, lost = {c}
        PROVE  Cardinality(lost) \in Nat
    <2>1. Cardinality({c}) = 1
      BY FS_Singleton
    <2> QED BY <1>2, <2>1
  <1> QED BY <1>1, <1>2 DEF Losses

\* So has a set of settings.
LEMMA WorseSize ==
    ASSUME NEW after
    PROVE  Worse(after) \in Nat
  <1>1. {c \in Controls : live[c] /\ ~after[c]} \subseteq Controls
    OBVIOUS
  <1>2. IsFiniteSet({c \in Controls : live[c] /\ ~after[c]})
    BY <1>1, GovernanceAssumption, FS_Subset
  <1> QED BY <1>2, FS_CardinalityType DEF Worse

\* Every step keeps the clock and the upsets in range, and the settings Boolean.
LEMMA ClockStep ==
    ASSUME CountInv, [Next]_vars
    PROVE  Clock'
  <1> USE DEF CountInv, Clock
  <1>1. ASSUME NEW days \in Pauses, Tick(days)
        PROVE  Clock'
    BY <1>1, UpsetKept, GateAssumption DEF Tick
  <1>2. ASSUME NEW after, ChangeSettings(after)
        PROVE  Clock'
    BY <1>2, UpsetKept, WorseSize DEF ChangeSettings
  <1>3. ASSUME NEW lost \in Losses, NEW seen, NEW after, GovernanceDrift(lost, seen, after)
        PROVE  Clock'
    <2>1. 1 + Cardinality(lost) + Worse(after) \in Nat
      BY LossSize, WorseSize
    <2> QED BY <1>3, <2>1, UpsetKept DEF GovernanceDrift
  <1>4. CASE BuildStep
    <2>1. CASE PushMain \/ \E r \in Commits : \E S \in {Parts} \cup {{p} : p \in Parts} : StartRerun(r, S)
      BY <2>1, UpsetKept DEF PushMain, StartRerun
    <2>2. CASE ~(PushMain \/ \E r \in Commits : \E S \in {Parts} \cup {{p} : p \in Parts} : StartRerun(r, S))
      BY <1>4, <2>2 DEF BuildStep, RebuildPart, FinishRerun
    <2> QED BY <2>1, <2>2
  <1>5. ASSUME NEW v, NEW r, NEW kept, NEW flaw, AssembleBundle(v, r, kept, flaw)
        PROVE  Clock'
    <2>1. MaxUpsets \in Nat
      BY GateAssumption
    <2>2. PICK n \in {0, 1, MaxUpsets, MaxUpsets + 1} : Upset(n)
      BY <1>5, <2>1 DEF AssembleBundle
    <2> QED BY <1>5, <2>1, <2>2, UpsetKept DEF AssembleBundle
  <1>6. ASSUME NEW v, NEW c, NEW note, PushTag(v, c, note)
        PROVE  Clock'
    <2>1. PICK n \in {0, 1} : Upset(n)
      BY <1>6 DEF PushTag
    <2> QED BY <1>6, <2>1, UpsetKept DEF PushTag
  <1>7. ASSUME NEW r, StageEvidence(r)
        PROVE  Clock'
    BY <1>7 DEF StageEvidence
  <1>8. ASSUME NEW profile, NEW v, NEW r, NEW s, ResolveSource(profile, v, r, s)
        PROVE  Clock'
    <2>1. PICK n \in {0, 1, 2} : Upset(n)
      BY <1>8 DEF ResolveSource
    <2> QED BY <1>8, <2>1, UpsetKept DEF ResolveSource
  <1>9. CASE PreflightStep
    <2>1. ASSUME NEW lost, NEW seen, NEW after, NEW checks,
                 BindArtifacts(lost, seen, after, checks)
          PROVE  Clock'
      BY <2>1, UpsetKept, WorseSize DEF BindArtifacts
    <2> QED BY <1>8, <1>9, <2>1 DEF PreflightStep, FinishPreflight, PreflightFails
  <1>10. CASE TagStep
    <2>1. ASSUME NEW lost, NEW seen, NEW after, NEW r, GovernanceGate(lost, seen, after, r)
          PROVE  Clock'
      BY <2>1, UpsetKept, WorseSize DEF GovernanceGate
    <2> QED BY <1>10, <2>1 DEF TagStep, BindPreflight, InputPreflight
  <1>11. CASE OperatorStep
    BY <1>5, <1>6, <1>7, <1>11 DEF OperatorStep
  <1>12. CASE UNCHANGED vars
    BY <1>12 DEF vars
  <1> QED BY <1>1, <1>2, <1>3, <1>4, <1>9, <1>10, <1>11, <1>12 DEF Next

\* What the steps of a preflight and of the tag workflow leave alone.  The
\* settings may change while they are collected.
LEMMA PreflightFrame ==
    ASSUME PreflightStep
    PROVE  /\ UNCHANGED <<main, runs, now, drift, bundle, staged, tag>>
           /\ live' = live \/ live' \in SettingValues
  <1>1. ASSUME NEW profile, NEW v, NEW r, NEW s, ResolveSource(profile, v, r, s)
        PROVE  UNCHANGED <<main, runs, now, live, drift, bundle, staged, tag>>
    BY <1>1 DEF ResolveSource, buildVars, govVars
  <1>2. ASSUME NEW lost, NEW seen, NEW after, NEW checks,
               BindArtifacts(lost, seen, after, checks)
        PROVE  UNCHANGED <<main, runs, now, drift, bundle, staged, tag>> /\ live' = after
    BY <1>2 DEF BindArtifacts, buildVars, govVars
  <1>3. CASE FinishPreflight \/ PreflightFails
    BY <1>3 DEF FinishPreflight, PreflightFails, buildVars, govVars
  <1> QED BY <1>1, <1>2, <1>3 DEF PreflightStep

\* So do the steps of the tag workflow.
LEMMA TagFrame ==
    ASSUME TagStep
    PROVE  /\ UNCHANGED <<main, runs, now, drift, bundle, staged, preflight, artifacts>>
           /\ live' = live \/ live' \in SettingValues
  <1>1. ASSUME NEW a, BindPreflight(a)
        PROVE  UNCHANGED <<main, runs, now, live, drift, bundle, staged, preflight, artifacts,
                           upsets>>
    BY <1>1 DEF BindPreflight, buildVars, govVars
  <1>2. ASSUME NEW lost, NEW seen, NEW after, NEW r, GovernanceGate(lost, seen, after, r)
        PROVE  /\ UNCHANGED <<main, runs, now, drift, bundle, staged, preflight, artifacts>>
               /\ live' = after
    BY <1>2 DEF GovernanceGate, buildVars, govVars
  <1>3. CASE InputPreflight
    BY <1>3 DEF InputPreflight, buildVars, govVars
  <1> QED BY <1>1, <1>2, <1>3 DEF TagStep

\* And the operator's steps.
LEMMA OperatorFrame ==
    ASSUME OperatorStep
    PROVE  UNCHANGED <<main, runs, now, live, drift, preflight, artifacts>>
  <1>1. ASSUME NEW v, NEW r, NEW kept, NEW flaw, AssembleBundle(v, r, kept, flaw)
        PROVE  UNCHANGED <<main, runs, now, live, drift, preflight, artifacts>>
    BY <1>1 DEF AssembleBundle, buildVars, govVars
  <1>2. ASSUME NEW r, StageEvidence(r)
        PROVE  UNCHANGED <<main, runs, now, live, drift, preflight, artifacts>>
    BY <1>2 DEF StageEvidence, buildVars, govVars
  <1>3. ASSUME NEW v, NEW c, NEW note, PushTag(v, c, note)
        PROVE  UNCHANGED <<main, runs, now, live, drift, preflight, artifacts>>
    BY <1>3 DEF PushTag, buildVars, govVars
  <1> QED BY <1>1, <1>2, <1>3 DEF OperatorStep

\* Every step keeps the live settings settings.
LEMMA SettingsStep ==
    ASSUME CountInv, [Next]_vars
    PROVE  Settings'
  <1> USE DEF CountInv, Settings
  <1>1. ASSUME NEW after \in SettingValues,
               \/ ChangeSettings(after)
               \/ \E lost, seen : GovernanceDrift(lost, seen, after)
        PROVE  Settings'
    BY <1>1 DEF ChangeSettings, GovernanceDrift, SettingValues
  <1>2. CASE BuildStep
    BY <1>2 DEF BuildStep, PushMain, StartRerun, RebuildPart, FinishRerun, govVars
  <1>3. CASE OperatorStep
    BY <1>3, OperatorFrame
  <1>4. CASE PreflightStep
    BY <1>4, PreflightFrame DEF SettingValues
  <1>5. CASE TagStep
    BY <1>5, TagFrame DEF SettingValues
  <1>6. CASE UNCHANGED vars
    BY <1>6 DEF vars
  <1> QED BY <1>1, <1>2, <1>3, <1>4, <1>5, <1>6 DEF Next, Tick, govVars

\* Every step keeps the number of drift runs within MaxDrift.
LEMMA DriftCountStep ==
    ASSUME CountInv, [Next]_vars
    PROVE  DriftCount'
  <1> USE DEF CountInv, DriftCount
  <1>1. ASSUME NEW lost, NEW seen, NEW after, GovernanceDrift(lost, seen, after)
        PROVE  DriftCount'
    <2>1. PICK x : drift' = drift \cup {x}
      BY <1>1 DEF GovernanceDrift
    <2>2. Cardinality(drift) < MaxDrift
      BY <1>1 DEF GovernanceDrift
    <2>3. /\ IsFiniteSet(drift') /\ Cardinality(drift) \in Nat /\ Cardinality(drift') \in Nat
          /\ Cardinality(drift') <= Cardinality(drift) + 1
      BY <2>1, AddOne
    <2>4. MaxDrift \in Nat
      BY GateAssumption
    <2> QED BY <2>2, <2>3, <2>4
  <1>2. CASE BuildStep
    BY <1>2 DEF BuildStep, PushMain, StartRerun, RebuildPart, FinishRerun, govVars
  <1>3. CASE OperatorStep
    BY <1>3, OperatorFrame
  <1>4. CASE PreflightStep
    BY <1>4, PreflightFrame
  <1>5. CASE TagStep
    BY <1>5, TagFrame
  <1>6. CASE UNCHANGED vars
    BY <1>6 DEF vars
  <1> QED BY <1>1, <1>2, <1>3, <1>4, <1>5, <1>6 DEF Next, Tick, ChangeSettings, govVars

\* A bundle is staged once, and each has a number of its own.
LEMMA StagedCountStep ==
    ASSUME CountInv, [Next]_vars
    PROVE  StagedCount'
  <1> USE DEF CountInv, StagedCount, BundleStaged
  <1>1. ASSUME NEW v, NEW r, NEW kept, NEW flaw, AssembleBundle(v, r, kept, flaw),
               bundle.count < MaxBundles
        PROVE  StagedCount'
    <2>1. bundle'.count = bundle.count + 1 /\ staged' = staged
      BY <1>1 DEF AssembleBundle
    <2>2. MaxBundles \in Nat /\ Cardinality(staged) \in Nat
      BY GateAssumption, FS_CardinalityType
    <2>3. \A q \in staged : q.bundle # bundle'
      BY <2>1
    <2> QED BY <1>1, <2>1, <2>2, <2>3
  <1>2. ASSUME NEW r, StageEvidence(r)
        PROVE  StagedCount'
    <2> DEFINE s == [bundle |-> bundle, version |-> bundle.version, sha |-> r, run |-> r,
                     attempt |-> runs[r].attempt, at |-> now]
    <2>1. staged' = staged \cup {s} /\ bundle' = bundle /\ bundle.count > 0 /\ ~BundleStaged
      BY <1>2 DEF StageEvidence
    <2>2. s.bundle = bundle
      OBVIOUS
    <2> HIDE DEF s
    <2>3. Cardinality({}) = 0
      BY FS_EmptySet
    <2>4. IsFiniteSet(staged') /\ Cardinality(staged') \in Nat /\ Cardinality(staged) \in Nat
          /\ Cardinality(staged') <= Cardinality(staged) + 1
      BY <2>1, AddOne
    <2>5. Cardinality(staged) < bundle.count
      BY <2>1, <2>3
    <2>6. Cardinality(staged') <= bundle'.count
      BY <2>1, <2>4, <2>5, GateAssumption
    <2>7. \A q \in staged' : q.bundle.count \in 1..bundle'.count
      BY <2>1, <2>2, GateAssumption
    <2> QED BY <2>1, <2>2, <2>4, <2>6, <2>7
  <1>3. CASE OperatorStep
    <2>1. 0 < MaxBundles
      BY GateAssumption
    <2>2. ASSUME NEW v, NEW c, NEW note, PushTag(v, c, note)
          PROVE  StagedCount'
      BY <2>2 DEF PushTag
    <2> QED BY <1>1, <1>2, <1>3, <2>1, <2>2 DEF OperatorStep
  <1>4. CASE BuildStep
    BY <1>4 DEF BuildStep, PushMain, StartRerun, RebuildPart, FinishRerun, govVars
  <1>5. CASE PreflightStep
    BY <1>5, PreflightFrame
  <1>6. CASE TagStep
    BY <1>6, TagFrame
  <1>7. CASE UNCHANGED vars
    BY <1>7 DEF vars
  <1> QED BY <1>3, <1>4, <1>5, <1>6, <1>7 DEF Next, Tick, ChangeSettings, GovernanceDrift

\* A preflight makes at most one artifact.
LEMMA ArtifactCountStep ==
    ASSUME CountInv, GateInv, [Next]_vars
    PROVE  ArtifactCount'
  <1> USE DEF CountInv, ArtifactCount
  <1>0. Cardinality(artifacts) \in Nat
    BY FS_CardinalityType
  <1>1. ASSUME NEW profile, NEW v, NEW r, NEW s, ResolveSource(profile, v, r, s)
        PROVE  ArtifactCount'
    <2>1. preflight'.count = preflight.count + 1 /\ artifacts' = artifacts
      BY <1>1 DEF ResolveSource, GateInv, PreflightOK, Idle
    <2> QED BY <1>0, <2>1
  <1>2. ASSUME NEW lost, NEW seen, NEW after, NEW checks,
               BindArtifacts(lost, seen, after, checks)
        PROVE  ArtifactCount'
    <2>1. preflight'.count = preflight.count /\ artifacts' = artifacts /\ preflight.step = "resolved"
      BY <1>2 DEF BindArtifacts, GateInv, PreflightOK, Idle
    <2> QED BY <1>0, <2>1
  <1>3. CASE FinishPreflight
    <2> DEFINE p == [preflight EXCEPT !.at = now]
    <2>1. p.count = preflight.count /\ [p EXCEPT !.step = "refused"].count = preflight.count
          /\ [p EXCEPT !.step = "refused"].step = "refused"
      BY DEF GateInv, PreflightOK, Idle
    <2>2. Cardinality(artifacts) < preflight.count
      BY <1>3 DEF FinishPreflight
    <2>3. \/ artifacts' = artifacts \cup {p} /\ preflight' = Idle(p.count)
          \/ artifacts' = artifacts /\ preflight' = [p EXCEPT !.step = "refused"]
      BY <1>3 DEF FinishPreflight
    <2>4. CASE artifacts' = artifacts \cup {p} /\ preflight' = Idle(p.count)
      <3> HIDE DEF p
      <3>1. preflight'.count = preflight.count /\ preflight'.step = "idle"
        BY <2>1, <2>4 DEF Idle
      <3>2. /\ IsFiniteSet(artifacts') /\ Cardinality(artifacts') \in Nat
            /\ Cardinality(artifacts') <= Cardinality(artifacts) + 1
        BY <2>4, AddOne
      <3> QED BY <1>0, <2>2, <3>1, <3>2
    <2>5. CASE artifacts' = artifacts /\ preflight' = [p EXCEPT !.step = "refused"]
      BY <1>0, <2>1, <2>2, <2>5
    <2> QED BY <2>3, <2>4, <2>5
  <1>4. CASE PreflightFails
    BY <1>4 DEF PreflightFails, Idle
  <1>5. CASE PreflightStep
    BY <1>1, <1>2, <1>3, <1>4, <1>5 DEF PreflightStep
  <1>6. CASE OperatorStep
    BY <1>6, OperatorFrame
  <1>7. CASE BuildStep
    BY <1>7 DEF BuildStep, PushMain, StartRerun, RebuildPart, FinishRerun
  <1>8. CASE TagStep
    BY <1>8, TagFrame
  <1>9. CASE UNCHANGED vars
    BY <1>9 DEF vars
  <1> QED BY <1>5, <1>6, <1>7, <1>8, <1>9 DEF Next, Tick, ChangeSettings, GovernanceDrift

\* The type invariant, bounds included: no sequence of pushes, reruns, bundles,
\* preflights and drift runs leaves the ranges of the state (TypeOK).
THEOREM GateTypes == Spec => []TypeOK
  <1>1. Init => CountInv
    BY CountInit
  <1>2. CountInv /\ GateInv /\ [Next]_vars => CountInv'
    BY ClockStep, SettingsStep, DriftCountStep, StagedCountStep, ArtifactCountStep DEF CountInv
  <1>3. CountInv /\ GateInv => TypeOK
    <2> SUFFICES ASSUME CountInv, GateInv
                 PROVE  TypeOK
      OBVIOUS
    <2>1. ASSUME NEW r \in Commits
          PROVE  /\ runs[r].status \in {"none", "success", "running", "cancelled"}
                 /\ runs[r].made \in [Parts -> 1..MaxAttempt]
                 /\ runs[r].status = "success" =>
                     /\ runs[r].contract = runs[r].attempt
                     /\ runs[r].log[runs[r].contract] = runs[r].made
      <3>1. runs[r] \in RunRecords /\ RunOK(main, runs, r)
        BY DEF GateInv, RunsOK
      <3> QED BY <3>1 DEF RunRecords, RunOK, Made, Attempts
    <2>2. Cardinality(staged) <= MaxBundles
      BY FS_CardinalityType, GateAssumption DEF CountInv, StagedCount
    <2>3. main \in Commits
      BY DEF GateInv, RunsOK
    <2> QED BY <2>1, <2>2, <2>3
            DEF TypeOK, CountInv, Clock, Settings, DriftCount, ArtifactCount, GateInv,
                PreflightOK, TagOK
  <1> QED BY <1>1, <1>2, <1>3, GateInvariance, PTL DEF Spec

===============================================================================
