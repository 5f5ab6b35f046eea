------------------------------ MODULE Governance ------------------------------
(***************************************************************************)
(* Governance evidence: the snapshot of the repository's settings          *)
(* (collect-governance.py), its validation against the policy of the       *)
(* checked-out commit (validate-governance.py), and the replay of a drift  *)
(* run (validate-governance-drift-replay.py, governance-drift.yml).        *)
(*                                                                         *)
(* A control is a class of settings the policy speaks of; `live' maps each *)
(* to whether the repository satisfies the policy now.                     *)
(***************************************************************************)
EXTENDS Naturals, FiniteSets

CONSTANTS
    Controls,        \* branch protection, rulesets, environments, ...
    PolicyChanges,   \* commits that change ci/github-governance-policy.yml
    DriftLife        \* audit_log_lookback_days

ASSUME GovernanceAssumption ==
    PolicyChanges \subseteq Nat /\ DriftLife \in Nat /\ IsFiniteSet(Controls)

\* The digest of the policy file in commit sha.
PolicyDigest(sha) == Cardinality({c \in PolicyChanges : c <= sha})

\* collect_audit: the operator's export when there is one; otherwise the log is
\* fetched and recorded as free of unapproved changes without being read.
CollectAudit(exported) == IF exported = "none" THEN "approved" ELSE exported

\* The requests are made one after the other: a setting that is changed meanwhile
\* is seen as it was or as it became.
Seen(before, after) ==
    {s \in [Controls -> BOOLEAN] : \A c \in Controls : s[c] \in {before[c], after[c]}}

\* One file per control; a request that fails leaves an error in its place, and
\* is listed in the manifest's failures.
CollectSnapshot(seen, lost, exported) ==
    [controls |-> [c \in Controls |->
                     IF c \in lost THEN "error" ELSE IF seen[c] THEN "ok" ELSE "bad"],
     audit |-> CollectAudit(exported),
     failures |-> lost]

ValidateSnapshotManifest(s) == s.failures = {} /\ DOMAIN s.controls = Controls

ValidateAuditLog(s) == s.audit = "approved"

ValidateControls(s) == \A c \in Controls : s.controls[c] = "ok"

\* governance-policy-validation.json.
ValidateGovernance(s) ==
    /\ ValidateSnapshotManifest(s)
    /\ ValidateControls(s)
    /\ ValidateAuditLog(s)

\* A drift run's artifact: validated at its commit, signed, with the digests.
DriftRun(id, head, s, at) ==
    [id |-> id, head |-> head, at |-> at, policy |-> PolicyDigest(head), snapshot |-> s,
     report |-> ValidateGovernance(s)]

\* Runs that succeeded; the newest comes first in the list.  The signing and
\* the upload come after the validation, which ends the job when it fails.
Succeeded(runs) == {r \in runs : r.report}

\* Mutant: as if the newest successful run were taken however old it is.
SelectRunAnyAge(runs, now) ==
    {r \in Succeeded(runs) : \A q \in Succeeded(runs) : q.id <= r.id}

SelectRun(runs, now) ==
    {r \in Succeeded(runs) :
        /\ now - r.at <= DriftLife
        /\ \A q \in Succeeded(runs) : q.id <= r.id}

ValidateDriftReplay(r, sha) ==
    /\ r.report
    /\ r.policy = PolicyDigest(sha)
    /\ r.report = ValidateGovernance(r.snapshot)

===============================================================================
