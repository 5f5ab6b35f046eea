------------------------- MODULE ReleasePublishProofs -------------------------
(***************************************************************************)
(* The release workflow implements the life cycle of a release, for every  *)
(* set of files, number of attempts and number of faults.                  *)
(***************************************************************************)
EXTENDS ReleasePublish, TLAPS

-------------------------------------------------------------------------------
(* The inductive invariant *)

\* Keys the publication manifest may list.
BaseNames == StagedNames \cup {Archive}
BaseKeys  == {File(n) : n \in BaseNames} \cup {Side(n) : n \in BaseNames}

\* The promoted files are in d, with the bytes they had.
HasBound(d) == \A n \in Bound : File(n) \in DOMAIN d /\ d[File(n)] = Bytes(n, 0, Empty)

\* A manifest, wherever it is kept, lists no proof and the promoted files.
HasGoodManifest(d) ==
    File(Manifest) \in DOMAIN d =>
        /\ DOMAIN d[File(Manifest)].holds \subseteq BaseKeys
        /\ HasBound(d[File(Manifest)].holds)

\* The post-publication record of the files that manifest bytes m list.
RecordOf(m) ==
    [k \in NonSide(m.holds) \cup {File(Manifest)} |->
        IF k = File(Manifest) THEN m ELSE m.holds[k]]

\* A proof manifest, wherever it is kept, goes with a record of its manifest.
HasGoodProof(d) ==
    File(ProofManifest) \in DOMAIN d =>
        LET listed == d[File(ProofManifest)].holds IN
        /\ {File(Record), File(Manifest)} \subseteq DOMAIN listed
        /\ DOMAIN listed \subseteq ProofKeys \cup {File(Manifest)}
        /\ listed[File(Record)].holds = RecordOf(listed[File(Manifest)])

Signing == {"sign", "attest", "machine", "package", "manifest", "bundle", "failed-sign"}
Signed  == {"attest", "machine", "package", "manifest"}

StagedInv ==
    /\ pc \in Signing =>
        /\ DOMAIN staged = {File(n) : n \in StagedNames}
        /\ HasBound(staged)
    /\ pc \in Signed => DOMAIN dir \subseteq BaseKeys /\ HasBound(dir)
    /\ pc = "bundle" => File(ProofManifest) \notin DOMAIN dir

ManifestInv ==
    /\ HasGoodManifest(bundle)
    /\ HasGoodManifest(assets)
    /\ HasGoodManifest(dir)
    /\ File(ProofManifest) \notin DOMAIN bundle

ProofInv ==
    /\ HasGoodProof(proof)
    /\ HasGoodProof(assets)
    /\ File(Manifest) \notin DOMAIN proof

StatusInv ==
    /\ status \in {"none", "draft", "public"}
    /\ pc = "upload" => status # "public"
    /\ pc \in {"download", "verify", "proof", "final", "undraft"} => status = "draft"
    /\ pc = "undraft" \/ status = "public" => Acceptable(assets)

PublishInv == StagedInv /\ ManifestInv /\ ProofInv /\ StatusInv

-------------------------------------------------------------------------------
(* Keys, directories and signatures *)

\* The names the jobs give out are different keys.
LEMMA KeyFacts ==
    /\ \A n, m : (File(n) = File(m) <=> n = m) /\ (Side(n) = Side(m) <=> n = m)
    /\ \A n, m : File(n) # Side(m)
    /\ \A n : File(n)[1] = n /\ File(n)[2] = "file" /\ Side(n)[1] = n /\ Side(n)[2] = "side"
  BY DEF File, Side

\* The jobs' names are no file's, and the keys of files, manifest and proof differ.
LEMMA BaseFacts ==
    /\ BaseKeys \cap ProofKeys = {} /\ BaseKeys \cap Self = {} /\ Self \cap ProofKeys = {}
    /\ {Archive, Manifest, Record, RawStatements, ManifestStatement, ProofManifest}
         \cap PayloadSig = {}
    /\ \A n \in Bound : n # Archive /\ n # Manifest
    /\ \A n \in Bound : n \notin Fresh
    /\ Archive # Manifest
  BY KeyFacts, PublishAssumption
     DEF BaseKeys, BaseNames, StagedNames, ProofKeys, ProofManifestKeys, Self, Archive,
         Manifest, Record, RawStatements, ManifestStatement, ProofManifest

\* Signing adds sides and leaves files alone.
LEMMA SignDomain ==
    ASSUME NEW d, NEW keys, NEW a
    PROVE  DOMAIN Sign(d, keys, a) = DOMAIN d \cup {Side(k[1]) : k \in keys}
<1> DEFINE s == [x \in {Side(k[1]) : k \in keys} |-> Bytes(x[1], a, Only(d, {File(x[1])}))]
<1>1. Sign(d, keys, a) = Over(s, d)
  BY DEF Sign
<1>2. DOMAIN s = {Side(k[1]) : k \in keys}
  OBVIOUS
<1> HIDE DEF s
<1>3. DOMAIN Over(s, d) = DOMAIN s \cup DOMAIN d
  BY DEF Over
<1> QED BY <1>1, <1>2, <1>3

\* A signed directory has the files it had.
LEMMA SignFiles ==
    ASSUME NEW d, NEW keys, NEW a, NEW n, File(n) \in DOMAIN d
    PROVE  Sign(d, keys, a)[File(n)] = d[File(n)]
<1> DEFINE s == [x \in {Side(k[1]) : k \in keys} |-> Bytes(x[1], a, Only(d, {File(x[1])}))]
<1>1. Sign(d, keys, a) = Over(s, d)
  BY DEF Sign
<1>2. File(n) \notin DOMAIN s
  BY KeyFacts
<1> HIDE DEF s
<1>3. \A k \in DOMAIN d \ DOMAIN s : Over(s, d)[k] = d[k]
  BY DEF Over
<1> QED BY <1>1, <1>2, <1>3

\* Signing keeps the promoted files, a manifest and a proof manifest in place.
LEMMA SignKeeps ==
    ASSUME NEW d, NEW keys, NEW a
    PROVE  /\ HasBound(d) => HasBound(Sign(d, keys, a))
           /\ File(Manifest) \in DOMAIN d =>
                File(Manifest) \in DOMAIN Sign(d, keys, a)
                  /\ Sign(d, keys, a)[File(Manifest)] = d[File(Manifest)]
<1>1. DOMAIN d \subseteq DOMAIN Sign(d, keys, a)
  BY SignDomain
<1>2. \A n : File(n) \in DOMAIN d => Sign(d, keys, a)[File(n)] = d[File(n)]
  BY SignFiles
<1> QED BY <1>1, <1>2 DEF HasBound

\* A good directory laid over a good one is good.
LEMMA OverGood ==
    ASSUME NEW d, NEW e
    PROVE  /\ HasGoodManifest(d) /\ HasGoodManifest(e) => HasGoodManifest(Over(d, e))
           /\ HasGoodProof(d) /\ HasGoodProof(e) => HasGoodProof(Over(d, e))
<1>1. \A k \in DOMAIN Over(d, e) :
        \/ k \in DOMAIN d /\ Over(d, e)[k] = d[k]
        \/ k \in DOMAIN e /\ Over(d, e)[k] = e[k]
  BY DEF Over
<1> QED BY <1>1 DEF HasGoodManifest, HasGoodProof

\* A part of a directory with good manifests and proofs is good.
LEMMA OnlyGood ==
    ASSUME NEW d, NEW keys
    PROVE  /\ HasGoodManifest(d) => HasGoodManifest(Only(d, keys))
           /\ HasGoodProof(d) => HasGoodProof(Only(d, keys))
<1>1. \A k \in DOMAIN Only(d, keys) : k \in DOMAIN d /\ Only(d, keys)[k] = d[k]
  BY DEF Only
<1> QED BY <1>1 DEF HasGoodManifest, HasGoodProof

-------------------------------------------------------------------------------
(* What the jobs make is good *)

\* release-stage keeps the bytes of the promoted files.
LEMMA StageGood ==
    ASSUME NEW d, NEW a,
           d = [k \in {File(n) : n \in StagedNames} |->
                  Bytes(k[1], IF k[1] \in Fresh THEN a ELSE 0, Empty)]
    PROVE  HasBound(d)
<1> SUFFICES ASSUME NEW n \in Bound
             PROVE  File(n) \in DOMAIN d /\ d[File(n)] = Bytes(n, 0, Empty)
  BY DEF HasBound
<1>1. n \in StagedNames /\ n \notin Fresh /\ File(n)[1] = n
  BY BaseFacts, KeyFacts DEF StagedNames
<1> QED BY <1>1

\* The signed directory has base keys only.
LEMMA SignedStage ==
    ASSUME NEW d, NEW a, DOMAIN d = {File(n) : n \in StagedNames}
    PROVE  DOMAIN Sign(d, NonSide(d), a) \subseteq BaseKeys
<1>1. \A k \in NonSide(d) : k[1] \in StagedNames
  BY KeyFacts DEF NonSide
<1>2. DOMAIN Sign(d, NonSide(d), a) = DOMAIN d \cup {Side(k[1]) : k \in NonSide(d)}
  BY SignDomain
<1> QED BY <1>1, <1>2 DEF BaseKeys, BaseNames

\* The evidence archive and its signature leave the promoted files in place.
LEMMA ArchivedGood ==
    ASSUME NEW d, NEW a, DOMAIN d \subseteq BaseKeys, HasBound(d)
    PROVE  HasBound(Archived(d, a)) /\ DOMAIN Archived(d, a) \subseteq BaseKeys
<1> DEFINE x == Over(One(File(Archive), Bytes(Archive, a, Empty)), d)
           y == Archived(d, a)
<1>1. DOMAIN x = DOMAIN d \cup {File(Archive)}
  BY DEF Over, One
<1>2. HasBound(x)
  <2> SUFFICES ASSUME NEW n \in Bound
               PROVE  File(n) \in DOMAIN x /\ x[File(n)] = Bytes(n, 0, Empty)
    BY DEF HasBound
  <2>1. File(n) \in DOMAIN d /\ d[File(n)] = Bytes(n, 0, Empty)
    BY DEF HasBound
  <2>2. File(n) # File(Archive)
    BY BaseFacts, KeyFacts
  <2> QED BY <2>1, <2>2 DEF Over, One
<1>3. y = Sign(x, {File(Archive)}, a)
  BY DEF Archived
<1> HIDE DEF x
<1>4. DOMAIN y = DOMAIN x \cup {Side(Archive)}
  <2>1. {Side(k[1]) : k \in {File(Archive)}} = {Side(Archive)}
    BY KeyFacts
  <2> QED BY <1>3, <2>1, SignDomain
<1>5. HasBound(y)
  BY <1>2, <1>3, SignKeeps
<1>6. {File(Archive), Side(Archive)} \subseteq BaseKeys
  BY DEF BaseKeys, BaseNames
<1> QED BY <1>1, <1>4, <1>5, <1>6

\* The directory with its publication manifest has a good one.
LEMMA ManifestGood ==
    ASSUME NEW y, NEW a, DOMAIN y \subseteq BaseKeys, HasBound(y)
    PROVE  /\ HasGoodManifest(WithManifest(y, a))
           /\ File(ProofManifest) \notin DOMAIN WithManifest(y, a)
<1> DEFINE z == Over(One(File(Manifest), CreateManifest(y, a)), y)
<1>1. CreateManifest(y, a).holds = Only(y, DOMAIN y \ Self)
  BY DEF CreateManifest, Bytes
<1>2. DOMAIN y \ Self = DOMAIN y
  BY BaseFacts
<1>3. DOMAIN Only(y, DOMAIN y) \subseteq BaseKeys /\ HasBound(Only(y, DOMAIN y))
  BY DEF HasBound, Only
<1>4. File(Manifest) \in DOMAIN z /\ z[File(Manifest)] = CreateManifest(y, a)
  BY DEF Over, One
<1>5. DOMAIN z = DOMAIN y \cup {File(Manifest)}
  BY DEF Over, One
<1> HIDE DEF z
<1>6. WithManifest(y, a) = Sign(z, {File(Manifest)}, a)
  BY DEF WithManifest, z
<1>7. WithManifest(y, a)[File(Manifest)] = CreateManifest(y, a)
  BY <1>4, <1>6, SignKeeps
<1>8. File(ProofManifest) \notin DOMAIN WithManifest(y, a)
  <2>1. DOMAIN WithManifest(y, a) = DOMAIN z \cup {Side(k[1]) : k \in {File(Manifest)}}
    BY <1>6, SignDomain
  <2>2. File(ProofManifest) \notin BaseKeys \cup {File(Manifest)}
    BY BaseFacts, KeyFacts DEF ProofKeys, ProofManifestKeys, Manifest, ProofManifest
  <2>3. File(ProofManifest) \notin {Side(k[1]) : k \in {File(Manifest)}}
    BY KeyFacts
  <2> QED BY <1>5, <2>1, <2>2, <2>3
<1> QED BY <1>1, <1>2, <1>3, <1>7, <1>8 DEF HasGoodManifest

\* The record made from a directory that agrees with its manifest is the one the
\* manifest determines.
LEMMA RecordGood ==
    ASSUME NEW d, NEW a, ValidateManifest(d)
    PROVE  CreatePostPublicationRecord(d, a).holds = RecordOf(d[File(Manifest)])
<1> DEFINE listed == d[File(Manifest)].holds
           keys == NonSide(listed) \cup {File(Manifest)}
<1>1. /\ Self \subseteq DOMAIN d /\ DOMAIN listed = DOMAIN d \ Self
      /\ \A k \in DOMAIN listed : listed[k] = d[k]
  BY DEF ValidateManifest
<1>2. NonSide(d) \cup {File(Manifest)} = keys
  BY <1>1, KeyFacts DEF NonSide, Self
<1>3. keys \subseteq DOMAIN d
  BY <1>1 DEF NonSide, Self
<1>4. \A k \in keys \ {File(Manifest)} : d[k] = listed[k]
  BY <1>1 DEF NonSide
<1>5. CreatePostPublicationRecord(d, a).holds = Only(d, keys)
  BY <1>2 DEF CreatePostPublicationRecord, Bytes
<1>6. RecordOf(d[File(Manifest)]) =
        [k \in keys |-> IF k = File(Manifest) THEN d[File(Manifest)] ELSE listed[k]]
  BY DEF RecordOf
<1>7. Only(d, keys) = [k \in keys |-> d[k]]
  BY <1>3 DEF Only
<1> HIDE DEF keys, listed
<1> QED BY <1>4, <1>5, <1>6, <1>7

\* What the proof manifest lists belongs to the proof, the publication manifest
\* apart, and the record is among it.
LEMMA ListedFacts ==
    /\ ListedProof \subseteq ProofKeys \ ProofManifestKeys
    /\ File(Record) \in ListedProof
    /\ File(Manifest) \notin ProofKeys
    /\ File(ProofManifest) \in ProofKeys
  BY KeyFacts
     DEF ListedProof, ProofKeys, ProofManifestKeys, Manifest, Record, RawStatements,
         ManifestStatement, ProofManifest

\* What the publish job makes after it has verified the draft is a good proof.
LEMMA ProofGood ==
    ASSUME NEW d, NEW a, ValidateManifest(d)
    PROVE  HasGoodProof(CreateProof(d, a)) /\ File(Manifest) \notin DOMAIN CreateProof(d, a)
<1> DEFINE record == CreatePostPublicationRecord(d, a)
           made   == [k \in ProofKeys \ ProofManifestKeys |->
                        CASE k = File(Record) -> record
                          [] k = Side(Record) -> Bytes(Record, a, One(File(Record), record))
                          [] OTHER            -> Bytes(k[1], a, Empty)]
           listed == [k \in ListedProof \cup {File(Manifest)} |->
                        IF k = File(Manifest) THEN d[k] ELSE made[k]]
           proved == Bytes(ProofManifest, a, listed)
           whole  == [k \in ProofKeys |->
                        CASE k = File(ProofManifest) -> proved
                          [] k = Side(ProofManifest) ->
                                Bytes(ProofManifest, a, One(File(ProofManifest), proved))
                          [] OTHER -> made[k]]
<1>1. CreateProof(d, a) = whole
  BY DEF CreateProof
<1>2. made[File(Record)] = record
  BY ListedFacts, KeyFacts
<1> HIDE DEF made
<1>3. File(Record) # File(Manifest)
  BY KeyFacts DEF Record, Manifest
<1>4. /\ DOMAIN listed = ListedProof \cup {File(Manifest)}
      /\ listed[File(Record)] = record /\ listed[File(Manifest)] = d[File(Manifest)]
  BY <1>2, <1>3, ListedFacts
<1> HIDE DEF listed
<1>5. proved.holds = listed
  BY DEF Bytes
<1> HIDE DEF proved
<1>6. DOMAIN whole = ProofKeys /\ whole[File(ProofManifest)] = proved
  BY ListedFacts, KeyFacts
<1>7. record.holds = RecordOf(d[File(Manifest)])
  BY RecordGood
<1> HIDE DEF record, whole
<1> QED BY <1>1, <1>4, <1>5, <1>6, <1>7, ListedFacts DEF HasGoodProof

\* What the last check of the publish job accepts is acceptable.
LEMMA FinalIsAcceptable ==
    ASSUME NEW c, FinalVerified(c), HasGoodManifest(c), HasGoodProof(c)
    PROVE  Acceptable(c)
<1> DEFINE B == BaseAssets(c)
           m == c[File(Manifest)]
           listed == m.holds
           base == DOMAIN c \ ProofKeys
           proved == c[File(ProofManifest)].holds
<1>1. /\ ValidateManifest(B) /\ Verifiable(B) /\ ValidateProofManifest(c)
      /\ SignatureValid(c, File(Record)) /\ SignatureValid(c, File(ProofManifest))
      /\ DOMAIN c = UNION {DOMAIN B, DOMAIN proved, ProofManifestKeys}
  BY DEF FinalVerified
<1>1a. /\ File(ProofManifest) \in DOMAIN c
       /\ \A k \in DOMAIN proved : k \in DOMAIN c /\ proved[k] = c[k]
  BY <1>1 DEF ValidateProofManifest
<1>1b. /\ File(Record) \in DOMAIN proved /\ File(Manifest) \in DOMAIN proved
       /\ DOMAIN proved \subseteq ProofKeys \cup {File(Manifest)}
       /\ proved[File(Record)].holds = RecordOf(proved[File(Manifest)])
  BY <1>1a DEF HasGoodProof
<1>2. DOMAIN B \subseteq DOMAIN c /\ \A k \in DOMAIN B : B[k] = c[k]
  BY DEF BaseAssets, Only
<1> HIDE DEF B
<1>3. Self \subseteq DOMAIN B /\ B[File(Manifest)] = m
  BY <1>1, <1>2 DEF ValidateManifest, Self
<1>4. DOMAIN listed = DOMAIN B \ Self /\ \A k \in DOMAIN listed : listed[k] = c[k]
  BY <1>1, <1>2, <1>3 DEF ValidateManifest
<1>5. DOMAIN listed \subseteq BaseKeys /\ HasBound(listed)
  BY <1>2, <1>3 DEF HasGoodManifest, Self
<1>6. /\ DOMAIN B = base /\ DOMAIN listed = base \ Self
      /\ (DOMAIN c \ base) \ ProofManifestKeys \subseteq DOMAIN proved
  <2>1. DOMAIN B \subseteq BaseKeys \cup Self
    BY <1>4, <1>5
  <2>2. DOMAIN B \cap ProofKeys = {} /\ ProofManifestKeys \subseteq ProofKeys
    BY <2>1, BaseFacts DEF ProofKeys
  <2>3. DOMAIN proved \subseteq ProofKeys \cup DOMAIN B
    BY <1>1b, <1>3 DEF Self
  <2>4. DOMAIN c = DOMAIN B \cup DOMAIN proved \cup ProofManifestKeys
    BY <1>1
  <2> QED BY <1>4, <2>2, <2>3, <2>4
<1>7. UNION {Self, ProofManifestKeys, {File(Record), Side(Record)}} \subseteq DOMAIN c
  <2>1. Side(Record) \in DOMAIN c
    BY <1>1, KeyFacts DEF SignatureValid
  <2>2. Self \subseteq DOMAIN c /\ ProofManifestKeys \subseteq DOMAIN c /\ File(Record) \in DOMAIN c
    BY <1>1, <1>1a, <1>1b, <1>2, <1>3
  <2> QED BY <2>1, <2>2
<1>7a. \A k \in (DOMAIN c \ base) \ ProofManifestKeys : k \in DOMAIN proved /\ proved[k] = c[k]
  BY <1>1a, <1>6
<1>8. \A n \in Bound : c[File(n)] = Bytes(n, 0, Empty)
  BY <1>4, <1>5 DEF HasBound
<1>9. ASSUME NEW k \in NonSide(c) \ {File(RawStatements), File(ManifestStatement)}
      PROVE  SignatureValid(c, k)
  <2>1. k \in DOMAIN c /\ k[2] = "file" /\ k[1] \notin PayloadSig
    BY DEF NonSide
  <2>2. CASE k \in DOMAIN B
    <3>1. SignatureValid(B, k)
      BY <1>1, <2>1, <2>2 DEF Verifiable, NonSide
    <3>2. Side(k[1]) \in DOMAIN B /\ B[Side(k[1])].holds = Only(B, {k})
      BY <3>1 DEF SignatureValid
    <3>3. Only(B, {k}) = Only(c, {k})
      BY <1>2, <2>2 DEF Only
    <3> QED BY <1>2, <3>2, <3>3 DEF SignatureValid
  <2>3. CASE k \in ProofKeys
    <3>1. k \in {File(Record), File(ProofManifest)}
      BY <2>1, <2>3, KeyFacts DEF ProofKeys, ProofManifestKeys
    <3> QED BY <1>1, <3>1
  <2> QED BY <1>6, <2>1, <2>2, <2>3
<1>10. c[File(Record)].holds = Only(c, NonSide(Only(c, base)))
  <2> DEFINE keys == NonSide(listed) \cup {File(Manifest)}
  <2>3. c[File(Record)].holds = RecordOf(m)
    BY <1>1a, <1>1b
  <2>4. DOMAIN Only(c, base) = base
    BY DEF Only
  <2>5. Self \subseteq base /\ base = DOMAIN listed \cup Self
    BY <1>3, <1>6
  <2>6. NonSide(Only(c, base)) = keys
    BY <2>4, <2>5, KeyFacts, BaseFacts DEF NonSide, Self
  <2>7. keys \subseteq DOMAIN c
    BY <2>5 DEF NonSide, Self
  <2>8. \A k \in keys \ {File(Manifest)} : c[k] = listed[k]
    BY <1>4 DEF NonSide
  <2>9. RecordOf(m) = [k \in keys |-> IF k = File(Manifest) THEN m ELSE listed[k]]
    BY DEF RecordOf
  <2>10. Only(c, keys) = [k \in keys |-> c[k]]
    BY <2>7 DEF Only
  <2> HIDE DEF keys
  <2> QED BY <2>3, <2>6, <2>8, <2>9, <2>10
<1> QED BY <1>4, <1>6, <1>7, <1>7a, <1>8, <1>9, <1>10 DEF Acceptable

-------------------------------------------------------------------------------
(* The invariant is inductive *)

\* The workflow starts in the invariant.
LEMMA PublishInit == Init => PublishInv
<1> SUFFICES ASSUME Init PROVE PublishInv
  OBVIOUS
<1>1. DOMAIN Empty = {}
  BY DEF Empty
<1> QED
  BY <1>1 DEF Init, PublishInv, StagedInv, Signing, Signed, ManifestInv, ProofInv, StatusInv,
              HasGoodManifest, HasGoodProof

\* Uploads keep the assets' manifests and proofs good.
LEMMA UploadGood ==
    ASSUME NEW d, NEW next, NEW failed, UploadTo(d, next, failed),
           HasGoodManifest(d), HasGoodProof(d),
           HasGoodManifest(assets), HasGoodProof(assets)
    PROVE  HasGoodManifest(assets)' /\ HasGoodProof(assets)' /\ pc' \in {next, failed}
<1>1. pc' \in {next, failed}
  BY DEF UploadTo
<1>2. PICK e : assets' = Over(e, assets) /\ HasGoodManifest(e) /\ HasGoodProof(e)
  <2>1. CASE assets' = Over(d, assets)
    BY <2>1
  <2>2. CASE \E kept \in SUBSET DOMAIN d : assets' = Over(Only(d, kept), assets)
    <3>1. PICK kept \in SUBSET DOMAIN d : assets' = Over(Only(d, kept), assets)
      BY <2>2
    <3> QED BY <3>1, OnlyGood
  <2> QED BY <2>1, <2>2 DEF UploadTo
<1>3. HasGoodManifest(Over(e, assets)) /\ HasGoodProof(Over(e, assets))
  BY <1>2, OverGood
<1> QED BY <1>1, <1>2, <1>3 DEF HasGoodManifest, HasGoodProof

\* A step that touches neither directories nor the release.
LEMMA QuietStep ==
    ASSUME PublishInv,
           UNCHANGED <<staged, bundle, status, assets, dir, proof>>,
           pc' \in Signing => pc \in Signing,
           pc' \in Signed => pc \in Signed,
           pc' = "bundle" => pc = "bundle",
           pc' = "upload" => status # "public",
           pc' \in {"download", "verify", "proof", "final", "undraft"} =>
             pc = pc' \/ status = "draft",
           pc' = "undraft" => pc = "undraft"
    PROVE  PublishInv'
  BY DEF PublishInv, StagedInv, ManifestInv, ProofInv, StatusInv, HasGoodManifest,
         HasGoodProof, HasBound, Acceptable

\* Every step of a job, an operator or GitHub keeps the invariant.
LEMMA PublishStep == PublishInv /\ [Next]_vars => PublishInv'
<1> SUFFICES ASSUME PublishInv, [Next]_vars PROVE PublishInv'
  OBVIOUS
<1> USE DEF PublishInv, StagedInv, ManifestInv, ProofInv, StatusInv, Signing, Signed
<1>e. DOMAIN Empty = {}
  BY DEF Empty
<1>1. CASE StageRelease
  <2>1. HasBound(staged')
    BY <1>1, StageGood DEF StageRelease, StagedNames
  <2>2. DOMAIN staged' = {File(n) : n \in StagedNames}
    BY <1>1 DEF StageRelease, StagedNames
  <2> QED BY <1>1, <2>1, <2>2 DEF StageRelease
<1>2. CASE SignRelease
  <2>1. HasBound(dir') /\ DOMAIN dir' \subseteq BaseKeys
    BY <1>2, SignKeeps, SignedStage DEF SignRelease
  <2>2. HasGoodManifest(dir')
    BY <2>1, BaseFacts DEF HasGoodManifest, Self
  <2> QED BY <1>2, <2>1, <2>2 DEF SignRelease
<1>2a. CASE AttestRelease
  BY <1>2a, QuietStep DEF AttestRelease
<1>3. CASE MachineVerify
  BY <1>3, QuietStep DEF MachineVerify
<1>4. CASE PackageRelease
  <2>1. HasBound(dir') /\ DOMAIN dir' \subseteq BaseKeys
    BY <1>4, ArchivedGood DEF PackageRelease
  <2>2. HasGoodManifest(dir')
    BY <2>1, BaseFacts DEF HasGoodManifest, Self
  <2> QED BY <1>4, <2>1, <2>2 DEF PackageRelease
<1>4a. CASE SignManifest
  <2>1. HasGoodManifest(dir') /\ File(ProofManifest) \notin DOMAIN dir'
    BY <1>4a, ManifestGood DEF SignManifest
  <2> QED BY <1>4a, <2>1 DEF SignManifest
<1>4b. CASE BundleRelease
  <2>1. bundle' = dir \/ bundle' = bundle
    BY <1>4b DEF BundleRelease
  <2> QED BY <1>4b, <2>1 DEF BundleRelease
<1>5. CASE GuardExistingRelease
  BY <1>5, QuietStep DEF GuardExistingRelease
<1>6. CASE CreateRelease
  <2>1. HasGoodProof(bundle)
    BY DEF HasGoodProof
  <2>2. HasGoodManifest(assets)' /\ HasGoodProof(assets)' /\ pc' \in {"download", "failed-publish"}
    BY <1>6, <2>1, UploadGood DEF CreateRelease
  <2> QED BY <1>6, <2>2 DEF CreateRelease
<1>7. CASE DownloadDraft
  BY <1>7 DEF DownloadDraft
<1>8. CASE VerifyDraft
  <2>1. HasGoodProof(proof') /\ File(Manifest) \notin DOMAIN proof'
    <3>1. CASE proof' = Empty
      BY <3>1, <1>e DEF HasGoodProof
    <3>2. CASE proof' # Empty
      BY <1>8, <3>2, ProofGood DEF VerifyDraft, PostPublicationVerified
    <3> QED BY <3>1, <3>2
  <2> QED BY <1>8, <2>1 DEF VerifyDraft
<1>9. CASE UploadProof
  <2>1. HasGoodManifest(proof)
    BY DEF HasGoodManifest
  <2>2. HasGoodManifest(assets)' /\ HasGoodProof(assets)' /\ pc' \in {"final", "failed-publish"}
    BY <1>9, <2>1, UploadGood DEF UploadProof
  <2> QED BY <1>9, <2>2 DEF UploadProof
<1>10. CASE VerifyFinal
  <2>1. pc' = "undraft" => Acceptable(assets)
    BY <1>10, FinalIsAcceptable DEF VerifyFinal
  <2> QED BY <1>10, <2>1 DEF VerifyFinal
<1>11. CASE Undraft
  BY <1>11 DEF Undraft
<1>12. CASE JobFails
  BY <1>12, QuietStep DEF JobFails, FailedAt, Running
<1>13. CASE Rerun
  <2>1. HasGoodManifest(dir') /\ HasGoodProof(proof') /\ File(Manifest) \notin DOMAIN proof'
    BY <1>13, <1>e DEF Rerun, HasGoodManifest, HasGoodProof
  <2>2. pc' \in {"stage", "sign", "guard"} /\ (pc' = "sign" => pc = "failed-sign")
    BY <1>13 DEF Rerun, RestartsAt
  <2> QED BY <1>13, <2>1, <2>2 DEF Rerun
<1>14. CASE DeleteDraft
  <2>1. HasGoodManifest(assets') /\ HasGoodProof(assets')
    BY <1>14, <1>e DEF DeleteDraft, HasGoodManifest, HasGoodProof
  <2> QED BY <1>14, <2>1 DEF DeleteDraft
<1>15. CASE RemoveProofAssets
  <2>1. HasGoodManifest(assets') /\ HasGoodProof(assets')
    BY <1>15, OnlyGood DEF RemoveProofAssets
  <2> QED BY <1>15, <2>1 DEF RemoveProofAssets
<1>16. CASE UNCHANGED vars
  BY <1>16, QuietStep DEF vars
<1> QED
  BY <1>1, <1>2, <1>2a, <1>3, <1>4, <1>4a, <1>4b, <1>5, <1>6, <1>7, <1>8, <1>9, <1>10,
     <1>11, <1>12, <1>13, <1>14, <1>15, <1>16 DEF Next, Step

\* The invariant holds throughout.
LEMMA PublishInvariant == Spec => []PublishInv
  BY PublishInit, PublishStep, PTL DEF Spec

\* Whatever fails and however often jobs are rerun, a public release lists every
\* file it has, holds the promoted bytes, is signed, and was verified as it is
\* (the publish job of release.yml).
THEOREM PublicReleaseIsAcceptable == Spec => []PublicIsAcceptable
<1>1. PublishInv => PublicIsAcceptable
  BY DEF PublishInv, StatusInv, PublicIsAcceptable
<1> QED BY <1>1, PublishInvariant, PTL

\* The release workflow implements ReleaseLifecycle: drafts come and go, what
\* becomes public is acceptable, and a public release is changed only by a job
\* whose gh release view failed.
THEOREM WorkflowImplementsLifecycle == Spec => ImplementsLifecycle
<1>1. Init => Lifecycle!Init
  BY DEF Init, Lifecycle!Init, Lifecycle!NoContent, Empty
<1> DEFINE content == IF status = "public" THEN assets ELSE Empty
<1>2. ASSUME PublishInv, [Next]_vars
      PROVE  [Lifecycle!Next]_<<status, content>>
  <2> USE DEF Lifecycle!Next, Lifecycle!Draft, Lifecycle!Withdraw, Lifecycle!Publish,
              Lifecycle!Redraft
  <2>1. CASE CreateRelease
    <3>1. /\ status' = "draft" /\ status \in {"none", "draft", "public"}
          /\ status = "public" => pc = "upload-unread"
      BY <1>2, <2>1 DEF CreateRelease, PublishInv, StatusInv
    <3> QED BY <3>1 DEF Lifecycle!NoContent, Empty
  <2>2. CASE Undraft
    <3>1. status = "draft" /\ Acceptable(assets) /\ status' = "public" /\ assets' = assets
      BY <1>2, <2>2 DEF Undraft, PublishInv, StatusInv
    <3>2. Acceptable(assets')
      BY <3>1
    <3> QED BY <3>1, <3>2
  <2>3. CASE DeleteDraft
    BY <1>2, <2>3 DEF DeleteDraft
  <2>4. CASE UNCHANGED status /\ (status = "public" => UNCHANGED assets)
    BY <2>4
  <2>5. CASE UploadProof \/ RemoveProofAssets
    <3>1. UNCHANGED status /\ status = "draft"
      BY <1>2, <2>5 DEF UploadProof, RemoveProofAssets, PublishInv, StatusInv
    <3> QED BY <2>4, <3>1
  <2>6. CASE \/ StageRelease \/ SignRelease \/ AttestRelease \/ MachineVerify
             \/ PackageRelease \/ SignManifest \/ BundleRelease
             \/ GuardExistingRelease \/ DownloadDraft \/ VerifyDraft \/ VerifyFinal
             \/ JobFails \/ Rerun \/ UNCHANGED vars
    BY <2>4, <2>6
       DEF StageRelease, SignRelease, AttestRelease, MachineVerify, PackageRelease,
           SignManifest, BundleRelease, GuardExistingRelease, DownloadDraft, VerifyDraft, VerifyFinal, JobFails, Rerun, vars
  <2> QED BY <1>2, <2>1, <2>2, <2>3, <2>5, <2>6 DEF Next, Step
<1> QED BY <1>1, <1>2, PublishInvariant, PTL DEF Spec, ImplementsLifecycle, Lifecycle!Spec

-------------------------------------------------------------------------------
(* The workflow as it is *)

\* release-sign never gets past its own validation.
Blocked ==
    /\ status = "none"
    /\ pc \in {"stage", "sign", "attest", "failed-stage", "failed-sign"}
    /\ attempt \in Nat \ {0}
    /\ pc = "attest" => ~SignedComplete(dir)

\* What release-sign has signed is refused for want of the preflight's signature.
LEMMA SignedIsRefused ==
    ASSUME "ingress-identity" \notin Repairs, DOMAIN staged = {File(n) : n \in StagedNames},
           attempt \in Nat \ {0}
    PROVE  ~SignedComplete(Sign(staged, NonSide(staged), attempt))
<1> DEFINE signed == Sign(staged, NonSide(staged), attempt)
           sides == [x \in {Side(k[1]) : k \in NonSide(staged)} |->
                       Bytes(x[1], attempt, Only(staged, {File(x[1])}))]
<1> SUFFICES ASSUME SignedComplete(signed) PROVE FALSE
  OBVIOUS
<1>1. signed = Over(sides, staged)
  BY DEF Sign
<1>2. Side(Ingress) \in DOMAIN signed /\ signed[Side(Ingress)].at = 0
  BY KeyFacts DEF SignedComplete, SignatureValid
<1>3. Side(Ingress) \notin DOMAIN staged
  BY KeyFacts
<1>4. DOMAIN signed = DOMAIN sides \cup DOMAIN staged
  BY <1>1 DEF Over
<1>5. Side(Ingress) \in DOMAIN sides
  BY <1>2, <1>3, <1>4
<1>6. signed[Side(Ingress)] = sides[Side(Ingress)]
  BY <1>1, <1>2, <1>4, <1>5 DEF Over
<1>7. sides[Side(Ingress)].at = attempt
  BY <1>5 DEF Bytes
<1> QED BY <1>2, <1>6, <1>7

\* Without the first repair no attempt, with or without faults, creates a draft:
\* "Validate signed release completeness" (release.yml) refuses the signature that
\* the step before it has made, whatever files are staged.
THEOREM UnrepairedIsNeverDrafted ==
    ASSUME "ingress-identity" \notin Repairs
    PROVE  Spec => [](status = "none")
<1>1. Init => Blocked
  BY DEF Init, Blocked
<1>2. ASSUME PublishInv, Blocked, [Next]_vars
      PROVE  Blocked'
  <2>1. CASE StageRelease
    BY <1>2, <2>1 DEF StageRelease, Blocked
  <2>2. CASE SignRelease
    <3>1. DOMAIN staged = {File(n) : n \in StagedNames}
      BY <1>2, <2>2 DEF SignRelease, PublishInv, StagedInv, Signing
    <3>2. ~SignedComplete(Sign(staged, NonSide(staged), attempt))
      BY <1>2, <3>1, SignedIsRefused DEF Blocked
    <3>3. dir' = Sign(staged, NonSide(staged), attempt)
      BY <2>2 DEF SignRelease
    <3>4. ~SignedComplete(dir')
      BY <3>2, <3>3
    <3> QED BY <1>2, <2>2, <3>4 DEF SignRelease, Blocked
  <2>3. CASE AttestRelease
    BY <1>2, <2>3 DEF AttestRelease, Blocked
  <2>4. CASE JobFails
    BY <1>2, <2>4 DEF JobFails, FailedAt, Running, Blocked
  <2>5. CASE Rerun
    BY <1>2, <2>5 DEF Rerun, RestartsAt, Running, Blocked
  <2>6. CASE UNCHANGED vars
    BY <1>2, <2>6 DEF vars, Blocked
  <2>7. CASE \/ MachineVerify \/ PackageRelease \/ SignManifest \/ BundleRelease
             \/ GuardExistingRelease \/ CreateRelease \/ DownloadDraft \/ VerifyDraft
             \/ UploadProof \/ VerifyFinal \/ Undraft \/ DeleteDraft \/ RemoveProofAssets
    BY <1>2, <2>7
       DEF MachineVerify, PackageRelease, SignManifest, BundleRelease, GuardExistingRelease,
           CreateRelease, DownloadDraft, VerifyDraft, UploadProof, VerifyFinal, Undraft,
           DeleteDraft, RemoveProofAssets, Blocked
  <2> QED BY <1>2, <2>1, <2>2, <2>3, <2>4, <2>5, <2>6, <2>7 DEF Next, Step
<1>3. Blocked => status = "none"
  BY DEF Blocked
<1> QED BY <1>1, <1>2, <1>3, PublishInvariant, PTL DEF Spec

-------------------------------------------------------------------------------
(* Types *)

\* TypeOK of one directory: every name is known, and its bytes are of that name
\* and of an attempt up to a.
Labelled(d, a) == \A k \in DOMAIN d : k \in Keys /\ d[k].of = k[1] /\ d[k].at \in 0..a

\* The keys the jobs write are known, with the names they are made of.
LEMMA KnownKeys ==
    /\ \A n \in StagedNames \cup {Archive, Manifest} : File(n) \in Keys /\ Side(n) \in Keys
    /\ ProofKeys \subseteq Keys
    /\ \A n : File(n)[1] = n /\ Side(n)[1] = n
  BY KeyFacts DEF Keys

\* Merging and selecting keep labels, and a later attempt only widens them.
LEMMA LabelledParts ==
    ASSUME NEW a \in Nat, NEW d, Labelled(d, a)
    PROVE  /\ \A e : Labelled(e, a) => Labelled(Over(d, e), a)
           /\ \A keys : Labelled(Only(d, keys), a)
           /\ Labelled(d, a + 1)
  <1>1. \A e : Labelled(e, a) => Labelled(Over(d, e), a)
    BY DEF Labelled, Over
  <1>2. \A keys : Labelled(Only(d, keys), a)
    BY DEF Labelled, Only
  <1>3. Labelled(d, a + 1)
    BY DEF Labelled
  <1> QED BY <1>1, <1>2, <1>3

\* One new file is labelled by its own name and attempt.
LEMMA LabelledOne ==
    ASSUME NEW a \in Nat, NEW n, File(n) \in Keys, NEW held
    PROVE  Labelled(One(File(n), Bytes(n, a, held)), a)
  BY KeyFacts DEF Labelled, One, Bytes

\* Signatures are labelled by the names they sign.
LEMMA LabelledSign ==
    ASSUME NEW a \in Nat, NEW d, Labelled(d, a), NEW keys, \A k \in keys : Side(k[1]) \in Keys
    PROVE  Labelled(Sign(d, keys, a), a)
  <1> DEFINE sides == [s \in {Side(k[1]) : k \in keys} |-> Bytes(s[1], a, Only(d, {File(s[1])}))]
  <1>1. Labelled(sides, a)
    BY DEF Labelled, Bytes
  <1>2. Sign(d, keys, a) = Over(sides, d)
    BY DEF Sign
  <1> HIDE DEF sides
  <1> QED BY <1>1, <1>2, LabelledParts

\* The directory with its archive, and then with its manifest, is labelled.
LEMMA LabelledPackage ==
    ASSUME NEW a \in Nat, NEW d, Labelled(d, a)
    PROVE  Labelled(Archived(d, a), a) /\ Labelled(WithManifest(d, a), a)
  <1> DEFINE x == Over(One(File(Archive), Bytes(Archive, a, Empty)), d)
             z == Over(One(File(Manifest), CreateManifest(d, a)), d)
  <1>1. /\ File(Archive) \in Keys /\ Side(Archive) \in Keys
        /\ File(Manifest) \in Keys /\ Side(Manifest) \in Keys
        /\ File(Archive)[1] = Archive /\ File(Manifest)[1] = Manifest
    BY KnownKeys
  <1>2. Labelled(x, a)
    BY <1>1, LabelledOne, LabelledParts
  <1>3. Labelled(One(File(Manifest), CreateManifest(d, a)), a)
    BY <1>1, LabelledOne DEF CreateManifest
  <1>4. Labelled(z, a)
    BY <1>3, LabelledParts
  <1> HIDE DEF x, z
  <1>5. Labelled(Sign(x, {File(Archive)}, a), a) /\ Labelled(Sign(z, {File(Manifest)}, a), a)
    BY <1>1, <1>2, <1>4, LabelledSign
  <1>6. /\ Archived(d, a) = Sign(x, {File(Archive)}, a)
        /\ WithManifest(d, a) = Sign(z, {File(Manifest)}, a)
    BY DEF Archived, WithManifest, x, z
  <1> QED BY <1>5, <1>6

\* What the publish job adds is labelled.
LEMMA LabelledProof ==
    ASSUME NEW a \in Nat, NEW d
    PROVE  Labelled(CreateProof(d, a), a)
  <1> DEFINE record == CreatePostPublicationRecord(d, a)
             made   == [k \in ProofKeys \ ProofManifestKeys |->
                          CASE k = File(Record) -> record
                            [] k = Side(Record) -> Bytes(Record, a, One(File(Record), record))
                            [] OTHER            -> Bytes(k[1], a, Empty)]
             listed == [k \in ListedProof \cup {File(Manifest)} |->
                          IF k = File(Manifest) THEN d[k] ELSE made[k]]
             proved == Bytes(ProofManifest, a, listed)
             whole  == [k \in ProofKeys |->
                          CASE k = File(ProofManifest) -> proved
                            [] k = Side(ProofManifest) ->
                                  Bytes(ProofManifest, a, One(File(ProofManifest), proved))
                            [] OTHER -> made[k]]
  <1>1. CreateProof(d, a) = whole
    BY DEF CreateProof
  <1>2. record.of = Record /\ record.at = a
    BY DEF CreatePostPublicationRecord, Bytes
  <1> HIDE DEF record
  <1>3. /\ \A k \in DOMAIN made : made[k].of = k[1] /\ made[k].at = a
        /\ DOMAIN made = ProofKeys \ ProofManifestKeys
    BY <1>2, KeyFacts DEF Bytes
  <1> HIDE DEF made
  <1>4. proved.of = ProofManifest /\ proved.at = a
    BY DEF Bytes
  <1> HIDE DEF proved
  <1>5. \A k \in ProofKeys : whole[k].of = k[1] /\ whole[k].at = a
    BY <1>3, <1>4, KeyFacts DEF Bytes, ProofManifestKeys
  <1>6. DOMAIN whole = ProofKeys
    OBVIOUS
  <1> HIDE DEF whole
  <1> QED BY <1>1, <1>5, <1>6, KnownKeys DEF Labelled

\* TypeOK, with the directories one by one.
Typed ==
    /\ attempt \in 1..MaxAttempts
    /\ faults \in 0..MaxFaults
    /\ pc \in {"stage", "sign", "attest", "machine", "package", "manifest", "bundle",
               "guard", "upload", "upload-unread", "download", "verify", "proof", "final",
               "undraft", "done",
               "failed-stage", "failed-sign", "failed-publish"}
    /\ Labelled(staged, attempt) /\ Labelled(bundle, attempt) /\ Labelled(assets, attempt)
    /\ Labelled(dir, attempt) /\ Labelled(proof, attempt)
    /\ \A s \in attestations : s.attempt \in 1..attempt

\* Nothing is labelled wrongly where there is nothing.
LEMMA LabelledEmpty == ASSUME NEW a PROVE Labelled(Empty, a)
  BY DEF Labelled, Empty

\* Uploads keep the assets labelled, and go on or fail.
LEMMA LabelledUpload ==
    ASSUME NEW d, NEW next, NEW failed, UploadTo(d, next, failed), attempt \in Nat,
           faults \in 0..MaxFaults, Labelled(d, attempt), Labelled(assets, attempt)
    PROVE  /\ Labelled(assets', attempt) /\ pc' \in {next, failed}
           /\ faults' \in 0..MaxFaults
  <1>1. pc' \in {next, failed}
    BY DEF UploadTo
  <1>2. faults' \in 0..MaxFaults
    BY PublishAssumption DEF UploadTo
  <1>3. PICK e : assets' = Over(e, assets) /\ Labelled(e, attempt)
    <2>1. CASE assets' = Over(d, assets)
      BY <2>1
    <2>2. ASSUME NEW kept \in SUBSET DOMAIN d, assets' = Over(Only(d, kept), assets)
          PROVE  \E e : assets' = Over(e, assets) /\ Labelled(e, attempt)
      BY <2>2, LabelledParts
    <2> QED BY <2>1, <2>2 DEF UploadTo
  <1>4. Labelled(Over(e, assets), attempt)
    BY <1>3, LabelledParts
  <1> QED BY <1>1, <1>2, <1>3, <1>4

\* Every step keeps the types.
LEMMA TypedStep ==
    ASSUME PublishInv, Typed, [Next]_vars
    PROVE  Typed'
  <1>0. /\ attempt \in Nat /\ attempt >= 1 /\ MaxAttempts \in Nat /\ MaxFaults \in Nat
        /\ attempt \in 1..attempt
    BY PublishAssumption DEF Typed
  <1>1. CASE StageRelease
    <2>1. Labelled(staged', attempt)
      <3> DEFINE f == [k \in {File(n) : n \in StagedNames} |->
                         Bytes(k[1], IF k[1] \in Fresh THEN attempt ELSE 0, Empty)]
      <3>1. staged' = f
        BY <1>1 DEF StageRelease, StagedNames
      <3>2. \A k \in DOMAIN f : k \in Keys /\ f[k].of = k[1] /\ f[k].at \in 0..attempt
        BY <1>0, KnownKeys DEF Bytes
      <3> HIDE DEF f
      <3> QED BY <3>1, <3>2 DEF Labelled
    <2> QED BY <1>1, <2>1 DEF StageRelease, Typed, Labelled
  <1>2. CASE SignRelease
    <2>1. DOMAIN staged = {File(n) : n \in StagedNames}
      BY <1>2 DEF SignRelease, PublishInv, StagedInv, Signing
    <2>2. \A k \in NonSide(staged) : Side(k[1]) \in Keys
      BY <2>1, KnownKeys DEF NonSide
    <2>3. Labelled(Sign(staged, NonSide(staged), attempt), attempt)
      BY <1>0, <2>2, LabelledSign DEF Typed
    <2> QED BY <1>2, <2>3 DEF SignRelease, Typed, Labelled
  <1>2a. CASE AttestRelease
    <2>1. \A s \in attestations' : s.attempt \in 1..attempt
      BY <1>0, <1>2a DEF AttestRelease, Typed, Statement
    <2> QED BY <1>2a, <2>1 DEF AttestRelease, Typed, Labelled
  <1>3. CASE MachineVerify
    BY <1>3 DEF MachineVerify, Typed, Labelled
  <1>4. CASE PackageRelease
    <2>1. Labelled(Archived(dir, attempt), attempt)
      BY <1>0, LabelledPackage DEF Typed
    <2> QED BY <1>4, <2>1 DEF PackageRelease, Typed, Labelled
  <1>4a. CASE SignManifest
    <2>1. Labelled(WithManifest(dir, attempt), attempt)
      BY <1>0, LabelledPackage DEF Typed
    <2> QED BY <1>4a, <2>1 DEF SignManifest, Typed, Labelled
  <1>4b. CASE BundleRelease
    <2>1. \A s \in attestations' : s.attempt \in 1..attempt
      BY <1>0, <1>4b DEF BundleRelease, Typed, Statement
    <2>2. bundle' \in {dir, bundle} /\ pc' \in {"guard", "failed-sign"}
      BY <1>4b DEF BundleRelease
    <2> QED BY <1>4b, <2>1, <2>2 DEF BundleRelease, Typed, Labelled
  <1>5. CASE GuardExistingRelease
    BY <1>0, <1>5 DEF GuardExistingRelease, Typed, Labelled
  <1>6. CASE CreateRelease
    <2>1. /\ Labelled(assets', attempt) /\ pc' \in {"download", "failed-publish"}
          /\ faults' \in 0..MaxFaults
      BY <1>0, <1>6, LabelledUpload DEF CreateRelease, Typed
    <2> QED BY <1>6, <2>1 DEF CreateRelease, Typed, Labelled
  <1>7. CASE DownloadDraft
    BY <1>7 DEF DownloadDraft, Typed, Labelled
  <1>8. CASE VerifyDraft
    <2>1. Labelled(CreateProof(dir, attempt), attempt) /\ Labelled(Empty, attempt)
      BY <1>0, LabelledProof, LabelledEmpty
    <2>2. Labelled(proof', attempt) /\ pc' \in {"proof", "failed-publish"}
      BY <1>8, <2>1 DEF VerifyDraft
    <2> QED BY <1>8, <2>2 DEF VerifyDraft, Typed, Labelled
  <1>9. CASE UploadProof
    <2>1. /\ Labelled(assets', attempt) /\ pc' \in {"final", "failed-publish"}
          /\ faults' \in 0..MaxFaults
      BY <1>0, <1>9, LabelledUpload DEF UploadProof, Typed
    <2> QED BY <1>9, <2>1 DEF UploadProof, Typed, Labelled
  <1>10. CASE VerifyFinal
    BY <1>10 DEF VerifyFinal, Typed, Labelled
  <1>11. CASE Undraft
    BY <1>0, <1>11 DEF Undraft, Typed, Labelled
  <1>12. CASE JobFails
    BY <1>0, <1>12 DEF JobFails, FailedAt, Typed, Labelled
  <1>13. CASE Rerun
    <2>1. /\ attempt' = attempt + 1 /\ attempt' \in 1..MaxAttempts
          /\ pc' \in {"stage", "sign", "guard"} /\ dir' = Empty /\ proof' = Empty
          /\ UNCHANGED <<staged, bundle, attestations, status, assets, faults>>
      BY <1>0, <1>13 DEF Rerun, RestartsAt
    <2>2. /\ Labelled(staged, attempt + 1) /\ Labelled(bundle, attempt + 1)
          /\ Labelled(assets, attempt + 1) /\ Labelled(Empty, attempt + 1)
      BY <1>0, LabelledParts, LabelledEmpty DEF Typed
    <2>3. \A s \in attestations : s.attempt \in 1..(attempt + 1)
      BY <1>0 DEF Typed
    <2> QED BY <2>1, <2>2, <2>3 DEF Typed
  <1>14. CASE DeleteDraft
    <2>1. Labelled(Empty, attempt)
      BY LabelledEmpty
    <2> QED BY <1>14, <2>1 DEF DeleteDraft, Typed, Labelled
  <1>15. CASE RemoveProofAssets
    <2>1. Labelled(assets', attempt)
      BY <1>0, <1>15, LabelledParts DEF RemoveProofAssets, Typed
    <2> QED BY <1>15, <2>1 DEF RemoveProofAssets, Typed, Labelled
  <1>16. CASE UNCHANGED vars
    BY <1>16 DEF vars, Typed, Labelled
  <1> QED
    BY <1>1, <1>2, <1>2a, <1>3, <1>4, <1>4a, <1>4b, <1>5, <1>6, <1>7, <1>8, <1>9, <1>10,
       <1>11, <1>12, <1>13, <1>14, <1>15, <1>16 DEF Next, Step

\* Directories map known names to bytes of the file they name, made in an
\* attempt that has begun, through every failure, rerun and clean-up.
THEOREM PublishTypes == Spec => []TypeOK
  <1>1. Init => Typed
    <2> SUFFICES ASSUME Init PROVE Typed
      OBVIOUS
    <2>1. \A a : Labelled(Empty, a)
      BY LabelledEmpty
    <2> QED BY <2>1, PublishAssumption DEF Init, Typed
  <1>2. PublishInv /\ Typed /\ [Next]_vars => Typed'
    BY TypedStep
  <1>3. PublishInv /\ Typed => TypeOK
    BY DEF PublishInv, StatusInv, Typed, TypeOK, Labelled
  <1> QED BY <1>1, <1>2, <1>3, PublishInvariant, PTL DEF Spec

===============================================================================
