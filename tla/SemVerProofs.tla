---------------------------- MODULE SemVerProofs ----------------------------
(***************************************************************************)
(* Theorems about the version comparators, for every set of versions and    *)
(* prereleases of every length: the order of suderra-ota has no cycles, the *)
(* installer agrees with it, and the shell guard orders ordinary cores.      *)
(*                                                                         *)
(* A comparison of two lists is described by the vector of the comparisons  *)
(* of their items, so that the argument about the first difference is made  *)
(* once, for all three comparators.                                         *)
(***************************************************************************)
EXTENDS SemVer, WellFoundedInduction, TLAPS

Answers == {Less, Equal, Greater}

Shorter(m, n) == IF m < n THEN m ELSE n

(* c holds the answers for the items that lists of lengths m and n share.   *)
Vector(c, m, n) ==
  m \in Nat /\ n \in Nat /\ c \in [1..Shorter(m, n) -> Answers]

FirstDifference(c, k) ==
  /\ k \in DOMAIN c /\ c[k] # Equal
  /\ \A i \in DOMAIN c : i < k => c[i] = Equal

AllEqual(c) == \A i \in DOMAIN c : c[i] = Equal

(* x is what Lexicographic answers.                                        *)
Decides(x, c, m, n) ==
  \/ AllEqual(c) /\ x = Cmp(m, n)
  \/ \E k \in DOMAIN c : FirstDifference(c, k) /\ x = c[k]

(* The answers x for (a, b), y for (b, d) and z for (a, d) fit together.    *)
Chain(x, y, z) ==
  (x # Less /\ y # Less) =>
    /\ z # Less
    /\ z = Equal <=> (x = Equal /\ y = Equal)

----------------------------------------------------------------------------
(* Lists.                                                                  *)

(* A nonempty set of numbers has a least one, and Min chooses it.           *)
LEMMA LeastIsMin ==
  ASSUME NEW S \in SUBSET Nat, S # {}
  PROVE  Min(S) \in S /\ \A n \in S : Min(S) <= n
<1>1. PICK m \in S : \A n \in S : ~(<<n, m>> \in OpToRel(<, Nat))
  BY WFMin, NatLessThanWellFounded, Zenon
<1>2. \A n \in S : ~(n < m)
  BY <1>1, Zenon DEF OpToRel
<1>3. \A n \in S : m <= n
  BY <1>2
<1> QED BY <1>3 DEF Min

(* The items two lists share.                                              *)
LEMMA Shared ==
  ASSUME NEW m \in Nat, NEW n \in Nat
  PROVE  Min({m, n}) = Shorter(m, n) /\ Shorter(m, n) \in Nat
<1>1. {m, n} \in SUBSET Nat /\ {m, n} # {}
  OBVIOUS
<1>2. Min({m, n}) \in {m, n} /\ Min({m, n}) <= m /\ Min({m, n}) <= n
  BY <1>1, LeastIsMin
<1> QED BY <1>2 DEF Shorter

(* Either all items are equal or there is a first difference.               *)
LEMMA FirstOfDiffer ==
  ASSUME NEW c, NEW m, NEW n, Vector(c, m, n),
         NEW D, D = {i \in DOMAIN c : c[i] # Equal}
  PROVE  /\ D = {} => AllEqual(c)
         /\ D # {} => Min(D) \in DOMAIN c /\ FirstDifference(c, Min(D))
<1>1. D = {} => AllEqual(c)
  BY DEF AllEqual
<1>2. ASSUME D # {}
      PROVE  Min(D) \in DOMAIN c /\ FirstDifference(c, Min(D))
  <2>1. DOMAIN c = 1..Shorter(m, n) /\ Shorter(m, n) \in Nat
    BY DEF Vector, Shorter
  <2>2. D \in SUBSET Nat
    BY <2>1
  <2>3. Min(D) \in D /\ \A i \in D : Min(D) <= i
    BY <1>2, <2>2, LeastIsMin
  <2> HIDE DEF Min
  <2>4. \A i \in DOMAIN c : i < Min(D) => c[i] = Equal
    BY <2>1, <2>2, <2>3
  <2> QED BY <2>3, <2>4 DEF FirstDifference
<1> QED BY <1>1, <1>2

(* Only one answer is decided.                                             *)
LEMMA DecidedOnce ==
  ASSUME NEW c, NEW m, NEW n, Vector(c, m, n), NEW x, NEW y,
         Decides(x, c, m, n), Decides(y, c, m, n)
  PROVE  x = y
<1>1. DOMAIN c \subseteq Nat
  BY DEF Vector, Shorter
<1> QED BY <1>1 DEF Decides, AllEqual, FirstDifference

(* A decided answer is one.                                                *)
LEMMA DecidedAnswer ==
  ASSUME NEW c, NEW m, NEW n, Vector(c, m, n), NEW x, Decides(x, c, m, n)
  PROVE  x \in Answers
BY DEF Vector, Decides, Answers, Cmp, Less, Equal, Greater

(* Comparisons that fit together item by item fit together.                *)
LEMMA ChainOfLists ==
  ASSUME NEW l \in Nat, NEW m \in Nat, NEW n \in Nat, NEW a, NEW b, NEW c,
         Vector(a, l, m), Vector(b, m, n), Vector(c, l, n),
         \A i \in DOMAIN a \cap DOMAIN b \cap DOMAIN c : Chain(a[i], b[i], c[i]),
         NEW x, NEW y, NEW z,
         Decides(x, a, l, m), Decides(y, b, m, n), Decides(z, c, l, n)
  PROVE  Chain(x, y, z)
<1> SUFFICES ASSUME x # Less, y # Less
             PROVE  z # Less /\ (z = Equal <=> (x = Equal /\ y = Equal))
  BY DEF Chain
<1>1. /\ DOMAIN a = 1..Shorter(l, m)
      /\ DOMAIN b = 1..Shorter(m, n)
      /\ DOMAIN c = 1..Shorter(l, n)
      /\ DOMAIN a \subseteq Nat /\ DOMAIN b \subseteq Nat /\ DOMAIN c \subseteq Nat
  BY DEF Vector, Shorter
(* A common prefix of equal items is one of equal items.                   *)
<1>2. ASSUME NEW k \in DOMAIN c, FirstDifference(c, k)
      PROVE  z = c[k]
  BY <1>1, <1>2 DEF Decides, AllEqual, FirstDifference
<1>3. ASSUME AllEqual(c)
      PROVE  z = Cmp(l, n)
  BY <1>3 DEF Decides, AllEqual, FirstDifference
<1>4. ASSUME NEW k \in DOMAIN a \cap DOMAIN b \cap DOMAIN c,
             \A i \in DOMAIN a : i < k => a[i] = Equal,
             \A i \in DOMAIN b : i < k => b[i] = Equal,
             a[k] # Less, b[k] # Less, a[k] # Equal \/ b[k] # Equal
      PROVE  z # Less /\ z # Equal
  <2>1. Chain(a[k], b[k], c[k])
    OBVIOUS
  <2>2. c[k] # Less /\ c[k] # Equal
    BY <1>4, <2>1 DEF Chain
  <2>3. ASSUME NEW i \in DOMAIN c, i < k
        PROVE  c[i] = Equal
    <3>1. i \in DOMAIN a /\ i \in DOMAIN b
      BY <1>1, <2>3 DEF Shorter
    <3>2. a[i] = Equal /\ b[i] = Equal /\ Chain(a[i], b[i], c[i])
      BY <1>4, <2>3, <3>1
    <3> QED BY <3>2 DEF Chain, Equal, Less
  <2>4. FirstDifference(c, k)
    BY <2>2, <2>3 DEF FirstDifference
  <2> QED BY <1>2, <2>2, <2>4
<1>5. CASE AllEqual(a) /\ x = Cmp(l, m) /\ AllEqual(b) /\ y = Cmp(m, n)
  <2>1. l >= m /\ m >= n
    BY <1>5 DEF Cmp, Less
  <2>2. DOMAIN c \subseteq DOMAIN a \cap DOMAIN b
    BY <1>1, <2>1 DEF Shorter
  <2>3. AllEqual(c)
    BY <1>5, <2>2 DEF AllEqual, Chain, Equal, Less
  <2>4. z = Cmp(l, n)
    BY <1>3, <2>3
  <2> QED BY <1>5, <2>1, <2>4 DEF Cmp, Less, Equal, Greater
<1>6. CASE AllEqual(b) /\ y = Cmp(m, n) /\ \E k \in DOMAIN a : FirstDifference(a, k) /\ x = a[k]
  <2>1. m >= n
    BY <1>6 DEF Cmp, Less
  <2>2. PICK k \in DOMAIN a : FirstDifference(a, k) /\ x = a[k]
    BY <1>6
  <2>3. x # Equal
    BY <2>2 DEF FirstDifference
  <2>4. CASE k <= n
    <3>1. k \in DOMAIN b /\ k \in DOMAIN c
      BY <1>1, <2>4 DEF Shorter
    <3>2. b[k] = Equal /\ \A i \in DOMAIN b : i < k => b[i] = Equal
      BY <1>6, <3>1 DEF AllEqual
    <3> QED BY <1>4, <2>2, <2>3, <3>1, <3>2 DEF FirstDifference, Equal, Less
  <2>5. CASE k > n
    <3>1. l > n
      BY <1>1, <2>5 DEF Shorter
    <3>2. \A i \in DOMAIN c : i \in DOMAIN a /\ i \in DOMAIN b /\ i < k
      BY <1>1, <2>1, <2>5, <3>1 DEF Shorter
    <3>3. \A i \in DOMAIN c : a[i] = Equal /\ b[i] = Equal
      BY <1>6, <2>2, <3>2 DEF AllEqual, FirstDifference
    <3>4. AllEqual(c)
      BY <3>2, <3>3 DEF AllEqual, Chain, Equal, Less
    <3>5. z = Greater
      BY <1>3, <3>1, <3>4 DEF Cmp
    <3> QED BY <2>3, <3>5 DEF Greater, Less, Equal
  <2> QED BY <1>1, <2>4, <2>5
<1>7. CASE AllEqual(a) /\ x = Cmp(l, m) /\ \E k \in DOMAIN b : FirstDifference(b, k) /\ y = b[k]
  <2>1. l >= m
    BY <1>7 DEF Cmp, Less
  <2>2. PICK k \in DOMAIN b : FirstDifference(b, k) /\ y = b[k]
    BY <1>7
  <2>3. k \in DOMAIN a /\ k \in DOMAIN c
    BY <1>1, <2>1 DEF Shorter
  <2>4. a[k] = Equal /\ \A i \in DOMAIN a : i < k => a[i] = Equal
    BY <1>7, <2>3 DEF AllEqual
  <2>5. y # Equal
    BY <2>2 DEF FirstDifference
  <2> QED BY <1>4, <2>2, <2>3, <2>4, <2>5 DEF FirstDifference, Equal, Less
<1>8. CASE /\ \E k \in DOMAIN a : FirstDifference(a, k) /\ x = a[k]
           /\ \E k \in DOMAIN b : FirstDifference(b, k) /\ y = b[k]
  <2>1. PICK j \in DOMAIN a : FirstDifference(a, j) /\ x = a[j]
    BY <1>8
  <2>2. PICK k \in DOMAIN b : FirstDifference(b, k) /\ y = b[k]
    BY <1>8
  <2>3. x # Equal /\ y # Equal
    BY <2>1, <2>2 DEF FirstDifference
  <2>4. CASE j <= k
    <3>1. j \in DOMAIN b /\ j \in DOMAIN c
      BY <1>1, <2>4 DEF Shorter
    <3>2. b[j] # Less /\ \A i \in DOMAIN b : i < j => b[i] = Equal
      BY <1>1, <2>2, <2>4, <3>1 DEF FirstDifference, Equal, Less
    <3> QED BY <1>4, <2>1, <2>3, <3>1, <3>2 DEF FirstDifference
  <2>5. CASE k < j
    <3>1. k \in DOMAIN a /\ k \in DOMAIN c
      BY <1>1, <2>5 DEF Shorter
    <3>2. a[k] = Equal /\ \A i \in DOMAIN a : i < k => a[i] = Equal
      BY <1>1, <2>1, <2>5, <3>1 DEF FirstDifference
    <3> QED BY <1>4, <2>2, <2>3, <3>1, <3>2 DEF FirstDifference, Equal, Less
  <2> QED BY <1>1, <2>4, <2>5
<1> QED BY <1>5, <1>6, <1>7, <1>8 DEF Decides

(* Comparisons in opposite directions are opposite.                        *)
LEMMA OppositeLists ==
  ASSUME NEW m \in Nat, NEW n \in Nat, NEW a, NEW b,
         Vector(a, m, n), Vector(b, n, m),
         \A i \in DOMAIN a : b[i] = -a[i],
         NEW x, NEW y, Decides(x, a, m, n), Decides(y, b, n, m)
  PROVE  y = -x
<1>1. DOMAIN a = DOMAIN b /\ DOMAIN a \subseteq Nat
  BY DEF Vector, Shorter
<1>2. \A i \in DOMAIN a : a[i] \in {-1, 0, 1} /\ b[i] \in {-1, 0, 1}
  BY <1>1 DEF Vector, Answers, Less, Equal, Greater
<1>3. \A i \in DOMAIN a : a[i] = Equal <=> b[i] = Equal
  BY <1>2 DEF Equal
<1>4. CASE AllEqual(a) /\ x = Cmp(m, n)
  <2>1. y = Cmp(n, m)
    BY <1>1, <1>3, <1>4 DEF Decides, AllEqual, FirstDifference
  <2> QED BY <1>4, <2>1 DEF Cmp, Less, Equal, Greater
<1>5. CASE \E k \in DOMAIN a : FirstDifference(a, k) /\ x = a[k]
  <2>1. PICK k \in DOMAIN a : FirstDifference(a, k) /\ x = a[k]
    BY <1>5
  <2>2. y = b[k]
    BY <1>1, <1>3, <2>1 DEF Decides, AllEqual, FirstDifference
  <2> QED BY <2>1, <2>2
<1> QED BY <1>4, <1>5 DEF Decides

----------------------------------------------------------------------------
(* The three comparisons of lists.                                          *)

Items(l, r) == 1..Shorter(Len(l), Len(r))
Cores(l, r) == [i \in Items(l, r) |-> Cmp(l[i], r[i])]
OtaItems(l, r) == [i \in Items(l, r) |-> OtaIdentifier(l[i], r[i])]
InstallerItems(l, r) == [i \in Items(l, r) |-> InstallerIdentifier(l[i], r[i])]

(* A sequence is one of the elements it has.                               *)
LEMMA Elements ==
  ASSUME NEW T, NEW S, NEW s \in Seq(T), \A i \in 1..Len(s) : s[i] \in S
  PROVE  s \in Seq(S)
OBVIOUS

(* Two lists have the items they share.                                     *)
LEMMA SharedItems ==
  ASSUME NEW S, NEW l \in Seq(S), NEW r \in Seq(S)
  PROVE  \A i \in Items(l, r) : l[i] \in S /\ r[i] \in S
<1>1. Len(l) \in Nat /\ Len(r) \in Nat
  OBVIOUS
<1> QED BY <1>1 DEF Items, Shorter

(* The identifiers parse_prerelease lets through.                           *)
Parsed == {i \in Identifiers : IdentifierParses(i)}

(* Lexicographic on numbers.                                               *)
LEMMA NumbersDecide ==
  ASSUME NEW l \in Seq(Nat), NEW r \in Seq(Nat)
  PROVE  /\ Vector(Cores(l, r), Len(l), Len(r))
         /\ Decides(Lexicographic(Cmp, l, r), Cores(l, r), Len(l), Len(r))
<1> DEFINE c == Cores(l, r)
           D == {i \in DOMAIN c : c[i] # Equal}
<1>1. Len(l) \in Nat /\ Len(r) \in Nat /\ Min({Len(l), Len(r)}) = Shorter(Len(l), Len(r))
  BY Shared
<1>2. Vector(c, Len(l), Len(r))
  BY <1>1 DEF Vector, Cores, Items, Answers, Cmp
<1>3. /\ D = {} => AllEqual(c)
      /\ D # {} => Min(D) \in DOMAIN c /\ FirstDifference(c, Min(D))
  BY <1>2, FirstOfDiffer
<1>4. {i \in 1..Min({Len(l), Len(r)}) : Cmp(l[i], r[i]) # Equal} = D
  BY <1>1, Zenon DEF Cores, Items
<1>5. Lexicographic(Cmp, l, r)
        = IF D = {} THEN Cmp(Len(l), Len(r)) ELSE Cmp(l[Min(D)], r[Min(D)])
  BY <1>4, Zenon DEF Lexicographic
<1>6. \A i \in DOMAIN c : c[i] = Cmp(l[i], r[i])
  BY DEF Cores
<1> HIDE DEF c, D
<1> QED BY <1>2, <1>3, <1>5, <1>6 DEF Decides, c

(* Lexicographic on identifiers, as suderra-ota compares them.              *)
LEMMA OtaDecides ==
  ASSUME NEW l \in Seq(Parsed), NEW r \in Seq(Parsed)
  PROVE  /\ Vector(OtaItems(l, r), Len(l), Len(r))
         /\ Decides(Lexicographic(OtaIdentifier, l, r), OtaItems(l, r), Len(l), Len(r))
<1> DEFINE c == OtaItems(l, r)
           D == {i \in DOMAIN c : c[i] # Equal}
<1>1. Len(l) \in Nat /\ Len(r) \in Nat /\ Min({Len(l), Len(r)}) = Shorter(Len(l), Len(r))
  BY Shared
<1>2. Vector(c, Len(l), Len(r))
  <2>1. \A i \in Items(l, r) : l[i] \in Parsed /\ r[i] \in Parsed
    BY <1>1 DEF Items, Shorter
  <2>2. \A i \in Parsed, j \in Parsed : OtaIdentifier(i, j) \in Answers
    BY IdentifierAssumption DEF Parsed, IdentifierType, OtaIdentifier, Answers, Cmp
  <2> QED BY <1>1, <2>1, <2>2 DEF Vector, OtaItems, Items
<1>3. /\ D = {} => AllEqual(c)
      /\ D # {} => Min(D) \in DOMAIN c /\ FirstDifference(c, Min(D))
  BY <1>2, FirstOfDiffer
<1>4. {i \in 1..Min({Len(l), Len(r)}) : OtaIdentifier(l[i], r[i]) # Equal} = D
  BY <1>1, Zenon DEF OtaItems, Items
<1>5. Lexicographic(OtaIdentifier, l, r)
        = IF D = {} THEN Cmp(Len(l), Len(r)) ELSE OtaIdentifier(l[Min(D)], r[Min(D)])
  BY <1>4, Zenon DEF Lexicographic
<1>6. \A i \in DOMAIN c : c[i] = OtaIdentifier(l[i], r[i])
  BY DEF OtaItems
<1> HIDE DEF c, D
<1> QED BY <1>2, <1>3, <1>5, <1>6 DEF Decides, c

(* Identifiers that parse_prerelease lets through the installer takes for   *)
(* what they are: a number where there are digits, a text elsewhere.        *)
LEMMA SameIdentifiers ==
  ASSUME NEW i \in Parsed, NEW j \in Parsed
  PROVE  InstallerIdentifier(i, j) = OtaIdentifier(i, j)
<1>1. /\ i.digits \in BOOLEAN /\ j.digits \in BOOLEAN
      /\ (i.digits <=> i.num # None) /\ (j.digits <=> j.num # None)
  BY IdentifierAssumption DEF Parsed, IdentifierType, IdentifierParses
<1> QED BY <1>1 DEF InstallerIdentifier, OtaIdentifier

(* So it compares lists of them as suderra-ota does.                        *)
LEMMA InstallerDecides ==
  ASSUME NEW l \in Seq(Parsed), NEW r \in Seq(Parsed)
  PROVE  Lexicographic(InstallerIdentifier, l, r) = Lexicographic(OtaIdentifier, l, r)
<1>1. Len(l) \in Nat /\ Len(r) \in Nat /\ Min({Len(l), Len(r)}) = Shorter(Len(l), Len(r))
  BY Shared
<1> DEFINE both == 1..Min({Len(l), Len(r)})
           D == {i \in both : OtaIdentifier(l[i], r[i]) # Equal}
<1>2. \A i \in both : InstallerIdentifier(l[i], r[i]) = OtaIdentifier(l[i], r[i])
  <2>1. \A i \in both : l[i] \in Parsed /\ r[i] \in Parsed
    BY <1>1 DEF Shorter
  <2> QED BY <2>1, SameIdentifiers
<1>3. {i \in both : InstallerIdentifier(l[i], r[i]) # Equal} = D
  BY <1>2, Zenon
<1>4. D # {} => Min(D) \in both
  <2>1. D \in SUBSET Nat
    BY <1>1 DEF Shorter
  <2>2. D # {} => Min(D) \in D
    BY <2>1, LeastIsMin
  <2> HIDE DEF Min
  <2> QED BY <2>2
<1>5. Lexicographic(OtaIdentifier, l, r)
        = IF D = {} THEN Cmp(Len(l), Len(r)) ELSE OtaIdentifier(l[Min(D)], r[Min(D)])
  BY Zenon DEF Lexicographic
<1>6. Lexicographic(InstallerIdentifier, l, r)
        = IF D = {} THEN Cmp(Len(l), Len(r)) ELSE InstallerIdentifier(l[Min(D)], r[Min(D)])
  BY <1>3, Zenon DEF Lexicographic
<1> HIDE DEF both, D
<1> QED BY <1>2, <1>4, <1>5, <1>6

----------------------------------------------------------------------------
(* Versions.                                                               *)

(* The versions ParsedVersion accepts.                                     *)
Accepted == {v \in Versions : OtaParses(v)}

(* What an accepted version is made of.                                    *)
LEMMA AcceptedParts ==
  ASSUME NEW v \in Accepted
  PROVE  /\ v.core \in Seq(Nat) /\ Len(v.core) = 3
         /\ v.pre # None => v.pre \in Seq(Parsed)
<1>1. v.core \in Seq(Nat \cup {None}) /\ Len(v.core) = 3 /\ \A i \in 1..3 : v.core[i] # None
  BY VersionAssumption DEF Accepted, OtaParses, CoreParses
<1>2. v.core \in Seq(Nat)
  <2>1. \A i \in 1..Len(v.core) : v.core[i] \in Nat
    BY <1>1
  <2> QED BY <1>1, <2>1, Elements
<1>3. ASSUME v.pre # None
      PROVE  v.pre \in Seq(Parsed)
  <2>1. v.pre \in Seq(Identifiers) /\ \A k \in 1..Len(v.pre) : IdentifierParses(v.pre[k])
    BY <1>3, VersionAssumption DEF Accepted, OtaParses
  <2>2. \A k \in 1..Len(v.pre) : v.pre[k] \in Parsed
    BY <2>1 DEF Parsed
  <2> QED BY <2>1, <2>2
<1> QED BY <1>1, <1>2, <1>3

(* Numbers are ordered.                                                    *)
LEMMA ChainOfNumbers ==
  ASSUME NEW i \in Nat, NEW j \in Nat, NEW k \in Nat
  PROVE  Chain(Cmp(i, j), Cmp(j, k), Cmp(i, k)) /\ Cmp(j, i) = -Cmp(i, j)
BY DEF Chain, Cmp, Less, Equal, Greater

(* So are identifiers, numbers before texts.                               *)
LEMMA ChainOfIdentifiers ==
  ASSUME NEW i \in Parsed, NEW j \in Parsed, NEW k \in Parsed
  PROVE  /\ Chain(OtaIdentifier(i, j), OtaIdentifier(j, k), OtaIdentifier(i, k))
         /\ OtaIdentifier(j, i) = -OtaIdentifier(i, j)
<1>1. \A x \in Parsed : /\ x.lex \in Nat /\ x.digits \in BOOLEAN
                        /\ x.digits => x.num \in Nat
  BY IdentifierAssumption DEF Parsed, IdentifierType, IdentifierParses
<1> QED BY <1>1 DEF Chain, OtaIdentifier, Cmp, Less, Equal, Greater

(* CompareCore is an order.                                                *)
LEMMA ChainOfCores ==
  ASSUME NEW a \in Seq(Nat), NEW b \in Seq(Nat), NEW d \in Seq(Nat)
  PROVE  /\ Chain(Lexicographic(Cmp, a, b), Lexicographic(Cmp, b, d), Lexicographic(Cmp, a, d))
         /\ Lexicographic(Cmp, b, a) = -Lexicographic(Cmp, a, b)
         /\ Lexicographic(Cmp, a, b) \in Answers
<1>1. Len(a) \in Nat /\ Len(b) \in Nat /\ Len(d) \in Nat
  OBVIOUS
<1>2. \A i \in DOMAIN Cores(a, b) \cap DOMAIN Cores(b, d) \cap DOMAIN Cores(a, d) :
         Chain(Cores(a, b)[i], Cores(b, d)[i], Cores(a, d)[i])
  <2>1. /\ \A i \in Items(a, b) : a[i] \in Nat /\ b[i] \in Nat
        /\ \A i \in Items(b, d) : b[i] \in Nat /\ d[i] \in Nat
    BY SharedItems
  <2> QED BY <2>1, ChainOfNumbers DEF Cores
<1>3. \A i \in DOMAIN Cores(a, b) : Cores(b, a)[i] = -Cores(a, b)[i]
  BY <1>1, ChainOfNumbers DEF Cores, Items, Shorter
<1>4. Chain(Lexicographic(Cmp, a, b), Lexicographic(Cmp, b, d), Lexicographic(Cmp, a, d))
  BY <1>1, <1>2, NumbersDecide, ChainOfLists
<1>5. Lexicographic(Cmp, b, a) = -Lexicographic(Cmp, a, b)
  BY <1>1, <1>3, NumbersDecide, OppositeLists
<1>6. Lexicographic(Cmp, a, b) \in Answers
  BY NumbersDecide, DecidedAnswer
<1> QED BY <1>4, <1>5, <1>6

(* So is the comparison of two lists of identifiers.                        *)
LEMMA ChainOfIdentifierLists ==
  ASSUME NEW a \in Seq(Parsed), NEW b \in Seq(Parsed), NEW d \in Seq(Parsed)
  PROVE  /\ Chain(Lexicographic(OtaIdentifier, a, b), Lexicographic(OtaIdentifier, b, d),
                  Lexicographic(OtaIdentifier, a, d))
         /\ Lexicographic(OtaIdentifier, b, a) = -Lexicographic(OtaIdentifier, a, b)
         /\ Lexicographic(OtaIdentifier, a, b) \in Answers
<1>1. Len(a) \in Nat /\ Len(b) \in Nat /\ Len(d) \in Nat
  OBVIOUS
<1>2. /\ \A i \in Items(a, b) : a[i] \in Parsed /\ b[i] \in Parsed
      /\ \A i \in Items(b, d) : b[i] \in Parsed /\ d[i] \in Parsed
  BY <1>1 DEF Items, Shorter
<1>3. \A i \in DOMAIN OtaItems(a, b) \cap DOMAIN OtaItems(b, d) \cap DOMAIN OtaItems(a, d) :
         Chain(OtaItems(a, b)[i], OtaItems(b, d)[i], OtaItems(a, d)[i])
  BY <1>2, ChainOfIdentifiers DEF OtaItems
<1>4. Items(b, a) = Items(a, b)
  BY <1>1 DEF Items, Shorter
<1>5. \A i \in DOMAIN OtaItems(a, b) : OtaItems(b, a)[i] = -OtaItems(a, b)[i]
  BY <1>2, <1>4, ChainOfIdentifiers DEF OtaItems
<1>6. Chain(Lexicographic(OtaIdentifier, a, b), Lexicographic(OtaIdentifier, b, d),
            Lexicographic(OtaIdentifier, a, d))
  BY <1>1, <1>3, OtaDecides, ChainOfLists
<1>7. Lexicographic(OtaIdentifier, b, a) = -Lexicographic(OtaIdentifier, a, b)
  BY <1>1, <1>5, OtaDecides, OppositeLists
<1>8. Lexicographic(OtaIdentifier, a, b) \in Answers
  BY OtaDecides, DecidedAnswer
<1> QED BY <1>6, <1>7, <1>8

(* And of two prereleases: none comes after all of them.                    *)
LEMMA ChainOfPrereleases ==
  ASSUME NEW a, NEW b, NEW d,
         a # None => a \in Seq(Parsed), b # None => b \in Seq(Parsed),
         d # None => d \in Seq(Parsed)
  PROVE  /\ Chain(OtaPrerelease(a, b), OtaPrerelease(b, d), OtaPrerelease(a, d))
         /\ OtaPrerelease(b, a) = -OtaPrerelease(a, b)
         /\ OtaPrerelease(a, b) \in Answers
<1>1. OtaPrerelease(a, b) \in Answers
  BY ChainOfIdentifierLists DEF OtaPrerelease, Answers
<1>2. OtaPrerelease(b, a) = -OtaPrerelease(a, b)
  BY ChainOfIdentifierLists DEF OtaPrerelease, Less, Equal, Greater
<1>3. Chain(OtaPrerelease(a, b), OtaPrerelease(b, d), OtaPrerelease(a, d))
  BY ChainOfIdentifierLists DEF OtaPrerelease, Chain, Less, Equal, Greater
<1> QED BY <1>1, <1>2, <1>3

(* OtaCompare orders the accepted versions: answers chain, and the two      *)
(* directions are opposite.                                                *)
LEMMA ChainOfVersions ==
  ASSUME NEW a \in Accepted, NEW b \in Accepted, NEW d \in Accepted
  PROVE  /\ Chain(OtaCompare(a, b), OtaCompare(b, d), OtaCompare(a, d))
         /\ OtaCompare(b, a) = -OtaCompare(a, b)
         /\ OtaCompare(a, b) \in Answers
<1>1. /\ Chain(CompareCore(a, b), CompareCore(b, d), CompareCore(a, d))
      /\ CompareCore(b, a) = -CompareCore(a, b)
      /\ CompareCore(a, b) \in Answers
  BY AcceptedParts, ChainOfCores DEF CompareCore
<1>2. /\ Chain(OtaPrerelease(a.pre, b.pre), OtaPrerelease(b.pre, d.pre),
               OtaPrerelease(a.pre, d.pre))
      /\ OtaPrerelease(b.pre, a.pre) = -OtaPrerelease(a.pre, b.pre)
      /\ OtaPrerelease(a.pre, b.pre) \in Answers
  BY AcceptedParts, ChainOfPrereleases
<1> HIDE DEF CompareCore, OtaPrerelease
<1>3. Chain(OtaCompare(a, b), OtaCompare(b, d), OtaCompare(a, d))
  BY <1>1, <1>2 DEF Chain, OtaCompare, Then, Less, Equal
<1>4. OtaCompare(b, a) = -OtaCompare(a, b) /\ OtaCompare(a, b) \in Answers
  BY <1>1, <1>2 DEF OtaCompare, Then, Less, Equal, Greater, Answers
<1> QED BY <1>3, <1>4

(* A version equals itself.                                                *)
LEMMA SameVersion ==
  ASSUME NEW v \in Accepted
  PROVE  OtaCompare(v, v) = Equal
BY ChainOfVersions DEF Answers, Less, Equal, Greater

(* The installer compares accepted versions as suderra-ota does.            *)
LEMMA InstallerCompares ==
  ASSUME NEW a \in Accepted, NEW b \in Accepted
  PROVE  InstallerParses(a) /\ InstallerCompare(a, b) = OtaCompare(a, b)
<1>1. InstallerParses(a)
  BY DEF Accepted, OtaParses, InstallerParses
<1>2. ASSUME NEW v \in Accepted
      PROVE  InstallerPre(v) = v.pre
  <2>1. v.pre # None => \A k \in 1..Len(v.pre) : v.pre[k].lex # 0
    BY DEF Accepted, OtaParses, IdentifierParses
  <2> QED BY <2>1 DEF InstallerPre
<1>3. InstallerPrerelease(a.pre, b.pre) = OtaPrerelease(a.pre, b.pre)
  BY AcceptedParts, InstallerDecides DEF InstallerPrerelease, OtaPrerelease
<1> QED BY <1>1, <1>2, <1>3 DEF InstallerCompare, OtaCompare

(* Of an ordinary version printf prints the components as they are.         *)
LEMMA KeyIsCore ==
  ASSUME NEW v \in Accepted, Ordinary(v)
  PROVE  VersionKey(v) = v.core
<1>1. v.core \in Seq(Nat) /\ Len(v.core) = 3
  BY AcceptedParts
<1>2. v.vs \in Nat /\ ~(v.vs > 1) /\ \A i \in 1..3 : v.core[i] # None
  BY VersionAssumption DEF Accepted, OtaParses, CoreParses
<1>3. v.core = [i \in 1..3 |-> v.core[i]]
  BY <1>1
<1>4. ASSUME NEW i \in 1..3
      PROVE  PrintfReads(v.core[i], v.text[i]) = v.core[i]
  <2>1. v.core[i] \in Nat /\ v.core[i] < 1000000 /\ v.text[i].octal = None
    BY <1>1 DEF Ordinary
  <2>2. Min({v.core[i], LongMax}) = v.core[i]
    BY <2>1, LongMaxAssumption, Shared DEF Shorter
  <2> QED BY <1>2, <2>1, <2>2 DEF PrintfReads
<1>5. VersionKey(v) = [i \in 1..3 |-> v.core[i]]
  BY <1>1, <1>2, <1>4 DEF VersionKey, Ordinary
<1> QED BY <1>3, <1>5

(* Six digits compare as texts the way they do as numbers.                  *)
LEMMA TextOrderIsNumeric ==
  ASSUME NEW a \in Accepted, NEW b \in Accepted, Ordinary(a), Ordinary(b)
  PROVE  Lexicographic(TextOrder, a.core, b.core) = CompareCore(a, b)
<1>1. Len(a.core) = 3 /\ Len(b.core) = 3
  BY AcceptedParts
<1>2. \A i \in 1..3 : TextOrder(a.core[i], b.core[i]) = Cmp(a.core[i], b.core[i])
  BY DEF Ordinary, TextOrder, Width
<1>3. 1..Min({Len(a.core), Len(b.core)}) = 1..3
  BY <1>1, Shared DEF Shorter
<1> DEFINE both == 1..3
           differ == {i \in both : Cmp(a.core[i], b.core[i]) # Equal}
<1>4. {i \in both : TextOrder(a.core[i], b.core[i]) # Equal} = differ
  BY <1>2
<1>5. CASE differ = {}
  BY <1>1, <1>3, <1>4, <1>5 DEF Lexicographic, CompareCore
<1>6. CASE differ # {}
  <2>1. Min(differ) \in both
    BY <1>6, LeastIsMin
  <2> QED BY <1>2, <1>3, <1>4, <1>6, <2>1 DEF Lexicographic, CompareCore
<1> QED BY <1>5, <1>6

----------------------------------------------------------------------------
(* The floor.                                                              *)

(* The floors are accepted versions, the present one not below the first.   *)
FInv == start \in Accepted /\ floor \in Accepted /\ OtaCompare(floor, start) # Less

(* Whatever versions are marked good, in any order, the invariant holds.    *)
THEOREM FloorInvariance == Spec => []FInv
<1>1. Init => FInv
  BY SameVersion DEF Init, FInv, Accepted, Less, Equal
<1>2. FInv /\ [Next]_vars => FInv'
  <2> SUFFICES ASSUME FInv, [Next]_vars
               PROVE  FInv'
    OBVIOUS
  <2>1. ASSUME NEW v \in Versions, MarkGood(v)
        PROVE  FInv'
    <3>1. v \in Accepted /\ OtaCompare(v, floor) # Less /\ start' = start
      BY <2>1 DEF MarkGood, Accepted
    <3>2. OtaCompare(v, start) # Less
      BY <3>1, ChainOfVersions DEF FInv, Chain
    <3>3. floor' = v \/ floor' = floor
      BY <2>1 DEF MarkGood
    <3> QED BY <3>1, <3>2, <3>3 DEF FInv
  <2>2. CASE UNCHANGED vars
    BY <2>2 DEF FInv, vars
  <2> QED BY <2>1, <2>2 DEF Next
<1> QED BY <1>1, <1>2, PTL DEF Spec

(* No chain of accepted updates leads below the floor it started from, for  *)
(* any versions: the comparator of suderra-ota is an order                  *)
(* (FloorNeverComesRound).                                                 *)
THEOREM FloorIsMonotonic == Spec => []FloorNeverComesRound
<1>1. FInv => FloorNeverComesRound
  BY ChainOfVersions DEF FInv, FloorNeverComesRound
<1> QED BY <1>1, FloorInvariance, PTL

(* suderra-installer parses every version that suderra-ota accepts, and     *)
(* orders any two of them the same way (InstallerAgrees).                   *)
THEOREM InstallerOrdersAlike == Spec => []InstallerAgrees
<1>1. FInv => InstallerAgrees
  BY InstallerCompares DEF FInv, InstallerAgrees
<1> QED BY <1>1, FloorInvariance, PTL

(* On versions of plain components of at most six digits the text guard of  *)
(* suderra-edge-install is the order of the components: it refuses nothing  *)
(* the floor admits, and whatever goes back by a component                  *)
(* (KeyOrdersCores).                                                       *)
THEOREM KeyComparesCores == Spec => []KeyOrdersCores
<1>1. FInv => KeyOrdersCores
  <2> SUFFICES ASSUME FInv, Ordinary(floor), Ordinary(start)
               PROVE  /\ ~KeyRefuses(floor, start)
                      /\ KeyRefuses(start, floor) <=> CompareCore(start, floor) = Less
    BY DEF KeyOrdersCores
  <2>1. VersionKey(floor) = floor.core /\ VersionKey(start) = start.core
    BY KeyIsCore DEF FInv
  <2>2. CompareCore(floor, start) # Less
    BY DEF FInv, OtaCompare, Then, Less, Equal
  <2>3. /\ Lexicographic(TextOrder, floor.core, start.core) = CompareCore(floor, start)
        /\ Lexicographic(TextOrder, start.core, floor.core) = CompareCore(start, floor)
    BY TextOrderIsNumeric DEF FInv
  <2> QED BY <2>1, <2>2, <2>3 DEF KeyRefuses
<1> QED BY <1>1, FloorInvariance, PTL
=============================================================================
