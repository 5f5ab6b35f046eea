------------------------------- MODULE SemVer -------------------------------
(***************************************************************************)
(* The three version comparators of the device side:                       *)
(*   - ParsedVersion of suderra-ota, which guards the rollback floor;       *)
(*   - compare_versions of suderra-installer, which guards the edge agent's *)
(*     contracts;                                                          *)
(*   - version_key of suderra-edge-install, the monotonic install guard.    *)
(* A version is what splitting its text at '-' and '.' gives; an identifier *)
(* is kept with the facts about its text that the code asks for.            *)
(***************************************************************************)
EXTENDS Integers, Sequences, FiniteSetsExt

CONSTANTS
  Identifiers,  \* the prerelease identifiers in use, see IdentifierType
  Versions,     \* the texts compared, see VersionType
  LongMax,      \* the largest number printf's %d takes: 2^63 - 1
  None          \* "does not parse as u64", and "no prerelease"

IdentifierType ==
  [lex : Nat,         \* its place in byte order; 0 is the empty text
   num : Nat \cup {None},  \* what parse::<u64>() yields
   digits : BOOLEAN,  \* all characters are ASCII digits
   padded : BOOLEAN,  \* longer than one character and starts with '0'
   clean : BOOLEAN]   \* only ASCII letters, digits and '-'

(* The facts about the text of a numeric component.                         *)
ComponentType ==
  [plain : BOOLEAN,   \* all characters are ASCII digits, one at least
   octal : Nat \cup {None}]  \* its octal reading, when it starts with '0' and
                            \* has more digits

VersionType ==
  [vs : Nat,          \* how many times the text starts with 'v'
   core : Seq(Nat \cup {None}),  \* what parse::<u64>() yields
   text : Seq(ComponentType),
   pre : Seq(Identifiers) \cup {None}]

(* parse::<u64>() takes digits, after a '+' at most.                        *)
ASSUME IdentifierAssumption ==
  /\ Identifiers \subseteq IdentifierType
  /\ \A i \in Identifiers : i.num # None /\ i.clean => i.digits
ASSUME VersionAssumption ==
  \A v \in Versions : /\ v.vs \in Nat
                      /\ v.core \in Seq(Nat \cup {None})
                      /\ v.text \in Seq(ComponentType)
                      /\ Len(v.text) = Len(v.core)
                      /\ v.pre # None => v.pre \in Seq(Identifiers)

ASSUME LongMaxAssumption == LongMax \in Nat /\ LongMax >= 999999

VARIABLES
  start,  \* the floor the device started with
  floor   \* its rollback floor now

vars == <<start, floor>>

Less == -1
Equal == 0
Greater == 1
Cmp(a, b) == IF a < b THEN Less ELSE IF a > b THEN Greater ELSE Equal
Then(a, b) == IF a # Equal THEN a ELSE b

(* The first pair of items that differ decides, the length otherwise.       *)
Lexicographic(item(_, _), l, r) ==
  LET both == 1..Min({Len(l), Len(r)})
      differ == {i \in both : item(l[i], r[i]) # Equal}
  IN  IF differ = {} THEN Cmp(Len(l), Len(r))
                     ELSE item(l[Min(differ)], r[Min(differ)])

CoreParses(v) == Len(v.core) = 3 /\ \A i \in 1..3 : v.core[i] # None
CompareCore(a, b) == Lexicographic(Cmp, a.core, b.core)

----------------------------------------------------------------------------
(* suderra-ota.                                                            *)

(* parse_prerelease refuses empty identifiers, padded or oversized numbers  *)
(* and foreign characters.                                                 *)
IdentifierParses(i) ==
  /\ i.lex # 0
  /\ IF i.digits THEN ~i.padded /\ i.num # None ELSE i.clean

OtaParses(v) ==
  /\ v.vs <= 1
  /\ CoreParses(v)
  /\ v.pre # None => \A k \in 1..Len(v.pre) : IdentifierParses(v.pre[k])

\* Mutant: a number and a text are compared as texts.
OtaIdentifierMixed(l, r) ==
  IF l.digits /\ r.digits THEN Cmp(l.num, r.num) ELSE Cmp(l.lex, r.lex)

OtaIdentifier(l, r) ==
  CASE l.digits /\ r.digits   -> Cmp(l.num, r.num)
    [] l.digits /\ ~r.digits  -> Less
    [] ~l.digits /\ r.digits  -> Greater
    [] ~l.digits /\ ~r.digits -> Cmp(l.lex, r.lex)

OtaPrerelease(l, r) ==
  CASE l = None /\ r = None -> Equal
    [] l = None /\ r # None -> Greater
    [] l # None /\ r = None -> Less
    [] OTHER -> Lexicographic(OtaIdentifier, l, r)

OtaCompare(a, b) == Then(CompareCore(a, b), OtaPrerelease(a.pre, b.pre))

----------------------------------------------------------------------------
(* suderra-installer.  Any number of leading 'v's goes, an empty prerelease *)
(* is none, and identifiers are only looked at when they are compared.      *)

InstallerParses(v) == CoreParses(v)

InstallerPre(v) ==
  IF v.pre # None /\ Len(v.pre) = 1 /\ v.pre[1].lex = 0 THEN None ELSE v.pre

\* Mutant: identifiers are compared as texts.
InstallerIdentifierLex(l, r) == Cmp(l.lex, r.lex)

InstallerIdentifier(l, r) ==
  CASE l.num # None /\ r.num # None -> Cmp(l.num, r.num)
    [] l.num # None /\ r.num = None -> Less
    [] l.num = None /\ r.num # None -> Greater
    [] l.num = None /\ r.num = None -> Cmp(l.lex, r.lex)

InstallerPrerelease(l, r) ==
  CASE l = None /\ r = None -> Equal
    [] l = None /\ r # None -> Greater
    [] l # None /\ r = None -> Less
    [] OTHER -> Lexicographic(InstallerIdentifier, l, r)

InstallerCompare(a, b) ==
  Then(CompareCore(a, b), InstallerPrerelease(InstallerPre(a), InstallerPre(b)))

----------------------------------------------------------------------------
(* suderra-edge-install, for texts of three components and more.            *)

(* version_key: one 'v' goes, a part that is not all digits is 0 (the third *)
(* runs to the prerelease), the prerelease is ignored.  printf reads a      *)
(* leading 0 as octal and stops at LongMax.                                 *)
PrintfReads(n, text) ==
  IF text.octal # None THEN Min({text.octal, LongMax})
  ELSE IF n = None THEN LongMax
  ELSE Min({n, LongMax})

\* Mutant: the two last components change places.
VersionKeySwapped(v) ==
  <<v.core[1], v.core[3], v.core[2]>>

VersionKey(v) ==
  [i \in 1..3 |->
     IF (i = 1 /\ v.vs > 1) \/ (i = 3 /\ Len(v.core) > 3) \/ ~v.text[i].plain
       THEN 0
       ELSE PrintfReads(v.core[i], v.text[i])]

(* '%06d': six digits, or as many as it takes.                              *)
Width(n) ==
  IF n < 1000000 THEN 6
  ELSE CHOOSE w \in 7..19 : 10^(w - 1) <= n /\ (w = 19 \/ n < 10^w)

(* The byte order of two such numerals: the shorter one is filled up on the *)
(* right.                                                                  *)
TextOrder(m, n) ==
  IF Width(m) = Width(n) THEN Cmp(m, n)
  ELSE LET w == Max({Width(m), Width(n)})
       IN  Then(Cmp(m * 10^(w - Width(m)), n * 10^(w - Width(n))),
                Cmp(Width(m), Width(n)))

(* `[ a \< b ]` on the keys: '.' sorts before every digit, so the first     *)
(* numeral that differs decides.                                           *)
KeyRefuses(candidate, current) ==
  Lexicographic(TextOrder, VersionKey(candidate), VersionKey(current)) = Less

----------------------------------------------------------------------------
Init ==
  /\ floor \in {v \in Versions : OtaParses(v)}
  /\ start = floor

(* mark_good: a version that does not parse, or is below the floor, is an   *)
(* error; a higher one becomes the floor.                                  *)
MarkGood(v) ==
  /\ OtaParses(v)
  /\ OtaCompare(v, floor) # Less
  /\ floor' = IF OtaCompare(v, floor) = Greater THEN v ELSE floor
  /\ UNCHANGED start

Next == \E v \in Versions : MarkGood(v)

Spec == Init /\ [][Next]_vars

----------------------------------------------------------------------------
(* No chain of accepted updates leads below the floor it started from, and  *)
(* two floors compare the same in both directions: compare_versions has no  *)
(* cycles, so versions may be taken for numbers.                            *)
FloorNeverComesRound ==
  /\ OtaCompare(floor, start) # Less
  /\ OtaCompare(start, floor) = -OtaCompare(floor, start)

(* Whatever suderra-ota parses suderra-installer parses too, and orders the *)
(* same way, although each has a comparator of its own.                    *)
InstallerAgrees ==
  /\ InstallerParses(floor)
  /\ InstallerCompare(floor, start) = OtaCompare(floor, start)
  /\ InstallerCompare(start, floor) = OtaCompare(start, floor)

(* Components without a leading 0 and of six digits at most.                *)
Ordinary(v) ==
  \A i \in 1..3 : v.text[i].plain /\ v.text[i].octal = None /\ v.core[i] < 1000000

(* On ordinary versions the text comparison of the shell guard is the order *)
(* of the numeric components: it refuses no update the two comparators call *)
(* an upgrade, and every one that goes back by more than a prerelease.      *)
KeyOrdersCores ==
  Ordinary(floor) /\ Ordinary(start) =>
    /\ ~KeyRefuses(floor, start)
    /\ KeyRefuses(start, floor) <=> CompareCore(start, floor) = Less
=============================================================================
