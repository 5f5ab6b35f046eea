------------------------------ MODULE MCSemVer ------------------------------
(* Versions built from identifiers chosen for their places in byte order:   *)
(*   ""  "+1"  "0"  "007"  "10"  "1a"  "2"  "99999999999999999999"  "rc"    *)
(*   "rc_"                                                                 *)
EXTENDS SemVer

I(lex, num, digits, padded, clean) ==
  [lex |-> lex, num |-> num, digits |-> digits, padded |-> padded,
   clean |-> clean]

Empty == I(0, None, TRUE, FALSE, TRUE)

MCIdentifiers ==
  {Empty,
   I(1, 1, FALSE, FALSE, FALSE),
   I(2, 0, TRUE, FALSE, TRUE),
   I(3, 7, TRUE, TRUE, TRUE),
   I(4, 10, TRUE, FALSE, TRUE),
   I(5, None, FALSE, FALSE, TRUE),
   I(6, 2, TRUE, FALSE, TRUE),
   I(7, None, TRUE, FALSE, TRUE),
   I(8, None, FALSE, FALSE, TRUE),
   I(9, None, FALSE, FALSE, FALSE)}

(* v, or vv, and a core of two to four components, one of which may fail    *)
(* to parse.                                                               *)
Cores ==
  {<<1, 0, 0>>, <<1, 0, 2>>, <<1, 10, 0>>, <<2, 0, 0>>,
   <<1, 0>>, <<1, 0, 0, 0>>, <<1, None, 0>>}

Plain == [plain |-> TRUE, octal |-> None]
Plainly(c) ==
  [i \in 1..Len(c) |-> [Plain EXCEPT !.plain = (c[i] # None)]]

(* Components at and beyond six digits, "010" for the minor component, and  *)
(* "+1" for the major one.                                                 *)
Odd ==
  {[vs |-> 1, core |-> c, text |-> Plainly(c), pre |-> None] :
     c \in {<<1, 0, 999999>>, <<1, 0, 1000000>>, <<1, 0, 1000001>>}}
    \cup {[vs |-> 1, core |-> <<1, 10, 0>>,
           text |-> <<Plain, [Plain EXCEPT !.octal = 8], Plain>>, pre |-> None],
          [vs |-> 1, core |-> <<1, 9, 0>>,
           text |-> <<Plain, Plain, Plain>>, pre |-> None],
          [vs |-> 1, core |-> <<1, 0, 0>>,
           text |-> <<[Plain EXCEPT !.plain = FALSE], Plain, Plain>>,
           pre |-> None]}

Prereleases ==
  {None} \cup {<<i>> : i \in MCIdentifiers}
         \cup {<<i, j>> : i \in {x \in MCIdentifiers : x.lex \in {2, 4, 8}},
                          j \in {x \in MCIdentifiers : x.lex \in {0, 4, 5, 6}}}

MCVersions ==
  {[vs |-> 1, core |-> c, text |-> Plainly(c), pre |-> p] :
     c \in Cores, p \in Prereleases}
    \cup {[vs |-> n, core |-> <<1, 0, 0>>, text |-> Plainly(<<1, 0, 0>>),
           pre |-> None] : n \in {0, 2}}
    \cup Odd

(* TextOrder against the byte order of the digits themselves.               *)
Digits(n) == [i \in 1..Width(n) |-> (n \div 10^(Width(n) - i)) % 10]
Numerals == {0, 1, 9, 10, 99, 100, 999999, 1000000, 1000001, 1999999, 9999999,
             10000000, 10000001, 99999999}
ASSUME TextOrderIsByteOrder ==
  \A m, n \in Numerals :
    TextOrder(m, n) = Lexicographic(Cmp, Digits(m), Digits(n))

(* Beyond ordinary versions the guard does refuse upgrades: 1.0.1000000     *)
(* after 1.0.999999, and 1.010.0 after 1.9.0.                               *)
ASSUME OddVersionsRefused ==
  \E a, b \in Odd : OtaCompare(a, b) = Greater /\ KeyRefuses(a, b)
=============================================================================
