---------------------------- MODULE MCSuderraOta ----------------------------
(* Instances of SuderraOta for TLC.                                         *)
EXTENDS SuderraOta

(* A manifest whose own floor is f and that any device may install.         *)
Release(v, f) ==
  [version |-> v, floor |-> f, minCurrent |-> 1, authentic |-> TRUE]

(* What the update server may serve: every release up to MaxVersion, a      *)
(* replayed old one, one with a raised floor, one that is not authentic.    *)
AllReleases ==
  {Release(v, f) : v \in Versions, f \in Versions}
    \cup {[Release(MaxVersion, MaxVersion) EXCEPT !.authentic = FALSE],
          [Release(MaxVersion, MaxVersion) EXCEPT !.minCurrent = 2]}

(* One try, good at once, or both.                                         *)
AnyActivation == {<<0, 1>>, <<1, 0>>, <<1, 1>>}
=============================================================================
