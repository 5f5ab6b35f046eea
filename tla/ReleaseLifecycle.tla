--------------------------- MODULE ReleaseLifecycle ---------------------------
(***************************************************************************)
(* What the release workflow does for the readers of a release: there is   *)
(* no release, then a draft that may come and go, then a public release    *)
(* whose content is acceptable and does not change.  The one way back is   *)
(* a job that could not read the release it found and makes it a draft.    *)
(* ReleasePublish is shown to implement it.                                *)
(***************************************************************************)

CONSTANT Acceptable(_)   \* what a public release may consist of

VARIABLES
    phase,               \* "none", "draft" or "public"
    content,             \* the public assets; empty until there are any
    unread               \* a job works on without having read the release

NoContent == [k \in {} |-> {}]

Init ==
    /\ phase = "none"
    /\ content = NoContent

Draft ==
    /\ phase = "none"
    /\ phase' = "draft"
    /\ UNCHANGED content

Withdraw ==
    /\ phase = "draft"
    /\ phase' = "none"
    /\ UNCHANGED content

Publish ==
    /\ phase = "draft"
    /\ phase' = "public"
    /\ Acceptable(content')

Redraft ==
    /\ phase = "public"
    /\ unread
    /\ phase' = "draft"
    /\ content' = NoContent

Next == Draft \/ Withdraw \/ Publish \/ Redraft

\* The readers of the release see its phase and content.
Spec == Init /\ [][Next]_<<phase, content>>

===============================================================================
