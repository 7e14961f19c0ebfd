---------------------------- MODULE VersionHistory ----------------------------
(***************************************************************************)
(* What resubmission promises (docs/teacher-guide.md, "The newest version  *)
(* becomes the current one"): the versions of a lineage are published one  *)
(* at a time, numbered 1, 2, 3, ..., and in one step the new one is shown  *)
(* and the one before is not.                                              *)
(***************************************************************************)
EXTENDS Naturals

CONSTANT Lineages

VARIABLES
    published,  \* lineage -> the version numbers it has
    shown       \* lineage -> the version numbers that teachers see

Init ==
    /\ published = [r \in Lineages |-> {}]
    /\ shown     = [r \in Lineages |-> {}]

\* The next number of a lineage.
IsNext(n, versions) ==
    /\ \A m \in versions : m < n
    /\ n = 1 \/ n - 1 \in versions

Publish(r, n) ==
    /\ IsNext(n, published[r])
    /\ published' = [published EXCEPT ![r] = @ \cup {n}]
    /\ shown'     = [shown EXCEPT ![r] = {n}]

\* A number that follows a stored one, or the first.
Candidates(versions) == {1} \cup {m + 1 : m \in versions}

Next == \E r \in Lineages : \E n \in Candidates(published[r]) : Publish(r, n)

Spec == Init /\ [][Next]_<<published, shown>>

=============================================================================
