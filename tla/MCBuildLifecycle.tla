-------------------------- MODULE MCBuildLifecycle --------------------------
(* Small instances of BuildLifecycle for TLC. *)
EXTENDS BuildLifecycle, TLC

CONSTANT Tag

\* Every build is for one tag: the case in which builds meet.
SameTag == [b \in Builds |-> Tag]

\* Builds of one tag are interchangeable.
Symmetry == Permutations(Builds)

=============================================================================
