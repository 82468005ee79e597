------------------------ MODULE MCContainerLifecycle ------------------------
(* Small instances of ContainerLifecycle for TLC. *)
EXTENDS ContainerLifecycle, TLC

\* Goroutines are interchangeable, and so are the ids Docker allots.
Symmetry == Permutations(Workers) \cup Permutations(DockerIds) \cup Permutations(Callers)

=============================================================================
