---------------------------- MODULE MCControlPlane ----------------------------
(* Instances of ControlPlane for TLC.                                        *)
EXTENDS ControlPlane, TLC

\* Identifiers of one kind are interchangeable.
Symmetry ==
  Permutations(Campaigns) \cup Permutations(ApiRuns) \cup Permutations(SchedRuns)
    \cup Permutations(Requests) \cup Permutations(Schedulers) \cup Permutations(Workers)
=============================================================================
