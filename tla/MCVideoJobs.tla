---------------------------- MODULE MCVideoJobs ----------------------------
(* Instances of VideoJobs for TLC.                                        *)
EXTENDS VideoJobsClaims, VideoJobsLife, TLC

\* Open requests differ in nothing but their identity.
RequestSymmetry == Permutations(Requests)

Removal == {-1}
GrantAndRemoval == {-3, 1}
=============================================================================
