-------------------------- MODULE MCGitHubAppAuth --------------------------
(* Three goroutines, so that two can interfere with a third.               *)
EXTENDS GitHubAppAuth, TLC

MCSymmetry == Permutations(Goroutine)
=============================================================================
