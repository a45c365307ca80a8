----------------------- MODULE MCGitRepositoryCache -----------------------
(* Two requests and one repository with an ordinary branch and a branch    *)
(* whose name contains 40 hexadecimal digits.                              *)
EXTENDS GitRepositoryCache, TLC

CONSTANTS r1, r2, p1, p2, main, hexBranch

MCTwoReplicas == r1 :> p1 @@ r2 :> p2
MCOneReplica == r1 :> p1
MCName == {main, hexBranch}
MCHexName == {hexBranch}

MCCommitSymmetry == Permutations(Commit)
=============================================================================
