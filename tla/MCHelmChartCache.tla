------------------------- MODULE MCHelmChartCache -------------------------
(* One repository that serves one chart at one URL, and one registry.      *)
EXTENDS HelmChartCache, TLC

MCSymmetry == Permutations(Request)

\* Bound: one source is uploaded to again.
MCConstraint == \E s \in Source : \A t \in Source \ {s} : archive[t] = 1
=============================================================================
