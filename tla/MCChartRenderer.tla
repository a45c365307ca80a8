-------------------------- MODULE MCChartRenderer --------------------------
(* Two requests; a chart with documents of every kind, and one that cannot  *)
(* be sorted when its CRD is rendered.                                      *)
EXTENDS ChartRenderer, TLC

CONSTANTS r1, r2, v1, v2, v3, k1

MCDeployment ==
    {[configured |-> <<>>, spare |-> 0],
     [configured |-> <<v1>>, spare |-> 0],
     [configured |-> <<v1, v2>>, spare |-> 1]}

MCAsked ==
    {[versions |-> <<>>, crds |-> None, hooks |-> None, values |-> {}],
     [versions |-> <<v2>>, crds |-> None, hooks |-> FALSE,
      values |-> {<<"root", k1>>}],
     [versions |-> <<v3>>, crds |-> FALSE, hooks |-> None,
      values |-> {<<"below", k1>>}]}

Service == [name |-> "service", order |-> 1, from |-> "template",
            yaml |-> TRUE, hook |-> FALSE, known |-> TRUE, content |-> "object"]

MCChart ==
    {{Service,
      [Service EXCEPT !.name = "deployment", !.order = 2],
      [Service EXCEPT !.name = "crd", !.order = 0, !.from = "crd"],
      [Service EXCEPT !.name = "NOTES", !.yaml = FALSE],
      [Service EXCEPT !.name = "disabled", !.content = "empty"],
      [Service EXCEPT !.name = "test", !.hook = TRUE],
      [Service EXCEPT !.name = "later", !.hook = TRUE, !.known = FALSE]},
     {Service,
      [Service EXCEPT !.name = "list", !.from = "crd", !.content = "invalid"]}}

MCSymmetry == Permutations(Request)
=============================================================================
