-------------------------- MODULE MCEmbeddingRuns --------------------------
(* Small instances of EmbeddingRuns for TLC.                                *)
EXTENDS EmbeddingRuns

CONSTANTS p1, p2, model, other, summary

TwoThreads   == {1, 2}
TwoProcesses == {p1, p2}
ThreeConfigs == {model, other, summary}
OneOrTwo     == {1, 2}
TitleSummary == {summary}

Plain(stages) == [stages |-> stages, closed |-> FALSE, force |-> FALSE,
                  strict |-> FALSE, limit |-> 0, number |-> 0]

AllCommands ==
  {[Plain(<<"embed">>) EXCEPT !.closed = TRUE, !.force = TRUE, !.limit = 1],
   Plain(<<"cluster">>),
   [Plain(<<"embed", "cluster">>) EXCEPT !.strict = TRUE],
   [Plain(<<"neighbors">>) EXCEPT !.number = 1]}

Symmetry == Permutations(Procs) \cup Permutations({model, other})
=============================================================================
