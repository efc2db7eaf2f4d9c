----------------------------- MODULE MCEvaluation -----------------------------
EXTENDS Evaluation, TLC

CONSTANTS m1, t1, t2, c1, e1, e2

\* Six corners each: together over the line, one team alone under it.
MCCorners == [m \in Matches |-> [t \in Teams |-> 6]]

\* The model likes every market, or is in doubt about one and against the other.
Sure == [k \in Markets |-> "likely"]

Doubtful == [Sure EXCEPT !["home_win"] = "close", !["over_corners_9_5"] = "unlikely"]

Partial == [Sure EXCEPT !["home_win"] = "absent"]

MCAnswers == {Sure, Doubtful}

MCEveryAnswer == {Sure, Doubtful, Partial}

Symmetry == Permutations(Evaluators) \cup Permutations(Teams)
=============================================================================
