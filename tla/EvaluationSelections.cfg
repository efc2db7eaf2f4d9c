SPECIFICATION Spec
CONSTANTS
  m1 = m1  t1 = t1  t2 = t2  c1 = c1  e1 = e1  e2 = e2
  Matches = {m1}
  Teams = {t1, t2}
  Corners <- MCCorners
  Coupons = {c1}
  Evaluators = {e1, e2}
  Answers <- MCAnswers
  MaxReports = 4
  MaxPreds = 2
SYMMETRY Symmetry
INVARIANTS
  CorrectSelectionsCameTrue
