SPECIFICATION Spec
CONSTANTS
  Titles = {t1, t2}
  Vers = {1}
  Callers = {c1, c2}
  Workers = {w1, w2}
  NoJob = NoJob
INVARIANT NeverStranded
