SPECIFICATION Spec
CONSTANTS
  Movies = {m1}
  Theaters = {t1, t2}
  Showtimes = {s1, s2}
  Workers = {w1, w2}
  Times = {0, 1, 2}
  Durations = {1, 2}
  OVERLAP_WINDOW_MIN = 2
  None = None
  LayoutRows = {5}
  LayoutCols = {3}
INVARIANTS
  TypeOK
  ShowtimesComplete
  
  GridSound
SYMMETRY Symmetry
