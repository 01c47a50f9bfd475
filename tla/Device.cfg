\* Three runs of the program, strings shorter than the buffer, filling it and
\* longer, and a module loaded twice.
SPECIFICATION Spec
CONSTANTS
  u1 = u1
  u2 = u2
  u3 = u3
  Nul = Nul
  Mixed = Mixed
  Users = {u1, u2, u3}
  BufSize = 3
  Lens = {0, 1, 2, 4}
  MaxLoads = 2
SYMMETRY UserSymmetry
\* Everybody may be done.
CHECK_DEADLOCK FALSE
INVARIANTS TypeOK NothingLeft ReadsLastWrite CharsWritten
