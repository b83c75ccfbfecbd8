\* Two assignments and three requests on two tasks of a project.
SPECIFICATION MCSpec
CONSTANTS
  Calls = {c1, c2, c3}
  Tasks = {t1, t2}
  Assigners = {a1, a2}
  Reports = {"working", "completed"}
  None = None
  Readers = {v1}
  MaxShown = 3
  Slugs = {"lead", "member", "other"}
  Processes = {p1, p2, p3, p4}
INVARIANTS SuccessWasTold DeliveriesAreKnown EndedTaskIsWhole ClosedProjectIsWhole KeysAreKept
PROPERTIES EndSettles CanceledSettles StatusSettles
SYMMETRY Symmetry
CHECK_DEADLOCK FALSE
