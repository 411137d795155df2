SPECIFICATION Spec
CONSTANTS
  t1 = t1  t2 = t2  p1 = p1  None = None
  r1 = r1  r2 = r2  s1 = s1  f1 = f1  f2 = f2  f3 = f3  f4 = f4  x = x  y = y
  Threads = {t1, t2}
  Mutators = {t1}
  Processes = {p1}
  ProcOf <- TwoThreads
  Entries = {e1, e2}
  Roots = {r1, r2}
  Subs = {s1}
  FileIds = {f1, f2, f3, f4}
  Names = {x, y}
  Kinds = {"replace", "delete", "rename", "remove_tree", "mkdir"}
  Starts <- MCStarts
  MaxOps = 3
  MaxOthers = 2
INVARIANTS NothingOrphaned AppendsKept MutualExclusion
PROPERTIES AuthorizedOnly
CHECK_DEADLOCK FALSE
