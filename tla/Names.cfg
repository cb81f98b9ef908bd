SPECIFICATION Spec
CONSTANTS
  a = a
  b = b
  c = c
  m = m
  n = n
  u = u
  d = d
  k = k
  l = l
  None = None
  Procs = {a, b}
  Names = {m, n}
  Registries = {u, d}
  Keys = {k}
  Unique = {u}
  Workload = {"name", "via", "set_name", "drop_name", "add_key", "drop_key", "registries", "init_fails"}
INVARIANTS NamesInverse EntriesTracked OnlyLateNamesSurvive
PROPERTY OwnerKeepsKey
SYMMETRY MCSymmetry
