CONSTANTS
  t1 = t1
  bare = bare
  qualified = qualified
  Names = {p, m}
  Spellings = {bare, qualified}
  Tables = {t1}
  Identity <- MCIdentity
  Columns = {c1, c2}
  Arities = {1}
  Requests = {r1}
  Handlers <- MCHandlers
  MaxDdl = 6
SPECIFICATION Spec
INVARIANTS
  NoDanglingBinding
  HeldBindingsApplied
