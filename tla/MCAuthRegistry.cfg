SPECIFICATION AuthSpec
CONSTANTS
  k1 = k1
  k2 = k2
  s1 = s1
  s2 = s2
  x1 = x1
  x2 = x2
  Checks = {r1, r2}
  SchemeNames <- MCNames
  Fold <- MCFold
  Keys = {k1, k2}
  Subjects = {s1, s2}
  Secrets = {x1, x2}
  Tokens <- MCTokens
  Nothing = nothing
  MaxNow = 2
SYMMETRY MCSymmetry
INVARIANTS
  KeysFollowScheme
PROPERTIES
  AdmissionIsJustified
