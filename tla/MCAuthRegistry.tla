--------------------------- MODULE MCAuthRegistry ---------------------------
\* A small instance of AuthRegistry for TLC.
EXTENDS AuthRegistry, TLC

CONSTANTS k1, k2, s1, s2, x1, x2

\* Two spellings of one scheme.
MCNames  == {"Site", "site"}
MCFold   == [n \in MCNames |-> "site"]
MCTokens == {[secret |-> x1, nbf |-> 0, exp |-> 1], [secret |-> x2, nbf |-> 1, exp |-> 3]}

MCSymmetry == Permutations({s1, s2})
=============================================================================
