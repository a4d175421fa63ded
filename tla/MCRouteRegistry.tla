--------------------------- MODULE MCRouteRegistry ---------------------------
\* Small instances of RouteRegistry for TLC.
EXTENDS RouteRegistry, TLC

MCLimits == {[n |-> 0, per |-> 1], [n |-> 1, per |-> 2], [n |-> 2, per |-> 1]}

MCRoutes == [name : Names, path : Paths, limit : {[n |-> 1, per |-> 2], [n |-> 0, per |-> 1]}]

\* Single routes, and the pair a table API registers, here on one path or two.
MCBatches == {<<r>> : r \in MCRoutes}
  \cup {<<r, s>> : r \in {x \in MCRoutes : x.name = "a" /\ x.limit.n = 1},
                   s \in {x \in MCRoutes : x.name = "b" /\ x.limit.n = 1}}

\* Requests, clients and paths are interchangeable in every set above.
MCSymmetry == Permutations(Requests) \cup Permutations(Clients) \cup Permutations(Paths)
=============================================================================
