--------------------------- MODULE MCSelfDispatch ---------------------------
(* SelfDispatch for TLC. *)
EXTENDS SelfDispatch, TLC

CONSTANTS c1, c2

With(nulls, stmts) == [nulls |-> nulls, stmts |-> stmts]

\* One call of two rows and two statements on two tasks, or two calls of one row each,
\* which are then as many as there are threads.
MCWorkloads ==
  {c1 :> With(nulls, 2) : nulls \in SUBSET Rows} \union {c1 :> With({2}, 1) @@ c2 :> With({2}, 1)}

OneRow == {c1 :> With({2}, 1)}

\* A call of quackapi_selfdispatch returns and a connection that goes is drained (Ends).
\* Two calls made together are alike: c1 stands for either.
CallReturns == Ends(c1)
=============================================================================
