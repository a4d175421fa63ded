-------------------------- MODULE MCPolicyRegistry --------------------------
(* PolicyRegistry for TLC. *)
EXTENDS PolicyRegistry, TLC

CONSTANTS t1, bare, qualified

\* One table under two spellings.
MCIdentity == bare :> t1 @@ qualified :> t1

\* A handler that reads it once.
MCHandlers == {<<t1>>}
=============================================================================
