--------------------------- MODULE PolicyRegistry ---------------------------
(***************************************************************************)
(* Row access and masking policies: the registry and its DDL               *)
(* (QuackapiState, src/src/quackapi_registry.cpp; ApplyPolicyExec,         *)
(* src/src/quackapi_policy.cpp) and the requests that read it while        *)
(* statements change it.  policies_mutex is taken for one call at a time,  *)
(* so a request sees the two lists of bindings, and then each policy, at   *)
(* different moments.                                                      *)
(*                                                                         *)
(* A statement that raises an error changes nothing and is not an action.  *)
(* How the syntax tree of a handler is searched for table references is    *)
(* the subject of PolicyRewrite; here a handler is the sequence of base    *)
(* tables it reads.                                                        *)
(***************************************************************************)
EXTENDS Integers, Sequences, FiniteSets, SequencesExt, Subsequences

CONSTANTS
  Names,      \* of policies, of both kinds
  Spellings,  \* of table names in bindings, letter case aside
  Tables,     \* catalog identities
  Identity,   \* what each spelling denotes
  Columns,    \* that may be masked
  Arities,    \* lengths of signatures and of column lists
  Requests,
  Handlers,   \* sequences of tables
  MaxDdl      \* bound on the statements that change the registry

ASSUME PolicyAssumption ==
  /\ Identity \in [Spellings -> Tables]
  /\ Arities \subseteq Nat \ {0} /\ MaxDdl \in Nat
  /\ Handlers \subseteq Seq(Tables)

VARIABLES
  rowPolicies,   \* row_access_policies: the length of each one's signature, by name
  maskPolicies,  \* names of the masking_policies
  rowBindings,   \* row_access_bindings
  maskBindings,  \* masking_bindings
  request,       \* RewriteHandlerWithPolicies, or quackapi_exec's check, on each thread
  ddl            \* statements so far

registry == <<rowPolicies, maskPolicies, rowBindings, maskBindings>>
vars == <<registry, request, ddl>>

None == [policy |-> "none"]

\* rows, masks  the bindings of the two snapshots
\* todo         the reads still to be visited
\* filter       the row filter found for the read being rewritten
\* masked       the mask bindings put into it so far
\* next         the mask binding to look at
\* reads        the reads rewritten
\* heldRows, heldMasks  (history) the bindings there since the request began
NoRequest == [at |-> "idle", kind |-> "route", authenticated |-> FALSE, rows |-> <<>>, masks |-> <<>>,
              todo |-> <<>>, filter |-> None, masked |-> {}, next |-> 1, reads |-> <<>>,
              heldRows |-> {}, heldMasks |-> {}]

Request(r, s) == request' = [request EXCEPT ![r] = s]

-----------------------------------------------------------------------------
(* Statements.                                                             *)

\* The registry after a statement; the requests' histories lose what it took away.
Apply(rows, masks, rowBinds, maskBinds) ==
  /\ ddl < MaxDdl /\ ddl' = ddl + 1
  /\ rowPolicies' = rows /\ maskPolicies' = masks
  /\ rowBindings' = rowBinds /\ maskBindings' = maskBinds
  /\ request' = [r \in Requests |-> [request[r] EXCEPT !.heldRows = @ \cap Range(rowBinds),
                                                         !.heldMasks = @ \cap Range(maskBinds)]]

Without(f, n) == Restrict(f, DOMAIN f \ {n})
Unbound(n, bindings) == Kept(bindings, {i \in DOMAIN bindings : bindings[i].policy # n})

\* The bindings of a policy that is replaced stay.
AddRowAccessPolicy(n, args, or_replace) ==
  /\ IF n \in DOMAIN rowPolicies THEN or_replace ELSE n \notin maskPolicies
  /\ Apply([x \in DOMAIN rowPolicies \cup {n} |-> IF x = n THEN args ELSE rowPolicies[x]],
           maskPolicies, rowBindings, maskBindings)

AddMaskingPolicy(n, or_replace) ==
  /\ IF n \in maskPolicies THEN or_replace ELSE n \notin DOMAIN rowPolicies
  /\ Apply(rowPolicies, maskPolicies \cup {n}, rowBindings, maskBindings)

\* Mutant: the bindings of a dropped policy stay.
DropRowAccessPolicyOnly(n) ==
  /\ n \in DOMAIN rowPolicies
  /\ Apply(Without(rowPolicies, n), maskPolicies, rowBindings, maskBindings)

DropRowAccessPolicy(n) ==
  /\ n \in DOMAIN rowPolicies
  /\ Apply(Without(rowPolicies, n), maskPolicies, Unbound(n, rowBindings), maskBindings)

DropMaskingPolicy(n) ==
  /\ n \in maskPolicies
  /\ Apply(rowPolicies, maskPolicies \ {n}, rowBindings, Unbound(n, maskBindings))

\* One binding per spelling of a table: replaced in place by its own policy or
\* with OR REPLACE.
BindRowAccessPolicy(t, n, cols, or_replace) ==
  LET b == [table |-> t, policy |-> n, cols |-> cols]
      same == SelectInSeq(rowBindings, LAMBDA x : x.table = t)
  IN /\ n \in DOMAIN rowPolicies /\ cols = rowPolicies[n]
     /\ same # 0 => rowBindings[same].policy = n \/ or_replace
     /\ Apply(rowPolicies, maskPolicies,
              IF same = 0 THEN Append(rowBindings, b) ELSE [rowBindings EXCEPT ![same] = b], maskBindings)

UnbindRowAccessPolicy(t, n) ==
  LET i == SelectInSeq(rowBindings, LAMBDA x : x.table = t /\ x.policy = n)
  IN i # 0 /\ Apply(rowPolicies, maskPolicies, RemoveAt(rowBindings, i), maskBindings)

SameColumn(t, c) == SelectInSeq(maskBindings, LAMBDA x : x.table = t /\ x.column = c)

\* SET MASKING POLICY always replaces.
BindMaskingPolicy(t, c, n) ==
  LET b == [table |-> t, column |-> c, policy |-> n]
      same == SameColumn(t, c)
  IN /\ n \in maskPolicies
     /\ Apply(rowPolicies, maskPolicies, rowBindings,
              IF same = 0 THEN Append(maskBindings, b) ELSE [maskBindings EXCEPT ![same] = b])

UnbindMaskingPolicy(t, c) ==
  LET i == SameColumn(t, c)
  IN i # 0 /\ Apply(rowPolicies, maskPolicies, rowBindings, RemoveAt(maskBindings, i))

-----------------------------------------------------------------------------
(* Requests.                                                               *)

\* SnapshotRowAccessBindings
SnapshotRows(r, kind, handler, authenticated) ==
  /\ request[r].at = "idle"
  /\ Request(r, [NoRequest EXCEPT !.at = "rows", !.kind = kind, !.authenticated = authenticated,
                                  !.rows = rowBindings, !.todo = handler,
                                  !.heldRows = Range(rowBindings), !.heldMasks = Range(maskBindings)])
  /\ UNCHANGED <<registry, ddl>>

\* SnapshotMaskingBindings.  Without bindings the handler is left as it is; SQL
\* that comes with the request is run only then.
SnapshotMasks(r) ==
  LET q == request[r]
      none == q.rows = <<>> /\ maskBindings = <<>>
  IN /\ q.at = "rows"
     /\ Request(r, [q EXCEPT !.masks = maskBindings,
                             !.at = IF none THEN "plain" ELSE IF q.kind = "exec" THEN "denied" ELSE "visit"])
     /\ UNCHANGED <<registry, ddl>>

BoundTo(b, t) == Identity[b.table] = t

\* A base table that some binding names: row filter first.  Of the row access
\* bindings of a table, one for each spelling, only the first counts.
VisitTable(r) ==
  LET q == request[r]
      t == Head(q.todo)
      row == SelectInSeq(q.rows, LAMBDA b : BoundTo(b, t))
      mask == SelectInSeq(q.masks, LAMBDA b : BoundTo(b, t))
      plain == [table |-> t, filter |-> None, masked |-> {}]
  IN /\ q.at = "visit"
     /\ Request(r, IF q.todo = <<>> THEN [q EXCEPT !.at = "rewritten"]
                   ELSE IF row = 0 /\ mask = 0 THEN [q EXCEPT !.todo = Tail(@), !.reads = Append(@, plain)]
                   ELSE IF ~q.authenticated THEN [q EXCEPT !.at = "denied"]
                   ELSE IF row = 0 THEN [q EXCEPT !.at = "mask"]
                   ELSE [q EXCEPT !.at = "filter", !.filter = q.rows[row]])
     /\ UNCHANGED <<registry, ddl>>

\* GetRowAccessPolicy, and ReplacePolicyIdentifiers for the columns of the
\* binding.
GetRowAccessPolicy(r) ==
  LET q == request[r]
      n == q.filter.policy
  IN /\ q.at = "filter"
     /\ Request(r, IF n \notin DOMAIN rowPolicies THEN [q EXCEPT !.at = "denied"]
                   ELSE [q EXCEPT !.at = "mask"])
     /\ UNCHANGED <<registry, ddl>>

\* Mutant: only the first mask of a table is looked for.
MasksAfterFirst(q) == {i \in DOMAIN q.masks : q.masked = {} /\ BoundTo(q.masks[i], Head(q.todo))}

\* The mask bindings of the table that are still to be looked at.
MasksAfter(q) == {i \in DOMAIN q.masks : i >= q.next /\ BoundTo(q.masks[i], Head(q.todo))}

\* GetMaskingPolicy for the next mask of the table.
GetMaskingPolicy(r) ==
  LET q == request[r]
      i == CHOOSE x \in MasksAfter(q) : \A y \in MasksAfter(q) : x <= y
      b == q.masks[i]
  IN /\ q.at = "mask" /\ MasksAfter(q) # {}
     /\ Request(r, IF b.policy \notin maskPolicies THEN [q EXCEPT !.at = "denied"]
                   ELSE [q EXCEPT !.masked = @ \cup {b}, !.next = i + 1])
     /\ UNCHANGED <<registry, ddl>>

\* The read becomes a subquery with the filter and the masks, if the parser
\* accepts the text (it need not where two spellings mask one column twice).
Replace(r, parses) ==
  LET q == request[r]
      read == [table |-> Head(q.todo), filter |-> q.filter, masked |-> q.masked]
  IN /\ q.at = "mask" /\ MasksAfter(q) = {}
     /\ Request(r, IF ~parses THEN [q EXCEPT !.at = "denied"]
                   ELSE [q EXCEPT !.at = "visit", !.todo = Tail(@), !.reads = Append(@, read),
                                  !.filter = None, !.masked = {}, !.next = 1])
     /\ UNCHANGED <<registry, ddl>>

Answered(r) ==
  /\ request[r].at \in {"plain", "rewritten", "denied"}
  /\ Request(r, NoRequest)
  /\ UNCHANGED <<registry, ddl>>

-----------------------------------------------------------------------------
Init ==
  /\ rowPolicies = <<>> /\ maskPolicies = {}
  /\ rowBindings = <<>> /\ maskBindings = <<>>
  /\ request = [r \in Requests |-> NoRequest]
  /\ ddl = 0

Statement ==
  \E n \in Names, t \in Spellings, or_replace \in BOOLEAN :
    \/ \E args \in Arities : AddRowAccessPolicy(n, args, or_replace)
    \/ AddMaskingPolicy(n, or_replace)
    \/ DropRowAccessPolicy(n) \/ DropMaskingPolicy(n)
    \/ \E cols \in Arities : BindRowAccessPolicy(t, n, cols, or_replace)
    \/ UnbindRowAccessPolicy(t, n)
    \/ \E c \in Columns : BindMaskingPolicy(t, c, n) \/ UnbindMaskingPolicy(t, c)

Serve(r) ==
  \/ \E kind \in {"route", "exec"}, handler \in Handlers, authenticated \in BOOLEAN :
       SnapshotRows(r, kind, handler, authenticated)
  \/ SnapshotMasks(r)
  \/ VisitTable(r)
  \/ GetRowAccessPolicy(r)
  \/ GetMaskingPolicy(r)
  \/ \E parses \in BOOLEAN : Replace(r, parses)
  \/ Answered(r)

Next == Statement \/ \E r \in Requests : Serve(r)

Spec == Init /\ [][Next]_vars

-----------------------------------------------------------------------------
\* Every binding names a policy of its own kind, whatever was dropped, replaced
\* or bound meanwhile, and no name is both a filter and a mask.
NoDanglingBinding ==
  /\ \A b \in Range(rowBindings) : b.policy \in DOMAIN rowPolicies
  /\ \A b \in Range(maskBindings) : b.policy \in maskPolicies
  /\ DOMAIN rowPolicies \cap maskPolicies = {}

\* A row binding is applied to a read, or comes after one of another spelling of
\* the table.
FilterApplied(b, read, rows) ==
  \/ read.filter = b
  \/ read.filter \in Range(rows) /\ BoundTo(read.filter, read.table) /\ read.filter.table # b.table

\* What was bound all the time a request was being rewritten is applied to
\* each of its reads, every mask and one row binding: statements run meanwhile
\* cannot make the two snapshots and the later lookups miss it.  The row binding
\* applied is the table's only one unless it has several spellings.
HeldBindingsApplied ==
  \A r \in Requests :
    LET q == request[r] IN
    /\ q.at = "rewritten" =>
         \A read \in Range(q.reads) :
           /\ \A b \in q.heldRows : BoundTo(b, read.table) => FilterApplied(b, read, q.rows)
           /\ \A b \in q.heldMasks : BoundTo(b, read.table) => b \in read.masked
    /\ q.at = "plain" => q.heldRows = {} /\ q.heldMasks = {}

=============================================================================
