--------------------------- MODULE PolicyRewrite ---------------------------
(***************************************************************************)
(* RewriteHandlerWithPolicies (src/src/quackapi_policy.cpp): the syntax    *)
(* tree of a handler is searched for reads of tables with a row access or  *)
(* masking policy, and each is replaced by a subquery that filters and     *)
(* masks.  What cannot be looked into is refused.                          *)
(*                                                                         *)
(* A tree is a kind, a name where the kind has one, the common table       *)
(* expressions of a query node, and its parts in the order in which the    *)
(* code visits them:                                                       *)
(*   select, set   query nodes; the parts of a select are its FROM, then   *)
(*                 its expressions, then those of its modifiers            *)
(*   recursive     any other query node                                    *)
(*   base          a table by its bare name, or with its schema            *)
(*   derived, join, pivot, values, empty, function                         *)
(*                 other sources; function is a table function or macro    *)
(*   expr, macro, subquery                                                 *)
(*                 expressions; macro is a call of a scalar macro          *)
(***************************************************************************)
EXTENDS Integers, Sequences, SequencesExt, Subsequences

CONSTANT MaxDepth       \* how deep the engine's parser lets statements nest

QueryNodes == {"select", "set", "recursive"}
Expressions == {"expr", "macro", "subquery"}
Sources == {"base", "function", "derived", "join", "pivot", "values", "empty"}

\* What can stand above the trees S.
Above(S) ==
  {t \in [kind : QueryNodes \union Expressions \union Sources, name : STRING, qualified : BOOLEAN,
          ctes : Seq([name : STRING, node : S]), parts : Seq(S)] :
     /\ t.ctes # <<>> => t.kind \in QueryNodes
     /\ t.kind = "base" => t.parts = <<>>}

\* Trees by the number of their levels.
Trees == LET trees[n \in 0..MaxDepth] == IF n = 0 THEN {} ELSE Above(trees[n - 1]) IN trees

Tree(kind, parts) == [kind |-> kind, name |-> "", qualified |-> FALSE, ctes |-> <<>>, parts |-> parts]
Base(name, qualified) == [Tree("base", <<>>) EXCEPT !.name = name, !.qualified = qualified]
Cte(name, node) == [name |-> name, node |-> node]

\* A token of a policy's expression: an identifier, plain or quoted, or anything else.
Token(kind, text) == [kind |-> kind, text |-> text]
Identifier(text) == Token("quoted", text)

\* The first argument of that name gives way to its column.
ReplacePolicyIdentifiers(expression, from, to) ==
  LET argument(token) == SelectInSeq(from, LAMBDA a : a = token.text)
      replaced(token) ==
        IF token.kind \in {"plain", "quoted"} /\ argument(token) \in 1..Len(to)
        THEN Identifier(to[argument(token)]) ELSE token
  IN  [i \in DOMAIN expression |-> replaced(expression[i])]

\* The word val gives way to the column, also between the quotes of an identifier: there
\* those put in close the ones around them, and what is left is no expression.
SubstituteValPlaceholder(expression, column) ==
  LET put == Token("plain", "val") :> Identifier(column) @@ Token("quoted", "val") :> Token("broken", column)
  IN  [i \in DOMAIN expression |-> IF expression[i] \in DOMAIN put THEN put[expression[i]] ELSE expression[i]]

\* The subquery that takes the place of a read; its own table is fully qualified.
BuildSecureSubquery(table, filter, masks) ==
  [Tree("secure", <<>>) EXCEPT !.name = table, !.qualified = TRUE]
    @@ [filter |-> filter, masks |-> masks]

ParseSecureSubquery(subquery) ==
  \A i \in DOMAIN subquery.masks : \A k \in DOMAIN subquery.masks[i].value :
    subquery.masks[i].value[k].kind # "broken"

-----------------------------------------------------------------------------
(* A visit returns the context and the tree it leaves.  The context holds  *)
(* the names of the common table expressions in scope; p has the views of  *)
(* the catalog, the bindings, and whether the caller is authenticated;     *)
(* visit[context][tree] is the visit of a tree one level below.            *)

Contexts == [names : Seq(STRING), error : BOOLEAN, denied : BOOLEAN]

Context == [names |-> <<>>, error |-> FALSE, denied |-> FALSE]

Stopped(ctx) == ctx.error \/ ctx.denied

Reject(ctx, p) == [ctx EXCEPT !.error = TRUE, !.denied = @ \/ ~p.authenticated]

Visited(ctx, tree) == [ctx |-> ctx, tree |-> tree]

RowsOf(p, table) == {i \in DOMAIN p.rows : p.rows[i].table = table}
MasksOf(p, table) == {i \in DOMAIN p.masks : p.masks[i].table = table}

IsBound(p, table) == RowsOf(p, table) # {} \/ MasksOf(p, table) # {}

\* The first row binding counts, and every mask.
Secure(p, table) ==
  LET filter == {ReplacePolicyIdentifiers(p.rows[i].expression, p.rows[i].args, p.rows[i].columns) :
                   i \in {k \in RowsOf(p, table) : \A n \in RowsOf(p, table) : k =< n}}
      masks == Kept(p.masks, MasksOf(p, table))
  IN  BuildSecureSubquery(table, filter,
        [i \in DOMAIN masks |->
           [column |-> masks[i].column,
            value |-> SubstituteValPlaceholder(masks[i].expression, masks[i].column)]])

RewriteBaseTable(tree, ctx, p) ==
  IF ~tree.qualified /\ Contains(ctx.names, tree.name) THEN Visited(ctx, tree)
  ELSE IF tree.name \in p.views THEN Visited(Reject(ctx, p), tree)
  ELSE IF ~IsBound(p, tree.name) THEN Visited(ctx, tree)
  ELSE IF ~p.authenticated THEN Visited([ctx EXCEPT !.denied = TRUE], tree)
  ELSE IF ~ParseSecureSubquery(Secure(p, tree.name)) THEN Visited(Reject(ctx, p), tree)
  ELSE Visited(ctx, Secure(p, tree.name))

\* Mutant of LeaveScope: the names of a node stay.
LeaveScopeNot(before, after) == after

\* ~CteScope
LeaveScope(before, after) == [after EXCEPT !.names = before.names]

\* The next part, unless one before it failed.
RewritePart(done, k, visit) ==
  LET v == visit[done.ctx][done.tree[k]]
  IN  IF Stopped(done.ctx) THEN done ELSE Visited(v.ctx, [done.tree EXCEPT ![k] = v.tree])

RewriteParts(parts, ctx, visit) ==
  LET done[k \in 0..Len(parts)] ==
        IF k = 0 THEN Visited(ctx, parts) ELSE RewritePart(done[k - 1], k, visit)
  IN  done[Len(parts)]

\* A definition sees the names before it; its own comes into scope behind it.
RewriteCte(done, k, p, visit) ==
  LET cte == done.tree[k]
      v == visit[done.ctx][cte.node]
  IN  IF Stopped(done.ctx) THEN done
      ELSE Visited(IF Stopped(v.ctx) THEN Reject(v.ctx, p) ELSE [v.ctx EXCEPT !.names = Append(@, cte.name)],
                   [done.tree EXCEPT ![k] = [cte EXCEPT !.node = v.tree]])

RewriteCtes(ctes, ctx, p, visit) ==
  LET done[k \in 0..Len(ctes)] ==
        IF k = 0 THEN Visited(ctx, ctes) ELSE RewriteCte(done[k - 1], k, p, visit)
  IN  done[Len(ctes)]

RewriteNode(tree, ctx, p, visit) ==
  LET ctes == RewriteCtes(tree.ctes, ctx, p, visit)
      parts == RewriteParts(tree.parts, ctes.ctx, visit)
  IN  IF Stopped(ctes.ctx) THEN Visited(LeaveScope(ctx, ctes.ctx), [tree EXCEPT !.ctes = ctes.tree])
      ELSE IF tree.kind = "recursive" THEN Visited(LeaveScope(ctx, Reject(ctes.ctx, p)), tree)
      ELSE Visited(LeaveScope(ctx, parts.ctx), [tree EXCEPT !.ctes = ctes.tree, !.parts = parts.tree])

RewriteInside(tree, ctx, visit) ==
  LET v == RewriteParts(tree.parts, ctx, visit) IN Visited(v.ctx, [tree EXCEPT !.parts = v.tree])

RewriteTableRef(tree, ctx, p, visit) ==
  CASE tree.kind = "base" -> RewriteBaseTable(tree, ctx, p)
    [] tree.kind = "function" -> Visited(Reject(ctx, p), tree)
    [] OTHER -> RewriteInside(tree, ctx, visit)

\* A nested query that is denied is also an error.
RewriteExpression(tree, ctx, p, visit) ==
  LET v == RewriteInside(tree, ctx, visit)
  IN  IF tree.kind = "macro" THEN Visited(Reject(ctx, p), tree)
      ELSE IF tree.kind = "subquery" /\ Stopped(v.ctx) THEN Visited(Reject(v.ctx, p), v.tree) ELSE v

RewriteTree(tree, ctx, p, visit) ==
  CASE tree.kind \in QueryNodes -> RewriteNode(tree, ctx, p, visit)
    [] tree.kind \in Expressions -> RewriteExpression(tree, ctx, p, visit)
    [] OTHER -> RewriteTableRef(tree, ctx, p, visit)

\* The visits of trees of n levels, given those of one level less.
Visits(n, p, visit) == [ctx \in Contexts |-> [tree \in Trees[n] |-> RewriteTree(tree, ctx, p, visit)]]

Rewriting(p) ==
  LET visits[n \in 0..MaxDepth] == IF n = 0 THEN <<>> ELSE Visits(n, p, visits[n - 1]) IN visits

\* What a request gets: 401, 403 or the rewritten handler.
RewriteHandlerWithPolicies(tree, p) ==
  LET v == Rewriting(p)[MaxDepth][Context][tree]
  IN  IF p.rows = <<>> /\ p.masks = <<>> THEN <<"run", tree>>
      ELSE IF v.ctx.denied THEN <<"denied", tree>>
      ELSE IF v.ctx.error THEN <<"error", tree>>
      ELSE <<"run", v.tree>>

-----------------------------------------------------------------------------
(* What the engine reads: a bare name is a common table expression if one  *)
(* of that name is visible, by the scoping rules of SQL.                   *)

VisibleIn(tree, visible) == visible \union {tree.ctes[i].name : i \in DOMAIN tree.ctes}
VisibleTo(tree, i, visible) == visible \union {tree.ctes[j].name : j \in 1..(i - 1)}

IsTable(tree, visible) == tree.kind = "base" /\ (tree.qualified \/ tree.name \notin visible)

\* The tables read in a tree, and the kinds of everything else.
SeenIn(tree, visible, below) ==
  {IF IsTable(tree, visible) THEN <<"table", tree.name>> ELSE <<tree.kind, "">>}
    \union (UNION {below[VisibleTo(tree, i, visible)][tree.ctes[i].node] : i \in DOMAIN tree.ctes})
    \union (UNION {below[VisibleIn(tree, visible)][tree.parts[i]] : i \in DOMAIN tree.parts})

Sights(n, below) == [visible \in SUBSET STRING |-> [tree \in Trees[n] |-> SeenIn(tree, visible, below)]]

Seen == LET seen[n \in 0..MaxDepth] == IF n = 0 THEN <<>> ELSE Sights(n, seen[n - 1]) IN seen

\* A tree with every read of a bound table secured, and nothing else changed.
ProtectedIn(tree, visible, p, below) ==
  IF IsTable(tree, visible) /\ IsBound(p, tree.name) THEN Secure(p, tree.name)
  ELSE [tree EXCEPT
          !.ctes = [i \in DOMAIN tree.ctes |->
                      [tree.ctes[i] EXCEPT !.node = below[VisibleTo(tree, i, visible)][@]]],
          !.parts = [i \in DOMAIN tree.parts |-> below[VisibleIn(tree, visible)][tree.parts[i]]]]

Protections(n, p, below) ==
  [visible \in SUBSET STRING |-> [tree \in Trees[n] |-> ProtectedIn(tree, visible, p, below)]]

Protected(p) ==
  LET protected[n \in 0..MaxDepth] == IF n = 0 THEN <<>> ELSE Protections(n, p, protected[n - 1]) IN protected

SeenBy(tree) == Seen[MaxDepth][{}][tree]

Tables(tree) == {l[2] : l \in {x \in SeenBy(tree) : x[1] = "table"}}

Bound(p) == {p.rows[i].table : i \in DOMAIN p.rows} \union {p.masks[i].table : i \in DOMAIN p.masks}

\* A table bound to what cannot be written into a query.
Unwritable(p, table) == IsBound(p, table) /\ ~ParseSecureSubquery(Secure(p, table))

Opaque(tree, p) ==
  \/ Tables(tree) \intersect p.views # {}
  \/ \E table \in Tables(tree) : Unwritable(p, table)
  \/ \E l \in SeenBy(tree) : l[1] \in {"function", "macro", "recursive"}

\* A handler runs with every read of a bound table secured, and is refused if it hides
\* something, if what secures it is no query, or if it reads such a table for somebody
\* unknown.
Enforced(tree, p, result) ==
  LET bound == Bound(p) # {}
      opaque == Opaque(tree, p)
      forbidden == ~p.authenticated /\ Tables(tree) \intersect Bound(p) # {}
  IN  /\ ~bound => result = <<"run", tree>>
      /\ bound /\ (opaque \/ forbidden) => result[1] = IF p.authenticated THEN "error" ELSE "denied"
      /\ bound /\ ~opaque /\ ~forbidden => result = <<"run", Protected(p)[MaxDepth][{}][tree]>>
=============================================================================
