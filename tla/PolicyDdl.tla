----------------------------- MODULE PolicyDdl -----------------------------
(***************************************************************************)
(* The statements about row access and masking policies, from their text   *)
(* to the call of the registry (PolicyDdlParse,                            *)
(* src/src/quackapi_policy.cpp).                                           *)
(*                                                                         *)
(* A statement is a sequence of tokens with a blank between any two, except *)
(* around the dots of a table's name.  Keywords and types, compared without *)
(* case, are in upper case; a string literal is one token, whatever         *)
(* parentheses it holds.  What is read is a record of what the statement   *)
(* declares, an error for the author, or left to the engine's own parser.  *)
(***************************************************************************)
EXTENDS Integers, Sequences, FiniteSets, SequencesExt

From(s, n) == SubSeq(s, n, Len(s))

Data ==
  [action |-> "", replace |-> FALSE, name |-> "", type |-> "", columns |-> <<>>, types |-> <<>>,
   expression |-> <<>>, table |-> <<>>, column |-> ""]

Error == [Data EXCEPT !.action = "error"]
Core == [Data EXCEPT !.action = "core"]
Result(read) == IF read = {} THEN Error ELSE CHOOSE d \in read : TRUE

\* The statement is trimmed: a phrase with its blank behind it has a token behind it.
Opens(phrase, s) == IsPrefix(phrase, s) /\ Len(s) > Len(phrase)

IsIdentStart(token) == token \notin {"(", ")", ".", ",", "1", "'x('", "=", "\"q\""}

Depth(s, i) ==
  Cardinality({j \in 1..i : s[j] = "("}) - Cardinality({j \in 1..i : s[j] = ")"})

\* What stands in the parentheses the text begins with, and what is left behind them.
ExtractParenGroup(s) ==
  LET closing == {i \in 1..Len(s) : s[1] = "(" /\ Depth(s, i) = 0}
  IN  {[inner |-> SubSeq(s, 2, i - 1), rest |-> From(s, i + 1)] : i \in {i \in closing : \A j \in closing : i =< j}}

Canonical(type) ==
  CASE type = "INT" -> "INTEGER"
    [] type = "BOOL" -> "BOOLEAN"
    [] type \in {"TEXT", "STRING"} -> "VARCHAR"
    [] type = "REAL" -> "FLOAT"
    [] OTHER -> type

\* Names with or without a type.  A comma only ends a name: it may be left out, or doubled.
ParseColList(inner) ==
  LET none == [columns |-> <<>>, types |-> <<>>, typed |-> TRUE, failed |-> FALSE]
      read(l, token) ==
        IF token = "," THEN [l EXCEPT !.typed = TRUE]
        ELSE IF ~IsIdentStart(token) THEN [l EXCEPT !.failed = TRUE]
        ELSE IF l.typed THEN [l EXCEPT !.columns = Append(@, token), !.types = Append(@, ""), !.typed = FALSE]
        ELSE [l EXCEPT !.types[Len(l.types)] = Canonical(token), !.typed = TRUE]
      list == FoldLeft(read, none, inner)
  IN  IF list.failed \/ list.columns = <<>> THEN {} ELSE {list}

\* USING ( <expression> ) up to the end.
Using(s) ==
  IF ~IsPrefix(<<"USING">>, s) THEN {}
  ELSE {g.inner : g \in {h \in ExtractParenGroup(Tail(s)) : h.inner # <<>> /\ h.rest = <<>>}}

-----------------------------------------------------------------------------
(* The statements, behind the phrase that opens them. *)

\* One name and nothing behind it.
Named(s, d) == IF Len(s) = 1 THEN [d EXCEPT !.name = s[1]] ELSE Error

CreateRow(s, replace) ==
  LET groups == IF Len(s) > 1 /\ s[2] = "AS" THEN ExtractParenGroup(From(s, 3)) ELSE {}
      typed == {g \in groups : IsPrefix(<<"RETURNS", "BOOLEAN">>, g.rest)}
      made(g, l, e) == [Data EXCEPT !.action = "CREATE_ROW", !.replace = replace, !.name = s[1],
                                    !.columns = l.columns, !.types = l.types, !.expression = e]
  IN  Result(UNION {{made(g, l, e) : l \in ParseColList(g.inner), e \in Using(From(g.rest, 3))} : g \in typed})

CreateMask(s, replace) ==
  LET made(e) == [Data EXCEPT !.action = "CREATE_MASK", !.replace = replace, !.name = s[1],
                              !.type = Canonical(s[3]), !.expression = e]
  IN  Result({made(e) : e \in IF Len(s) > 3 /\ s[2] = "ON" THEN Using(From(s, 4)) ELSE {}})

BindRow(s, table, replace) ==
  LET groups == IF Len(s) > 1 /\ s[2] = "ON" THEN {g \in ExtractParenGroup(From(s, 3)) : g.rest = <<>>} ELSE {}
      made(l) == [Data EXCEPT !.action = "BIND_ROW", !.replace = replace, !.name = s[1], !.table = table,
                              !.columns = l.columns]
  IN  Result(UNION {{made(l) : l \in ParseColList(g.inner)} : g \in groups})

\* SET always replaces.  What follows UNSET MASKING POLICY is not looked at.
AlterColumn(s, table) ==
  LET bound == [Data EXCEPT !.action = "BIND_MASK", !.replace = TRUE, !.table = table, !.column = s[1]]
      set == From(s, 2)
  IN  IF s[1] = "\"q\"" THEN Error
      ELSE IF Opens(<<"SET", "MASKING", "POLICY">>, set) THEN Named(From(set, 4), bound)
      ELSE IF \/ IsPrefix(<<"UNSET", "MASKING", "POLICY">>, set)
              \/ IsPrefix(<<"DROP", "MASKING", "POLICY">>, set)
      THEN [Data EXCEPT !.action = "UNBIND_MASK", !.table = table, !.column = s[1]]
      ELSE Core

\* The tokens of a qualified name.
NameLength(s) ==
  LET dotted == {k \in 0..Len(s) : \A j \in 1..k : 2 * j < Len(s) /\ s[2 * j] = "."}
  IN  1 + 2 * (CHOOSE k \in dotted : \A j \in dotted : j =< k)

AlterTable(s) ==
  LET n == NameLength(s)
      table == SubSeq(s, 1, n)
      rest == From(s, n + 1)
      policy == <<"ROW", "ACCESS", "POLICY">>
  IN  CASE Opens(<<"ADD", "OR", "REPLACE">> \o policy, rest) -> BindRow(From(rest, 7), table, TRUE)
        [] Opens(<<"ADD">> \o policy, rest) -> BindRow(From(rest, 5), table, FALSE)
        [] Opens(<<"DROP">> \o policy, rest) ->
             Named(From(rest, 5), [Data EXCEPT !.action = "UNBIND_ROW", !.table = table])
        [] Opens(<<"MODIFY", "COLUMN">>, rest) \/ Opens(<<"ALTER", "COLUMN">>, rest) ->
             AlterColumn(From(rest, 3), table)
        [] OTHER -> Core

PolicyDdlParse(s) ==
  LET row == <<"ROW", "ACCESS", "POLICY">>
      mask == <<"MASKING", "POLICY">>
      replace == <<"CREATE", "OR", "REPLACE">>
  IN  CASE Opens(<<"DROP">> \o row, s) -> Named(From(s, 5), [Data EXCEPT !.action = "DROP_ROW"])
        [] Opens(<<"DROP">> \o mask, s) -> Named(From(s, 4), [Data EXCEPT !.action = "DROP_MASK"])
        [] Opens(replace \o row, s) -> CreateRow(From(s, 7), TRUE)
        [] Opens(<<"CREATE">> \o row, s) -> CreateRow(From(s, 5), FALSE)
        [] Opens(replace \o mask, s) -> CreateMask(From(s, 6), TRUE)
        [] Opens(<<"CREATE">> \o mask, s) -> CreateMask(From(s, 4), FALSE)
        [] Opens(<<"ALTER", "TABLE">>, s) -> AlterTable(From(s, 3))
        [] OTHER -> Core

-----------------------------------------------------------------------------
(* What makes a reading right: written out again, it is the statement.     *)

Listed(columns, types) ==
  LET one(i) == <<columns[i]>> \o (IF types = <<>> \/ types[i] = "" THEN <<>> ELSE <<types[i]>>)
  IN  FoldLeft(LAMBDA text, i : text \o (IF i = 1 THEN <<>> ELSE <<",">>) \o one(i), <<>>,
               [i \in 1..Len(columns) |-> i])

InParens(s) == <<"(">> \o s \o <<")">>

\* The statement that declares d, as the documentation writes it.
Rendered(d) ==
  LET verb(v) == IF d.replace THEN <<v, "OR", "REPLACE">> ELSE <<v>>
      row == <<"ROW", "ACCESS", "POLICY">>
      mask == <<"MASKING", "POLICY">>
      alter == <<"ALTER", "TABLE">> \o d.table
  IN  CASE d.action = "CREATE_ROW" ->
             verb("CREATE") \o row \o <<d.name, "AS">> \o InParens(Listed(d.columns, d.types))
               \o <<"RETURNS", "BOOLEAN", "USING">> \o InParens(d.expression)
        [] d.action = "CREATE_MASK" ->
             verb("CREATE") \o mask \o <<d.name, "ON", d.type, "USING">> \o InParens(d.expression)
        [] d.action = "DROP_ROW" -> <<"DROP">> \o row \o <<d.name>>
        [] d.action = "DROP_MASK" -> <<"DROP">> \o mask \o <<d.name>>
        [] d.action = "BIND_ROW" ->
             alter \o verb("ADD") \o row \o <<d.name, "ON">> \o InParens(Listed(d.columns, d.types))
        [] d.action = "UNBIND_ROW" -> alter \o <<"DROP">> \o row \o <<d.name>>
        [] d.action = "BIND_MASK" -> alter \o <<"ALTER", "COLUMN", d.column, "SET">> \o mask \o <<d.name>>
        [] d.action = "UNBIND_MASK" -> alter \o <<"ALTER", "COLUMN", d.column, "UNSET">> \o mask

\* A slip of the author: one token left out, or written twice, or none of either.
Edits(d) == [how : {"none"}, at : {1}] \union [how : {"omit", "double"}, at : 1..Len(Rendered(d))]

Edited(d, edit) ==
  LET s == Rendered(d) IN
  CASE edit.how = "none" -> s
    [] edit.how = "omit" -> RemoveAt(s, edit.at)
    [] edit.how = "double" -> InsertAt(s, edit.at, s[edit.at])

\* Up to commas, to the types of a binding's columns, which are ignored, and to what
\* follows UNSET MASKING POLICY.
SameText(d, s) ==
  LET words(t) == SelectSeq(t, LAMBDA w : w # ",")
      again == words(Rendered(d))
  IN  IF d.action = "UNBIND_MASK" THEN IsPrefix(again, words(s))
      ELSE IF d.action = "BIND_ROW" THEN ToSet(again) \subseteq ToSet(s)
      ELSE again = words(s)

ReadBack(d, edit, read) ==
  /\ edit.how = "none" => read = d
  /\ read.action \notin {"error", "core"} => SameText(read, Edited(d, edit))
=============================================================================
