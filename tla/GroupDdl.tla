------------------------------ MODULE GroupDdl ------------------------------
(***************************************************************************)
(* CREATE GROUP and DROP GROUP, from their text to the group that is       *)
(* registered (GroupDdlParse, ApplyGroupExec, src/src/quackapi_ddl.cpp).   *)
(* There are two forms, WITH (key = value, ...) and PREFIX ... TAGS ...    *)
(* REQUIRE ....  Tokens have a blank between any two; a string literal is   *)
(* one token.                                                              *)
(***************************************************************************)
EXTENDS Integers, Sequences, FiniteSets, SequencesExt

From(s, n) == SubSeq(s, n, Len(s))

Group == [action |-> "", replace |-> FALSE, name |-> "", prefix |-> "", require |-> "", tags |-> "", policy |-> ""]
Error == [Group EXCEPT !.action = "error"]
Core == [Group EXCEPT !.action = "core"]

\* The statement is trimmed: a phrase with its blank behind it has a token behind it.
Opens(phrase, s) == IsPrefix(phrase, s) /\ Len(s) > Len(phrase)

\* The texts of the literals.
Literals == "'/p'" :> "/p" @@ "'p'" :> "p" @@ "'t'" :> "t"
ParseQuotedString(token) == IF token \in DOMAIN Literals THEN Literals[token] ELSE token
IsQuoted(token) == token \in DOMAIN Literals
IsAbsolute(text) == text = "/p"

Field == "prefix" :> "prefix" @@ "auth" :> "require" @@ "require" :> "require" @@ "require_auth" :> "require"
           @@ "tags" :> "tags" @@ "policy" :> "policy"

\* A scanner: the group so far, what must come next, and the key it is for.
Scan(group, want) == [group |-> group, want |-> want, key |-> "", failed |-> FALSE]
Expect(p, want) == [p EXCEPT !.want = want]
Fail(p) == [p EXCEPT !.failed = TRUE]

SetOption(p, value) ==
  IF p.key \notin DOMAIN Field \/ (p.key = "prefix" /\ ~IsAbsolute(value)) THEN Fail(p)
  ELSE [Expect(p, "key") EXCEPT !.group[Field[p.key]] = value]

\* key = value, separated by commas or blanks; a comma in place of a value is an empty one.
ReadOption(p, token) ==
  CASE p.want = "key" -> IF token = "," THEN p ELSE [Expect(p, "equals") EXCEPT !.key = token]
    [] p.want = "equals" -> IF token = "=" THEN Expect(p, "value") ELSE Fail(p)
    [] p.want = "value" -> SetOption(p, IF token = "," THEN "" ELSE ParseQuotedString(token))

\* The list ends at the last parenthesis, and the statement with it.
WithOptions(group, s) ==
  LET scanned == FoldLeft(ReadOption, Scan(group, "key"), SubSeq(s, 2, Len(s) - 1))
  IN  IF \/ s = <<>> \/ Head(s) # "(" \/ Last(s) # ")"
         \/ scanned.failed \/ scanned.want # "key" \/ scanned.group.prefix = "" THEN Error
      ELSE scanned.group

ReadClause(p, token) ==
  CASE p.want = "clause" -> IF token \in {"TAGS", "REQUIRE"} THEN Expect(p, token) ELSE Fail(p)
    [] p.want = "TAGS" ->
         IF IsQuoted(token) THEN [Expect(p, "clause") EXCEPT !.group.tags = ParseQuotedString(token)] ELSE Fail(p)
    [] p.want = "REQUIRE" -> [Expect(p, "clause") EXCEPT !.group.require = token]

PrefixClauses(group, s) ==
  IF s = <<>> \/ ~IsQuoted(Head(s)) \/ ~IsAbsolute(ParseQuotedString(Head(s))) THEN Error
  ELSE LET scanned == FoldLeft(ReadClause, Scan([group EXCEPT !.prefix = ParseQuotedString(Head(s))], "clause"), Tail(s))
       IN  IF scanned.failed \/ scanned.want # "clause" THEN Error ELSE scanned.group

\* Behind the phrase: the name and one of the two forms.
CreateGroup(s, replace) ==
  LET group == [Group EXCEPT !.action = "CREATE", !.replace = replace, !.name = s[1]]
  IN  CASE Len(s) > 1 /\ s[2] = "WITH" -> WithOptions(group, From(s, 3))
        [] Len(s) > 1 /\ s[2] = "PREFIX" -> PrefixClauses(group, From(s, 3))
        [] OTHER -> Error

DropGroup(s) == IF Len(s) = 1 THEN [Group EXCEPT !.action = "DROP", !.name = s[1]] ELSE Error

GroupDdlParse(s) ==
  CASE Opens(<<"DROP", "API", "GROUP">>, s) -> DropGroup(From(s, 4))
    [] Opens(<<"DROP", "GROUP">>, s) -> DropGroup(From(s, 3))
    [] Opens(<<"CREATE", "OR", "REPLACE", "API", "GROUP">>, s) -> CreateGroup(From(s, 6), TRUE)
    [] Opens(<<"CREATE", "OR", "REPLACE", "GROUP">>, s) -> CreateGroup(From(s, 5), TRUE)
    [] Opens(<<"CREATE", "API", "GROUP">>, s) -> CreateGroup(From(s, 4), FALSE)
    [] Opens(<<"CREATE", "GROUP">>, s) -> CreateGroup(From(s, 3), FALSE)
    [] OTHER -> Core

-----------------------------------------------------------------------------
(* What makes a reading right: each value of the text is in the group, in  *)
(* its place, and nothing else is.                                         *)

Option(key, value) == IF value = "" THEN <<>> ELSE <<",", key, "=", value>>
Clause(key, value) == IF value = "" THEN <<>> ELSE <<key, value>>
Quote(text) == IF text = "" THEN "" ELSE CHOOSE token \in DOMAIN Literals : Literals[token] = text

\* form: "with" or "prefix", which has no policy.
Rendered(g, form) ==
  LET api == IF form = "with" THEN <<"API", "GROUP", g.name>> ELSE <<"GROUP", g.name>>
      verb == IF g.replace THEN <<"CREATE", "OR", "REPLACE">> ELSE <<"CREATE">>
  IN  IF g.action = "DROP" THEN <<"DROP">> \o api
      ELSE IF form = "with"
      THEN verb \o api \o <<"WITH", "(", "prefix", "=", Quote(g.prefix)>> \o Option("auth", g.require)
             \o Option("tags", Quote(g.tags)) \o Option("policy", g.policy) \o <<")">>
      ELSE verb \o api \o <<"PREFIX", Quote(g.prefix)>> \o Clause("REQUIRE", g.require) \o Clause("TAGS", Quote(g.tags))

\* A slip of the author: one token left out, or written twice, or none of either.
Edits(g, form) == [how : {"none"}, at : {1}] \union [how : {"omit", "double"}, at : 1..Len(Rendered(g, form))]

Edited(g, form, edit) ==
  LET s == Rendered(g, form) IN
  CASE edit.how = "none" -> s
    [] edit.how = "omit" -> RemoveAt(s, edit.at)
    [] edit.how = "double" -> InsertAt(s, edit.at, s[edit.at])

Noise == {"CREATE", "OR", "REPLACE", "DROP", "API", "GROUP", "WITH", "(", ")", ",", "=", "prefix", "auth", "tags",
          "policy", "PREFIX", "REQUIRE", "TAGS"}
Values(s) == SelectSeq(s, LAMBDA token : token \notin Noise)

ReadBack(g, form, edit, read) ==
  /\ edit.how = "none" => read = g
  /\ read.action \notin {"error", "core"} =>
       LET s == Edited(g, form, edit)
       IN  /\ read.replace = Contains(s, "REPLACE") /\ (read.action = "DROP") = Contains(s, "DROP")
           /\ Values(Rendered(read, form)) = Values(s)
=============================================================================
