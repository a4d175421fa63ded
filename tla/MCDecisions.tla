---------------------------- MODULE MCDecisions ----------------------------
(* Decisions for TLC. *)
EXTENDS Decisions

UpTo2(S) == {<<>>} \union {<<s>> : s \in S} \union {<<s, t>> : s, t \in S}

PathOf(segments, slashes) == Routing!PathOf(segments, slashes)
a == Routing!Literal("a")
x == Routing!Capture("x")
Registered(m, p, l) == [method |-> m, pattern |-> p, limit |-> l]

MCWords ==
  {"a", "b", "x", "docs", "graphql", "m", "health", "json", "csv", "ndjson", "*/*", "html",
   "expected", "application/*", "text/*"}

\* Two routes that may overlap or shadow each other, a stream beside them; the limit
\* of a GET route is above, the default below what the server takes at most.
MCServers ==
  LET patterns == {PathOf(<<>>, 0), PathOf(<<a>>, 0), PathOf(<<a>>, 1), PathOf(<<x>>, 0), PathOf(<<a, x>>, 0)}
      routes == {Registered(m, p, IF m = "GET" THEN 3 ELSE 0) : m \in {"GET", "HEAD", "POST"}, p \in patterns}
      streams == {Registered(m, p, 0) : m \in {"GET", "WS"}, p \in {PathOf(<<a>>, 0), PathOf(<<x>>, 1)}}
  IN  [routes : UpTo2(routes), streams : {<<>>} \union {<<s>> : s \in streams}, cors : BOOLEAN,
       health : {TRUE}, mounts : {{<<"m">>}}, limit : {1}, hard : {2}]

MCRouteRequests ==
  [method : {"GET", "HEAD", "POST", "OPTIONS"}, size : {0, 2, 3},
   path : {PathOf(s, n) : s \in {<<>>, <<"a">>}, n \in 0..2}
            \union {PathOf(<<"a", "b">>, 0), PathOf(<<"docs">>, 1), PathOf(<<"graphql">>, 0),
                    PathOf(<<"m">>, 1), PathOf(<<"health">>, 0)}]

Tokens(names, weights) == [name : names, weight : weights]

MCResponses ==
  [response : [status : {200, 204}, type : {"json", "image"}, size : {0, 4, 9}, packed : {3, 9}, encoded : BOOLEAN],
   options : [mode : {"off", "gzip", "zstd", "auto"}, minBytes : {4}]]

MCEncodingHeaders == UpTo2(Tokens({"zstd", "gzip", "*"}, {Wire!Absent, 0, 5, Wire!Malformed}))
MCOtherHeaders == {<<>>} \union {<<t>> : t \in Tokens({"zstd", "gzip"}, {Wire!Absent})}
MCAcceptHeaders ==
  LET t == Tokens({"json", "csv", "ndjson", "*/*", "html"}, {Wire!Absent, 0, 5, 15})
  IN  UpTo2(t) \union {<<b, c, d>> : b, c, d \in t}
MCRangeHeaders ==
  LET t == Tokens({"expected", "application/*", "*/*", "text/*"}, {Wire!Absent, 0, 5})
  IN  UpTo2(t) \union {<<b, c, d>> : b, c, d \in t}

\* Declarations of the parameter x_t, and none.
Declared ==
  LET typed == {<<"", {}>>, <<"INTEGER", {[op |-> "ge", than |-> 0]}>>, <<"UINTEGER", {}>>,
                <<"VARIANT", {}>>, <<"VARIANT", {[op |-> "lt", than |-> 100]}>>,
                <<"VARCHAR", {[op |-> "max_length", than |-> 2]}>>}
      spec(s, e, d, t) == [source |-> s, external |-> e, default |-> d, type |-> t[1], bounds |-> t[2]]
  IN  {"x_t" :> spec(s, e, d, t) : s \in {"query", "header", "cookie"}, e \in {"", "w"},
                                   d \in {"none", "null", "7", "abc"}, t \in typed}

\* The type is declared or the planner's, or both, and not the same; the capture is
\* spelled as the parameter is or otherwise.
MCBoundRoutes ==
  LET route(captures, exact, specs, planned, shapes) ==
        [params : {{"x_t", "claims_sub"}}, captures : {captures}, exact : {exact}, specs : specs,
         planned : planned, shape : shapes]
      own == {"x_t"}
      specs == Declared \union {<<>>}
  IN  route({}, {}, specs, {"UNKNOWN"}, {"none", "schema", "type"})
      \union route(own, own, specs, {"UNKNOWN"}, {"none", "schema", "type"})
      \union route(own, {}, specs, {"UNKNOWN"}, {"none"})
      \union route({}, {}, {d \in specs : d = <<>> \/ d["x_t"].source = "query"}, {"INTEGER", "UINTEGER"}, {"none"})
      \union {[r EXCEPT !.params = {"x_t", "body"}] : r \in route({}, {}, {<<>>}, {"INTEGER", "VARIANT"}, {"none"})}

Body(shape, fields, file) ==
  [shape |-> shape, fields |-> fields, file |-> file, text |-> IF shape = "empty" THEN "" ELSE "{}", conforms |-> shape # "empty"]
Field(text, json) == [text |-> text, json |-> json]
Nothing == <<>>

\* Bodies, with their method and media type.
Sent ==
  LET json(f) == [method |-> "POST", media |-> "json", body |-> Body("object", f, "")]
      other(media, f, file) == [method |-> "POST", media |-> media, body |-> Body("text", f, file)]
      form == "x_t" :> Field("12", "text") @@ "w" :> Field("7", "text")
  IN  {[method |-> "GET", media |-> "", body |-> Body("empty", Nothing, "")]}
      \union {json("x_t" :> f) : f \in {Field("7", "number"), Field("7", "text"), Field("", "null")}}
      \union {json("w" :> Field("7", "number")),
              [method |-> "POST", media |-> "json", body |-> Body("empty", Nothing, "")],
              [method |-> "POST", media |-> "", body |-> Body("array", Nothing, "")],
              [json("x_t" :> Field("7", "number")) EXCEPT !.body.conforms = FALSE],
              other("form", form, ""), other("multipart", form, "abc"), other("text", Nothing, "")}

MCBoundRequests ==
  {[query |-> q, headers |-> h, cookies |-> c, path |-> p, claim |-> "abc"] @@ s :
     q \in {Nothing, "w" :> "12", "x_t" :> "1.5" @@ "w" :> "-3"} \union {"x_t" :> t : t \in {"7", "-3", "abc", "\\xff"}},
     h \in {Nothing, "x-t" :> "12" @@ "w" :> "abc"}, c \in {Nothing, "x_t" :> "-3"},
     p \in {Nothing, "x_t" :> "7"}, s \in Sent}

-----------------------------------------------------------------------------
MCGroups ==
  {[g |-> [prefix |-> <<a>>, require |-> "k"], v |-> [prefix |-> <<a, x>>, require |-> ""],
    top |-> [prefix |-> <<>>, require |-> "k"]]}

\* Without "//": a doubled slash is one trailing slash below a prefix and none of its own.
MCGroupPatterns ==
  LET b == Routing!Literal("b")
      at(absolute, segments, slashes) == [absolute |-> absolute, segments |-> segments, slashes |-> slashes]
  IN  {at(TRUE, <<>>, 0), at(FALSE, <<a>>, 0), at(FALSE, <<b>>, 0)}
      \union {at(TRUE, s, n) : s \in {<<a>>, <<a, x>>, <<b>>, <<x>>}, n \in 0..1}

MCPaths ==
  {[absolute |-> TRUE, segments |-> s, slashes |-> n] :
     s \in {<<"a">>, <<"b">>, <<"a", "b">>}, n \in 0..1}
  \union {[absolute |-> TRUE, segments |-> <<>>, slashes |-> 0]}

\* The clauses of CREATE ROUTE, legal and not.
W(w) == Ddl!Word(w)
T(w) == Ddl!Quoted(w)
Says(words, sets) == Ddl!Written(words, sets, TRUE)
Wrong(words) == Ddl!Written(words, <<>>, FALSE)

Cron == "0 0 * * * *"

Leading ==
  {Says(<<W("STATUS"), W("200")>>, [status |-> 200]), Wrong(<<W("STATUS"), W("700")>>),
   Says(<<W("RATE"), W("LIMIT"), W("7"), W("PER"), W("30")>>, [rate |-> 7, per |-> 30, by |-> "ip"]),
   Says(<<W("RATE"), W("LIMIT"), W("7"), W("PER"), W("200"), W("BY"), W("key")>>,
        [rate |-> 7, per |-> 200, by |-> "token"]),
   Wrong(<<W("RATE"), W("LIMIT"), W("0"), W("PER"), W("30")>>),
   Says(<<W("REQUIRE"), W("other")>>, [require |-> "other"]),
   Says(<<W("FORMAT"), W("arrows")>>, [format |-> "arrow"]), Says(<<W("FORMAT"), W("json")>>, [format |-> "json"]),
   Says(<<W("ENVELOPE"), W("object")>>, [envelope |-> "object"]),
   Says(<<W("EMPTY"), W("STATUS"), W("200")>>, [empty |-> 200]),
   Says(<<W("EMPTY"), W("STATUS"), W("200"), W("BODY"), T("{}")>>, [empty |-> 200, emptyBody |-> "{}"]),
   Says(<<W("TIMEOUT"), W("30s")>>, [timeout |-> 30]), Says(<<W("TIMEOUT"), T("24h")>>, [timeout |-> 86400]),
   Wrong(<<W("TIMEOUT"), W("25h")>>), Wrong(<<W("TIMEOUT"), W("9x")>>),
   Says(<<W("SCHEDULE"), T(Cron)>>, [schedule |-> Cron]), Wrong(<<W("SCHEDULE"), T("* *")>>),
   Says(<<W("GROUP"), W("g")>>, [group |-> "g"]), Says(<<W("IN"), W("GROUP"), W("v")>>, [group |-> "v"]),
   Says(<<W("GROUP"), W("top")>>, [group |-> "top"]), Says(<<W("GROUP"), W("none")>>, [group |-> "none"])}

Schema(text) == Says(<<W("BODY"), W("SCHEMA"), T(text)>>, [schema |-> text])
BodyType == Says(<<W("BODY"), W("TYPE"), T("[]")>>, [type |-> "[]"])

Param(words, spec) == Says(<<W("PARAM"), W("p")>> \o words, [params |-> <<spec>>])
P == Ddl!NoParam("p")

Declarations ==
  {Param(<<>>, P), Param(<<W("HEADER")>>, [P EXCEPT !.source = "header"]),
   Param(<<W("INTEGER"), W("COOKIE"), T("c"), W("GE"), W("7"), W("GE"), W("0")>>,
         [P EXCEPT !.type = "INTEGER", !.source = "cookie", !.wire = "c", !.bounds = {[op |-> "GE", than |-> 0]}]),
   Param(<<W("DEFAULT"), W("NULL"), W("QUERY"), W("w")>>, [P EXCEPT !.default = "null", !.wire = "w"]),
   Param(<<W("VARCHAR"), W("HEADER"), W("DEFAULT"), T("7"), W("MAX_LENGTH"), W("30")>>,
         [P EXCEPT !.type = "VARCHAR", !.source = "header", !.default = "7",
                   !.bounds = {[op |-> "MAX_LENGTH", than |-> 30]}]),
   Wrong(<<W("PARAM"), W("p"), W("GE"), W("abc")>>)}

With(words, sets) == Says(<<W("WITH"), W("(")>> \o words \o <<W(")")>>, sets)

\* What stands behind the parameters, in the order the grammar has.
Trailing ==
  {<<>>, <<Says(<<W("SCHEDULE"), T(Cron)>>, [schedule |-> Cron])>>,
   <<Says(<<W("TIMEOUT"), W("7")>>, [timeout |-> 7])>>,
   <<BodyType, Says(<<W("TIMEOUT"), W("7")>>, [timeout |-> 7]),
     With(<<W("max_request_bytes"), W("7")>>, [bytes |-> 7])>>,
   <<With(<<W("timeout_sec"), W("30s"), W("max_request_bytes"), W("30")>>, [timeout |-> 30, bytes |-> 30])>>,
   <<Wrong(<<W("WITH"), W("("), W(")")>>)>>,
   <<Wrong(<<W("WITH"), W("("), W("max_request_bytes"), W("0"), W(")")>>)>>}

Statement(l, b, p, t, h) == [lead |-> l, body |-> b, params |-> p, tail |-> t, handler |-> h]

Some2(S) == {<<>>} \union {<<s>> : s \in S} \union {<<s, t>> : s, t \in S}

MCStatements ==
  {Statement(l, <<>>, <<>>, <<>>, "SELECT 1") : l \in Some2(Leading)}
  \union {Statement(<<l>>, b, p, t, "SELECT 1") :
            l \in Leading, b \in {<<>>, <<Schema("{}")>>, <<BodyType>>, <<Schema("{}"), BodyType>>},
            p \in {<<>>} \union {<<d>> : d \in Declarations}, t \in Trailing}
  \union {Statement(<<>>, <<Schema("{")>>, <<d, e>>, t, h) :
            d \in Declarations, e \in Declarations, t \in Trailing, h \in {"SELECT 1"}}
  \union {Statement(<<l>>, <<>>, <<>>, <<>>, h) : l \in Leading, h \in {"$sql", "$claims_sub", "SELEC"}}

-----------------------------------------------------------------------------
\* Groups and policies as their authors mean them.
MCGroupDeclarations ==
  {[GroupText!Group EXCEPT !.action = "DROP", !.name = "g"]}
  \union [action : {"CREATE"}, replace : BOOLEAN, name : {"g"}, prefix : {"/p"}, require : {"", "k"},
          tags : {"", "t"}, policy : {"", "o"}]

MCPolicyDeclarations ==
  LET d(action) == [PolicyText!Data EXCEPT !.action = action, !.name = "n"]
      expressions == {<<"x">>, <<"x", "=", "'x('">>, <<"(", "x", ")", "OR", "f", "(", "y", ")">>}
      lists == {<< <<"x">>, <<"">> >>, << <<"x", "y">>, <<"INTEGER", "">> >>}
      tables == {<<"t">>, <<"s", ".", "t">>}
  IN  {d("DROP_ROW"), d("DROP_MASK")}
      \union {[d("CREATE_ROW") EXCEPT !.replace = r, !.columns = l[1], !.types = l[2], !.expression = e] :
                r \in BOOLEAN, l \in lists, e \in expressions}
      \union {[d("CREATE_MASK") EXCEPT !.replace = r, !.type = "VARCHAR", !.expression = e] :
                r \in BOOLEAN, e \in expressions}
      \union {[d("BIND_ROW") EXCEPT !.replace = r, !.table = t, !.columns = l[1]] :
                r \in BOOLEAN, t \in tables, l \in lists}
      \union {[d("UNBIND_ROW") EXCEPT !.table = t] : t \in tables}
      \union {[d("BIND_MASK") EXCEPT !.replace = TRUE, !.table = t, !.column = c] : t \in tables, c \in {"x"}}
      \union {[d("UNBIND_MASK") EXCEPT !.name = "", !.table = t, !.column = "x"] : t \in tables}

-----------------------------------------------------------------------------
\* A table "p" with a row filter, a masked column or both, a table "q", a view "v".
\* The arguments of the filter and its columns have each other's names; one mask has its
\* placeholder in quotes.
MCPolicies ==
  LET token(k, t) == Policy!Token(k, t)
      filter == [table |-> "p", args |-> <<"x", "y">>, columns |-> <<"y", "x">>,
                 expression |-> <<token("plain", "x"), token("other", "="), token("quoted", "y"), token("string", "x")>>]
      mask == [table |-> "p", column |-> "z", expression |-> <<token("plain", "val"), token("string", "val")>>]
      quoted == [mask EXCEPT !.expression = <<token("quoted", "val")>>]
      bound(rows, masks) == [rows : rows, masks : masks, views : {{"v"}}, authenticated : BOOLEAN]
  IN  bound({<<>>, <<filter>>}, {<<>>, <<mask>>}) \union bound({<<>>}, {<<quoted>>})

Select(ctes, parts) == [Policy!Tree("select", parts) EXCEPT !.ctes = ctes]

\* Sources without depth, and the queries over one of them.
Sources0 ==
  {Policy!Base(n, FALSE) : n \in {"p", "q", "v"}} \union {Policy!Base("p", TRUE), Policy!Tree("function", <<>>)}
Queries0 == {Select(<<>>, <<s>>) : s \in Sources0} \union {Policy!Tree("recursive", <<>>)}

With1 == {<<>>} \union {<<Policy!Cte(n, q)>> : n \in {"p", "v"}, q \in Queries0}
With2 == With1 \union {<<Policy!Cte(n, q), Policy!Cte(k, r)>> : n, k \in {"p", "q"}, q, r \in Queries0}

Sub(q) == Policy!Tree("subquery", <<q>>)
Join(s, t, cond) == Policy!Tree("join", <<s, t, cond>>)
Plain == Policy!Tree("expr", <<>>)

\* Queries with common table expressions, and a nested query in FROM, in a condition or
\* in the list.
Parts1 ==
  {<<s>> : s \in Sources0} \union {<<Policy!Tree("derived", <<q>>)>> : q \in Queries0}
  \union {<<Join(s, t, Plain)>> : s, t \in Sources0}
  \union {<<s, Policy!Tree("expr", <<Sub(q)>>)>> : s \in Sources0, q \in Queries0}
  \union {<<Policy!Tree("empty", <<>>), Policy!Tree("macro", <<Plain>>)>>}
Queries1 == {Select(w, parts) : w \in With1, parts \in Parts1} \union {Select(w, <<s>>) : w \in With2, s \in Sources0}

\* A query beside a table, on either side, and inside a query with expressions of its own.
MCSqlHandlers ==
  LET beside == {Policy!Base("p", FALSE), Policy!Base("q", FALSE)}
      small == {Select(w, <<s>>) : w \in With1, s \in Sources0}
  IN  Queries1
      \union {Select(<<>>, <<Join(Policy!Tree("derived", <<q>>), s, Plain)>>) : q \in Queries1, s \in beside}
      \union {Select(w, <<Policy!Tree("derived", <<q>>)>>) : w \in With1, q \in small}
      \union {Select(<<>>, <<Policy!Tree(k, <<s, Sub(q)>>), s>>) : k \in {"pivot", "values"}, q \in small, s \in beside}
      \union {Policy!Tree("set", <<q, Select(<<>>, <<s>>), Sub(r)>>) : q \in small, s \in beside, r \in Queries0}
=============================================================================
