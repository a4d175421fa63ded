-------------------------- MODULE ParameterBinding --------------------------
(***************************************************************************)
(* How the values of a request reach the named parameters of a handler:    *)
(* the order in which query, path, header, cookie and body are laid over   *)
(* each other, and the checks a value passes before it is bound            *)
(* (QuackapiHttpServer::HandleRequest, src/src/quackapi_server.cpp).       *)
(*                                                                         *)
(* route    params: the names in the handler SQL; captures: those in the   *)
(*          path pattern, and exact: the captures that the SQL spells the  *)
(*          same, case included; specs: the PARAM declarations, by name;   *)
(*          planned: the type the prepared statement expects; shape:       *)
(*          "schema" with a BODY SCHEMA, "type" with a BODY TYPE, else     *)
(*          "none"                                                         *)
(* request  query, headers, cookies: text by name; path: text by capture;  *)
(*          method, media, body: its shape, fields and uploaded file       *)
(* Text is one of a few literals, with what conversions make of them.      *)
(* Names are compared without case, but for IsPathParam, and are in lower  *)
(* case here.                                                              *)
(***************************************************************************)
EXTENDS Integers, Sequences, FiniteSets, TLC

Lookup(f, name) == IF name \in DOMAIN f THEN {f[name]} ELSE {}

\* One layer over another.
Over(upper, lower) ==
  [name \in DOMAIN upper \union DOMAIN lower |-> IF name \in DOMAIN upper THEN upper[name] ELSE lower[name]]

Entry(loc, text) == [loc |-> loc, text |-> text]
From(loc, f) == [name \in DOMAIN f |-> Entry(loc, f[name])]

-----------------------------------------------------------------------------
(* Text and conversions.  Numbers are in tenths. *)

Number ==
  [text \in {"7", "12", "-3", "1.5"} |->
     CASE text = "7" -> 70 [] text = "12" -> 120 [] text = "-3" -> -30 [] text = "1.5" -> 15]
Length == "7" :> 1 @@ "12" :> 2 @@ "-3" :> 2 @@ "1.5" :> 3 @@ "abc" :> 3 @@ "id" :> 2 @@ "{}" :> 2 @@ "" :> 0
IsUtf8(text) == text # "\\xff"

IsIntegralType(type) == type \in {"INTEGER", "UINTEGER"}
IsUnsignedIntegralType(type) == type = "UINTEGER"

IsStrictIntegerString(text, allowNegative) ==
  text \in {"7", "12"} \union (IF allowNegative THEN {"-3"} ELSE {})

\* DuckDB's cast, which rounds.
QuackapiTryCast(text, type) ==
  CASE type = "INTEGER" -> text \in DOMAIN Number
    [] type = "UINTEGER" -> text \in DOMAIN Number /\ Number[text] >= 0
    [] OTHER -> TRUE

-----------------------------------------------------------------------------
(* Declarations. *)

IsClaimsParam(name) == name = "claims_sub"

FindParamSpec(route, name) == Lookup(route.specs, name)

Hyphenated(name) == IF name = "x_t" THEN "x-t" ELSE name

ParamWireName(spec, name) ==
  IF spec.external # "" THEN spec.external
  ELSE IF spec.source = "header" THEN Hyphenated(name) ELSE name

HasBounds(spec) == spec.bounds # {}
NoSpec == [source |-> "query", external |-> "", type |-> "", default |-> "none", bounds |-> {}]

Within(bound, n) ==
  CASE bound.op = "ge" -> n >= bound.than
    [] bound.op = "gt" -> n > bound.than
    [] bound.op = "le" -> n =< bound.than
    [] bound.op = "lt" -> n < bound.than

WithinLength(bound, n) == IF bound.op = "min_length" THEN n >= bound.than ELSE n =< bound.than

Lengths(spec) == {b \in spec.bounds : b.op \in {"min_length", "max_length"}}

\* native: a VARIANT keeps the type its JSON value had, "text", "number" or "object".
CheckParamConstraints(spec, text, native) ==
  /\ Lengths(spec) # {} => native \in {"none", "text"}
  /\ \A b \in Lengths(spec) : WithinLength(b, Length[text])
  /\ spec.bounds # Lengths(spec) =>
       /\ native \in {"none", "number"} /\ text \in DOMAIN Number
       /\ \A b \in spec.bounds \ Lengths(spec) : Within(b, Number[text])

-----------------------------------------------------------------------------
(* The layers. *)

\* Declared headers and cookies replace everything but the path.
DeclaredSource(route, request, base, source, wires) ==
  LET found == {n \in DOMAIN route.specs :
                  /\ route.specs[n].source = source
                  /\ ParamWireName(route.specs[n], n) \in DOMAIN wires
                  /\ \A e \in Lookup(base, n) : e.loc # "path"}
  IN  [n \in found |-> Entry(source, wires[ParamWireName(route.specs[n], n)])]

ServerIds == [n \in {"request_id"} |-> Entry("server", "id")]

BeforeBody(route, request) ==
  LET base == Over(ServerIds, Over(From("path", request.path), From("query", request.query)))
      cookies == DeclaredSource(route, request, base, "cookie", request.cookies)
  IN  Over(DeclaredSource(route, request, base, "header", request.headers), Over(cookies, base))

IsJsonBody(request) ==
  \/ request.media = "json"
  \/ request.media = "" /\ request.body.shape \in {"object", "array"}

IsBodyMethod(method) == method \in {"POST", "PUT", "PATCH"}

\* The one comparison of names that minds the case.
IsPathParam(route, name) == name \in route.exact

\* Parameters that only the body can give.
Open(route, provided) ==
  {n \in route.params \ ({"body"} \union DOMAIN provided) :
     ~IsPathParam(route, n) /\ ~IsClaimsParam(n) /\ \A s \in FindParamSpec(route, n) : s.source = "query"}

NeedsExtraction(route, provided) == Open(route, provided) # {}

ShapesBody(route) == route.shape # "none"

NeedsBodyFields(route, provided) ==
  \/ ShapesBody(route) \/ "body" \in route.params
  \/ \E n \in Open(route, provided) : \A s \in FindParamSpec(route, n) : s.default = "none"

\* $body is the payload, unless a field or the query has its name.
WithPayload(route, request, provided) ==
  IF "body" \in route.params THEN Over(provided, [n \in {"body"} |-> Entry("body", request.body.text)])
  ELSE provided

Fields(request) == [n \in DOMAIN request.body.fields |-> Entry("body", request.body.fields[n].text)]

\* Only an object has fields.
ExtractJsonBodyFields(request) == IF request.body.shape = "object" THEN {Fields(request)} ELSE {}

\* A JSON body: its fields fill the names that are still missing.
JsonBody(route, request, provided) ==
  IF request.body.shape = "empty" /\ ~NeedsBodyFields(route, provided) THEN {provided}
  ELSE IF ShapesBody(route) /\ ~request.body.conforms THEN {}
  ELSE {WithPayload(route, request, Over(provided, fields)) :
          fields \in IF NeedsExtraction(route, provided) THEN ExtractJsonBodyFields(request) ELSE {<<>>}}

\* A form: its fields also replace those of the query.
FormBody(route, request, provided) ==
  LET kept == {n \in DOMAIN provided : provided[n].loc = "query" => n \notin DOMAIN request.body.fields}
  IN  WithPayload(route, request, Over([n \in kept |-> provided[n]], Fields(request)))

\* Multipart: fields fill what is missing; the name of an uploaded file replaces.
MultipartBody(route, request, provided) ==
  LET filled == Over(provided, Fields(request))
      upload(names) == [n \in names |-> Entry("body", request.body.file)]
      stored == Over(upload({"up_filename"}), Over(filled, upload({"up", "filename"})))
  IN  WithPayload(route, request, IF request.body.file = "" THEN filled ELSE stored)

\* The values provided, or none when the body is refused (422).
Provided(route, request) ==
  LET provided == BeforeBody(route, request) IN
  IF ~IsBodyMethod(request.method) THEN {provided}
  ELSE IF IsJsonBody(request) THEN JsonBody(route, request, provided)
  ELSE IF request.media \in {"form", "multipart"}
  THEN IF ShapesBody(route) THEN {}
       ELSE IF request.media = "form" THEN {FormBody(route, request, provided)}
       ELSE {MultipartBody(route, request, provided)}
  ELSE IF \/ ShapesBody(route)
          \/ request.media # "" /\ request.body.shape # "empty" /\ NeedsBodyFields(route, provided) THEN {}
  ELSE {provided}

\* Fields that were JSON null and filled a missing name.
ExplicitNulls(route, request) ==
  IF IsBodyMethod(request.method) /\ IsJsonBody(request) /\ NeedsExtraction(route, BeforeBody(route, request))
  THEN {n \in DOMAIN request.body.fields \ DOMAIN BeforeBody(route, request) : request.body.fields[n].json = "null"}
  ELSE {}

-----------------------------------------------------------------------------
(* One parameter. *)

Spec1(route, name) == IF name \in DOMAIN route.specs THEN route.specs[name] ELSE NoSpec

\* The declared types the binder knows.  CREATE ROUTE takes more: the unsigned integers,
\* DECIMAL and NUMERIC, of which UINTEGER is one.
BinderTypes == {"INTEGER", "VARCHAR", "VARIANT"}

\* A declared type the binder does not know leaves the planner's.
ExpectedType(route, name) ==
  LET declared == Spec1(route, name).type IN IF declared \in BinderTypes THEN declared ELSE route.planned

\* Mutant: whatever has the name is taken.
FoundAnywhere(route, provided, name) == Lookup(provided, name)

\* Where the value is looked for: a declared header or cookie takes no other source,
\* and an alias of a query parameter none but the query.
Found(route, provided, name) ==
  LET spec == Spec1(route, name) IN
  IF spec.source \in {"header", "cookie"}
  THEN {e \in Lookup(provided, name) : e.loc = spec.source}
  ELSE IF spec.external # "" /\ ~IsPathParam(route, name)
  THEN {e \in Lookup(provided, spec.external) : e.loc = "query"}
  ELSE Lookup(provided, name)

NullAllowed(route, spec, type, loc) ==
  \/ loc = "body" /\ route.shape = "schema"
  \/ spec.default = "null"
  \/ type = "VARIANT" /\ ~HasBounds(spec)

\* Text that DuckDB would round to an integer in the handler's own cast; looked for where
\* no type is declared, be it one the binder knows or not.
Rounds(text) == ~IsStrictIntegerString(text, TRUE) /\ QuackapiTryCast(text, "INTEGER")

WellTyped(spec, type, text) ==
  /\ IsUtf8(text)
  /\ IsIntegralType(type) => IsStrictIntegerString(text, ~IsUnsignedIntegralType(type))
  /\ type \in {"UNKNOWN", "VARCHAR"} /\ spec.type = "" => ~Rounds(text)
  /\ QuackapiTryCast(text, type)

\* What a VARIANT is made of: the literal of the declaration, the JSON value of a
\* field, the payload (which need not be JSON), else text.
Native(request, type, loc, name, text) ==
  LET json == loc = "body" /\ IsJsonBody(request)
  IN  CASE type # "VARIANT" -> "none"
        [] type = "VARIANT" /\ loc = "default" -> IF text \in DOMAIN Number THEN "number" ELSE "text"
        [] type = "VARIANT" /\ json /\ text = request.body.text ->
             IF request.body.shape \in {"object", "array"} THEN "object" ELSE "invalid"
        [] type = "VARIANT" /\ json /\ text # request.body.text -> request.body.fields[name].json
        [] OTHER -> "text"

Null == [bound |-> TRUE, null |-> TRUE]
Value(text) == [bound |-> TRUE, null |-> FALSE, text |-> text]
Issue == [bound |-> FALSE]

Accept(spec, type, text, native) ==
  IF WellTyped(spec, type, text) /\ native # "invalid" /\ CheckParamConstraints(spec, text, native) THEN Value(text) ELSE Issue

BindParam(route, request, provided, name) ==
  LET spec == Spec1(route, name)
      type == ExpectedType(route, name)
      found == Found(route, provided, name)
  IN  IF IsClaimsParam(name)
      THEN IF request.claim = "" THEN Null ELSE Value(request.claim)
      ELSE IF found = {}
      THEN CASE spec.default = "none" -> Issue
             [] spec.default = "null" -> Null
             [] OTHER -> Accept(spec, type, spec.default, Native(request, type, "default", name, spec.default))
      ELSE LET e == CHOOSE f \in found : TRUE IN
           IF name \in ExplicitNulls(route, request)
           THEN IF NullAllowed(route, spec, type, e.loc) THEN Null ELSE Issue
           ELSE Accept(spec, type, e.text, Native(request, type, e.loc, name, e.text))

\* The request is bound, or refused with every parameter that is wrong.
Bind(route, request) ==
  LET layers == Provided(route, request) IN
  IF layers = {} THEN [status |-> 422, issues |-> {}, values |-> <<>>]
  ELSE LET provided == CHOOSE p \in layers : TRUE
           values == [n \in route.params |-> BindParam(route, request, provided, n)]
           issues == {n \in route.params : ~values[n].bound}
       IN  [status |-> IF issues = {} THEN 200 ELSE 422, issues |-> issues, values |-> values]

-----------------------------------------------------------------------------
(* What makes a binding right. *)

\* The values bound for an accepted request, other than claims.
Given(route, answer) ==
  {n \in route.params : answer.status = 200 /\ ~IsClaimsParam(n) /\ ~answer.values[n].null}

Default(spec) == {spec.default} \ {"none", "null"}

\* A declared header, cookie or alias is read there and nowhere else.
DeclaredSourceOnly(route, request, answer) ==
  \A n \in Given(route, answer) :
    LET spec == Spec1(route, n)
        wire == ParamWireName(spec, n)
        text == answer.values[n].text
    IN  /\ spec.source = "header" => text \in Lookup(request.headers, wire) \union Default(spec)
        /\ spec.source = "cookie" => text \in Lookup(request.cookies, wire) \union Default(spec)
        /\ spec.source = "query" /\ spec.external # "" /\ n \notin route.exact =>
             text \in Lookup(request.query, wire) \union Default(spec)

\* Text the client sent under a name, best source first.
Candidates(request, name) ==
  LET field == [n \in DOMAIN request.body.fields |-> request.body.fields[n].text]
      body == IF IsBodyMethod(request.method) THEN Lookup(field, name) ELSE {}
  IN  IF request.media = "form"
      THEN <<Lookup(request.path, name), body, Lookup(request.query, name)>>
      ELSE <<Lookup(request.path, name), Lookup(request.query, name), body>>

\* An undeclared parameter takes the best source there is.  (The name of an uploaded
\* file goes before all of them, and the server's identifiers before that.)
BestSourceWins(route, request, answer) ==
  \A n \in Given(route, answer) \ (DOMAIN route.specs \union {"body", "request_id", "up", "up_filename", "filename"}) :
    LET sources == Candidates(request, n)
        first == {i \in 1..3 : sources[i] # {} /\ \A j \in 1..(i - 1) : sources[j] = {}}
    IN  \E i \in first : answer.values[n].text \in sources[i]

\* What is bound keeps its declaration, defaults included.  A parameter declared with an
\* integer type the binder knows is an integer, also when the planner expects nothing of
\* the kind; one with a type the binder does not know, or with none, is what the planner
\* expects; one with none is no number that the handler's cast would round.  No value is
\* out of its bounds, and NULL is bound only where somebody provided for it.
DeclarationKept(route, request, answer) ==
  /\ \A n \in Given(route, answer) :
       LET spec == Spec1(route, n)
           text == answer.values[n].text
       IN  /\ spec.type = "INTEGER" => text \in {"7", "12", "-3"}
           /\ spec.type \notin {"INTEGER", "VARCHAR", "VARIANT"} =>
                /\ route.planned = "INTEGER" => text \in {"7", "12", "-3"}
                /\ route.planned = "UINTEGER" => text \in {"7", "12"}
           /\ spec.type = "" /\ route.planned \in {"UNKNOWN", "VARCHAR"} => text # "1.5"
           /\ \A b \in Lengths(spec) : WithinLength(b, Length[text])
           /\ \A b \in spec.bounds \ Lengths(spec) : Within(b, Number[text])
  /\ answer.status = 200 =>
       \A n \in route.params :
         answer.values[n].null =>
           \/ IsClaimsParam(n) /\ request.claim = ""
           \/ Spec1(route, n).default = "null"
           \/ /\ n \in DOMAIN request.body.fields /\ request.body.fields[n].json = "null"
              /\ \/ route.shape = "schema"
                 \/ ExpectedType(route, n) = "VARIANT" /\ ~HasBounds(Spec1(route, n))

BoundRight(route, request, answer) ==
  /\ DeclaredSourceOnly(route, request, answer)
  /\ BestSourceWins(route, request, answer)
  /\ DeclarationKept(route, request, answer)
=============================================================================
