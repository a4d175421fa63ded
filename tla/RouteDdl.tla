------------------------------ MODULE RouteDdl ------------------------------
(***************************************************************************)
(* CREATE ROUTE from its text to the registry: RouteDdlParse, the          *)
(* expansion of GROUP and the last checks of ApplyRouteExec                *)
(* (src/src/quackapi_ddl.cpp).                                             *)
(*                                                                         *)
(* The statement is a sequence of tokens behind the method; keywords are   *)
(* compared without case and are in upper case here.  A parser is a record *)
(* of the tokens left, the route read so far and whether it has failed;    *)
(* every failure is an error message to the author and nothing else.       *)
(***************************************************************************)
EXTENDS Integers, Sequences, FiniteSets, SequencesExt

Word(w) == [text |-> w, quoted |-> FALSE]
Quoted(w) == [text |-> w, quoted |-> TRUE]

\* Number and unit of the texts that have them.
Spelled ==
  "0" :> <<0, "">> @@ "7" :> <<7, "">> @@ "200" :> <<200, "">> @@ "700" :> <<700, "">> @@ "30" :> <<30, "">>
    @@ "30s" :> <<30, "s">> @@ "24h" :> <<24, "h">> @@ "25h" :> <<25, "h">> @@ "9x" :> <<9, "x">>
    @@ "86401" :> <<86401, "">>

\* atoi reads the digits in front and returns 0 when there are none.
Atoi(word) == IF word \in DOMAIN Spelled THEN Spelled[word][1] ELSE 0

Digits(word) == word \in DOMAIN Spelled /\ Spelled[word][2] = ""

MaxTimeout == 86400
Seconds == "" :> 1 @@ "s" :> 1 @@ "m" :> 60 @@ "h" :> 3600

\* Seconds, or 0 for what is refused.
ParseRouteTimeoutSec(word) ==
  IF word \notin DOMAIN Spelled THEN 0
  ELSE LET n == Spelled[word][1]
           unit == Spelled[word][2]
       IN  IF n > MaxTimeout \/ unit \notin DOMAIN Seconds \/ n * Seconds[unit] > MaxTimeout THEN 0
           ELSE n * Seconds[unit]

ParseRouteRequestBytes(word) == IF Digits(word) THEN Atoi(word) ELSE 0

\* Six fields, seconds first.
ValidateRouteSchedule(text) == text = "0 0 * * * *"

-----------------------------------------------------------------------------
(* The parser's machinery. *)

NoRoute ==
  [status |-> 200, require |-> "", format |-> "json", envelope |-> "array", empty |-> 0, emptyBody |-> "",
   rate |-> 0, per |-> 0, by |-> "", timeout |-> 0, schedule |-> "", group |-> "", schema |-> "", type |-> "",
   bytes |-> 0, params |-> <<>>, handler |-> ""]

Parser(rest, route) == [rest |-> rest, route |-> route, failed |-> FALSE]
Failed(p) == [p EXCEPT !.failed = TRUE]

At(p, n, keyword) == Len(p.rest) >= n /\ p.rest[n] = Word(keyword)
Left(p, n) == SubSeq(p.rest, n + 1, Len(p.rest))
Skip(p, n) == [p EXCEPT !.rest = Left(p, n)]

\* Take n tokens if the condition holds, and store the value.
Store(p, n, condition, field, value) ==
  IF condition THEN [Skip(p, n) EXCEPT !.route[field] = value] ELSE Failed(p)

Has(p, n) == Len(p.rest) >= n
Text(p, n) == IF Has(p, n) THEN p.rest[n].text ELSE ""
HasQuoted(p, n) == Has(p, n) /\ p.rest[n].quoted
ValidStatus(p, n) == Has(p, n) /\ Atoi(Text(p, n)) \in 100..599

-----------------------------------------------------------------------------
(* Clauses that may stand in any order before BODY and PARAM. *)

ScheduleClause(p) ==
  Store(p, 2, p.route.schedule = "" /\ HasQuoted(p, 2) /\ ValidateRouteSchedule(Text(p, 2)), "schedule", Text(p, 2))

StatusClause(p) == Store(p, 2, ValidStatus(p, 2), "status", Atoi(Text(p, 2)))

By(word) == IF word = "key" THEN "token" ELSE word

RateClause(p) ==
  LET stated == At(p, 2, "LIMIT") /\ Atoi(Text(p, 3)) > 0 /\ At(p, 4, "PER") /\ Atoi(Text(p, 5)) > 0
      by == At(p, 6, "BY")
      counted(n, key) ==
        [Skip(p, n) EXCEPT !.route.rate = Atoi(Text(p, 3)), !.route.per = Atoi(Text(p, 5)), !.route.by = key]
  IN  IF ~stated \/ (by /\ Text(p, 7) \notin {"ip", "token", "key"}) THEN Failed(p)
      ELSE IF by THEN counted(7, By(Text(p, 7))) ELSE counted(5, "ip")

RequireClause(p) == Store(p, 2, Has(p, 2), "require", Text(p, 2))

Formats == {"json", "ndjson", "csv", "parquet", "arrow", "binary"}
FormatName(word) == IF word = "arrows" THEN "arrow" ELSE word
FormatClause(p) == Store(p, 2, FormatName(Text(p, 2)) \in Formats, "format", FormatName(Text(p, 2)))

EnvelopeClause(p) == Store(p, 2, Text(p, 2) \in {"array", "object"}, "envelope", Text(p, 2))

EmptyClause(p) ==
  LET status == Store(p, 3, At(p, 2, "STATUS") /\ ValidStatus(p, 3), "empty", Atoi(Text(p, 3)))
  IN  IF ~status.failed /\ At(status, 1, "BODY") /\ Has(status, 2)
      THEN Store(status, 2, HasQuoted(status, 2), "emptyBody", Text(status, 2))
      ELSE status

\* Mutant: a second TIMEOUT replaces the first.
TimeoutClauseAgain(p) ==
  LET sec == ParseRouteTimeoutSec(Text(p, 2)) IN Store(p, 2, sec > 0, "timeout", sec)

TimeoutClause(p) ==
  LET sec == ParseRouteTimeoutSec(Text(p, 2))
  IN  Store(p, 2, sec > 0 /\ p.route.timeout = 0, "timeout", sec)

GroupClause(p) == Store(p, 2, Has(p, 2) /\ p.route.group = "", "group", Text(p, 2))

\* The clause that begins here; none ends the list.
Clause(p) ==
  CASE At(p, 1, "SCHEDULE") -> {ScheduleClause(p)}
    [] At(p, 1, "STATUS") -> {StatusClause(p)}
    [] At(p, 1, "RATE") /\ Has(p, 2) -> {RateClause(p)}
    [] At(p, 1, "REQUIRE") -> {RequireClause(p)}
    [] At(p, 1, "FORMAT") -> {FormatClause(p)}
    [] At(p, 1, "ENVELOPE") -> {EnvelopeClause(p)}
    [] At(p, 1, "EMPTY") -> {EmptyClause(p)}
    [] At(p, 1, "TIMEOUT") -> {TimeoutClause(p)}
    [] At(p, 1, "IN") /\ At(p, 2, "GROUP") -> {GroupClause(Skip(p, 1))}
    [] At(p, 1, "GROUP") -> {GroupClause(p)}
    [] OTHER -> {}

MaxClauses == 18

RECURSIVE Clauses(_, _)
Clauses(p, rounds) ==
  IF p.failed \/ rounds = 0 \/ Clause(p) = {} THEN p
  ELSE Clauses(CHOOSE c \in Clause(p) : TRUE, rounds - 1)

-----------------------------------------------------------------------------
(* BODY, PARAM, and what may follow them. *)

TryConsumeBodySchema(p) ==
  IF p.failed \/ ~(At(p, 1, "BODY") /\ Has(p, 2)) THEN p
  ELSE IF At(p, 2, "SCHEMA") THEN Store(p, 3, HasQuoted(p, 3), "schema", Text(p, 3))
  ELSE Store(p, 3, At(p, 2, "TYPE") /\ HasQuoted(p, 3), "type", Text(p, 3))

TypeNames == {"INTEGER", "VARCHAR", "VARIANT"}
Sources == "HEADER" :> "header" @@ "COOKIE" :> "cookie" @@ "QUERY" :> "query"
BoundNames == {"GE", "GT", "LE", "LT", "MIN_LENGTH", "MAX_LENGTH"}

\* Words that are no wire name.
NotAWireName ==
  {"DEFAULT", "PARAM", "BODY", "AS", "SCHEDULE"} \union BoundNames \union DOMAIN Sources \union TypeNames

\* A PARAM block being read: the parser, and the declaration.
NoParam(name) == [name |-> name, type |-> "", source |-> "query", wire |-> "", default |-> "none", bounds |-> {}]

AtSource(p) == Has(p, 1) /\ ~p.rest[1].quoted /\ Text(p, 1) \in DOMAIN Sources

TryConsumeSource(b) ==
  LET named == [b EXCEPT !.p = Skip(@, 1), !.spec.source = Sources[Text(b.p, 1)]]
      wire == HasQuoted(named.p, 1) \/ (Has(named.p, 1) /\ Text(named.p, 1) \notin NotAWireName)
  IN  IF ~AtSource(b.p) THEN b
      ELSE IF wire THEN [named EXCEPT !.p = Skip(@, 1), !.spec.wire = Text(named.p, 1)] ELSE named

EndsParam(p) == ~Has(p, 1) \/ \E k \in {"PARAM", "BODY", "AS", "WITH", "TIMEOUT", "SCHEDULE"} : At(p, 1, k)

ParamOption(b) ==
  LET key == Text(b.p, 1)
      value == Text(b.p, 2)
  IN  CASE AtSource(b.p) -> TryConsumeSource(b)
        [] ~AtSource(b.p) /\ key = "DEFAULT" /\ Has(b.p, 2) ->
             [b EXCEPT !.p = Skip(@, 2), !.spec.default = IF Word("NULL") = b.p.rest[2] THEN "null" ELSE value]
        [] ~AtSource(b.p) /\ key \in BoundNames /\ Has(b.p, 2) /\ Digits(value) ->
             [b EXCEPT !.p = Skip(@, 2),
                       !.spec.bounds = {x \in @ : x.op # key} \union {[op |-> key, than |-> Atoi(value)]}]
        [] OTHER -> [b EXCEPT !.p = Failed(@)]

RECURSIVE ParamOptions(_)
ParamOptions(b) == IF b.p.failed \/ EndsParam(b.p) THEN b ELSE ParamOptions(ParamOption(b))

ParamBlock(p) ==
  LET named == [p |-> Skip(p, 2), spec |-> NoParam(Text(p, 2))]
      typed == IF Text(named.p, 1) \in TypeNames
               THEN [named EXCEPT !.p = Skip(@, 1), !.spec.type = Text(named.p, 1)] ELSE named
      read == ParamOptions(TryConsumeSource(typed))
  IN  [read.p EXCEPT !.route.params = Append(@, read.spec)]

RECURSIVE Params(_)
Params(p) ==
  IF p.failed \/ ~At(p, 1, "PARAM") THEN p ELSE IF ~Has(p, 2) THEN Failed(p) ELSE Params(ParamBlock(p))

\* BODY behind the parameters, unless both kinds are there.
LateBody(p) == IF p.route.schema = "" \/ p.route.type = "" THEN TryConsumeBodySchema(p) ELSE p

\* WITH ( option value ... ): one option after the other.
RECURSIVE WithOptions(_)
WithOptions(p) ==
  IF p.failed THEN p
  ELSE IF At(p, 1, ")") THEN Skip(p, 1)
  ELSE CASE Text(p, 1) = "timeout_sec" -> WithOptions(TimeoutClause(p))
         [] Text(p, 1) = "max_request_bytes" ->
              LET n == ParseRouteRequestBytes(Text(p, 2))
              IN  WithOptions(Store(p, 2, n > 0 /\ p.route.bytes = 0, "bytes", n))
         [] OTHER -> Failed(p)

WithClause(p) ==
  IF At(p, 2, "(") /\ ~At(p, 3, ")") THEN WithOptions(Skip(p, 2)) ELSE Failed(p)

\* Behind the parameters and the body these three may stand, in this order.
Ahead(p, keyword) == ~p.failed /\ At(p, 1, keyword)
LateSchedule(p) == IF Ahead(p, "SCHEDULE") THEN ScheduleClause(p) ELSE p
LateTimeout(p) == IF Ahead(p, "TIMEOUT") THEN TimeoutClause(p) ELSE p
LateWith(p) == IF Ahead(p, "WITH") THEN WithClause(p) ELSE p

AsClause(p) == Store(p, 2, ~p.failed /\ At(p, 1, "AS") /\ Has(p, 2), "handler", Text(p, 2))

\* Conditions between the clauses and the rest.
Consistent(p, absolute) ==
  IF /\ p.route.envelope = "object" => p.route.format = "json"
     /\ p.route.group = "" => absolute
  THEN p ELSE Failed(p)

\* pattern: whether it begins with "/", and the tokens behind it.
RouteDdlParse(tokens, absolute) ==
  LET clauses == Consistent(Clauses(Parser(tokens, NoRoute), MaxClauses), absolute)
      body == LateBody(Params(TryConsumeBodySchema(clauses)))
  IN  AsClause(LateWith(LateTimeout(LateSchedule(body))))

-----------------------------------------------------------------------------
(* The statement executes: the group is expanded once and for all, and the *)
(* handler is prepared before the registry is touched.  A pattern is its   *)
(* segments, whether a "/" stands in front, and the slashes behind.        *)

Matching == INSTANCE RouteMatching

\* The prefix has lost its trailing slashes; "/" has no segment.
AlreadyPrefixed(prefix, pattern) ==
  IF prefix = <<>> THEN pattern.segments = <<>> ELSE IsPrefix(prefix, pattern.segments)

JoinGroupPrefix(prefix, pattern) ==
  LET root == pattern.segments = <<>> /\ prefix # <<>>
  IN  [absolute |-> TRUE, segments |-> prefix \o pattern.segments,
       slashes |-> IF root THEN pattern.slashes + 1 ELSE pattern.slashes]

HasRoutePathParams(pattern) == \E i \in 1..Len(pattern.segments) : pattern.segments[i].capture

\* DuckDB prepares the handler; "AS $sql" is taken from the request later on.
ValidHandler(handler) == handler \in {"SELECT 1", "$sql"}
ValidSchema(schema) == schema # "{"

Refused == [created |-> FALSE]

Created(route, pattern, require) ==
  IF \/ route.schedule # "" /\ HasRoutePathParams(pattern)
     \/ ~ValidSchema(route.schema) \/ ~ValidHandler(route.handler)
  THEN Refused
  ELSE [created |-> TRUE, route |-> [route EXCEPT !.require = require], pattern |-> pattern]

\* groups: the prefix and the authentication of each group there is.
ApplyRoute(route, pattern, groups) ==
  IF route.group = "" THEN IF pattern.absolute THEN Created(route, pattern, route.require) ELSE Refused
  ELSE IF route.group \notin DOMAIN groups THEN Refused
  ELSE LET group == groups[route.group]
       IN  IF AlreadyPrefixed(group.prefix, pattern) THEN Refused
           ELSE Created(route, JoinGroupPrefix(group.prefix, pattern),
                        IF route.require = "" THEN group.require ELSE route.require)

\* CREATE ROUTE from its tokens.
CreateRoute(tokens, pattern, groups) ==
  LET parsed == RouteDdlParse(tokens, pattern.absolute)
  IN  IF parsed.failed THEN Refused ELSE ApplyRoute(parsed.route, pattern, groups)

-----------------------------------------------------------------------------
(* What the documentation promises.  A declaration is a list of clauses in *)
(* each place of the grammar; a clause is its tokens, the fields it sets,  *)
(* and whether its values are legal.                                       *)

Written(words, sets, legal) == [words |-> words, sets |-> sets, legal |-> legal]

InOrder(d) == d.lead \o d.body \o d.params \o d.tail

Tokens(d) ==
  FoldLeft(LAMBDA words, c : words \o c.words, <<>>, InOrder(d)) \o <<Word("AS"), Word(d.handler)>>

\* Later clauses override earlier ones; parameters add up.
Meant(d) ==
  FoldLeft(LAMBDA route, c :
             [f \in DOMAIN route |->
                IF f \notin DOMAIN c.sets THEN route[f]
                ELSE IF f = "params" THEN route.params \o c.sets.params ELSE c.sets[f]],
           [NoRoute EXCEPT !.handler = d.handler], InOrder(d))

Once == {"timeout", "schedule", "group", "bytes"}

Legal(d) ==
  LET clauses == InOrder(d)
      sets(i) == DOMAIN clauses[i].sets
  IN  /\ \A i \in 1..Len(clauses) : clauses[i].legal
      /\ \A i, j \in 1..Len(clauses) : i < j => sets(i) \intersect sets(j) \intersect Once = {}
      /\ Meant(d).envelope = "object" => Meant(d).format = "json"

Begins(clause, keyword) == Head(clause.words) = Word(keyword)

\* Sentences the parser refuses: a second BODY clause before PARAM, a third one, BODY
\* behind an EMPTY STATUS, and a PARAM that ends in a bare source with TIMEOUT or WITH
\* behind it.
Misread(d) ==
  LET clauses == InOrder(d)
      next(i, keywords) == i < Len(clauses) /\ \E k \in keywords : Begins(clauses[i + 1], k)
      bodies(s) == Len(SelectSeq(s, LAMBDA c : Begins(c, "BODY")))
  IN  \/ bodies(d.body) > 1 /\ d.params # <<>>
      \/ bodies(clauses) > 2
      \/ \E i \in 1..Len(clauses) :
           \/ Begins(clauses[i], "EMPTY") /\ Len(clauses[i].words) = 3 /\ next(i, {"BODY"})
           \/ /\ Begins(clauses[i], "PARAM") /\ Last(clauses[i].words).text \in DOMAIN Sources
              /\ next(i, {"TIMEOUT", "WITH"})

\* Where the route answers: exactly the paths that continue the prefix with a path its
\* own pattern matches.
Mounted(pattern, prefix, made, paths) ==
  \A path \in paths :
    LET above == [i \in 1..Len(prefix) |-> prefix[i].text]
        below == [path EXCEPT !.segments = above \o @,
                              !.slashes = IF path.segments = <<>> /\ above # <<>> THEN @ + 1 ELSE @]
    IN  Matching!MatchPattern(made, below) = Matching!MatchPattern(pattern, path)

\* A legal statement makes the route that was written, in its group; any other makes none.
Understood(d, pattern, groups, paths, made) ==
  LET route == Meant(d)
      grouped == route.group # ""
      group == groups[route.group]
      prefix == IF grouped THEN group.prefix ELSE <<>>
      placed == IF grouped THEN route.group \in DOMAIN groups /\ ~AlreadyPrefixed(prefix, pattern)
                ELSE pattern.absolute
      captures == HasRoutePathParams(pattern) \/ (\E i \in 1..Len(prefix) : prefix[i].capture)
      legal == /\ Legal(d) /\ ~Misread(d)
               /\ placed /\ (route.schedule # "" => ~captures)
               /\ ValidSchema(route.schema) /\ ValidHandler(route.handler)
  IN  /\ made.created = legal
      /\ made.created =>
           /\ made.route = [route EXCEPT !.require = IF grouped /\ @ = "" THEN group.require ELSE @]
           /\ Mounted(pattern, prefix, made.pattern, paths)
=============================================================================
