--------------------------- MODULE RouteMatching ---------------------------
(***************************************************************************)
(* Which handler answers a request, and with which status a request is    *)
(* turned away: the built-in endpoints, MatchPattern and the search of     *)
(* QuackapiHttpServer::HandleRequest over routes and streams, and the      *)
(* limit that SetRequestPayloadLimit computes before the body is read      *)
(* (src/src/quackapi_server.cpp).                                          *)
(*                                                                         *)
(* A path is its non-empty segments and the number of slashes behind them; *)
(* SplitPath drops the empty segments in between.  "/" has no segment and  *)
(* no slash behind it, "//" one.  Outcomes are statuses; what a handler    *)
(* that is reached answers is 200.                                         *)
(***************************************************************************)
EXTENDS Integers, Sequences, FiniteSetsExt, Subsequences

PathOf(segments, slashes) == [segments |-> segments, slashes |-> slashes]

\* A segment of a pattern: literal text, or :name and {name}.
Literal(t) == [capture |-> FALSE, text |-> t]
Capture(t) == [capture |-> TRUE, text |-> t]

HasTrailingSlash(p) == p.slashes > 0

StripTrailingSlash(p) == IF HasTrailingSlash(p) THEN [p EXCEPT !.slashes = @ - 1] ELSE p

MatchPattern(pattern, path) ==
  /\ HasTrailingSlash(pattern) = HasTrailingSlash(path)
  /\ Len(pattern.segments) = Len(path.segments)
  /\ \A i \in 1..Len(path.segments) :
       pattern.segments[i].capture \/ pattern.segments[i].text = path.segments[i]

\* The captures of a pattern that matches, in order.
Captures(pattern, path) ==
  LET named == [i \in DOMAIN path.segments |-> [name |-> pattern.segments[i].text, value |-> path.segments[i]]]
  IN  Kept(named, {i \in DOMAIN path.segments : pattern.segments[i].capture})

-----------------------------------------------------------------------------
(* Endpoints that are served before any route is looked at. *)

Is(path, segments) == path.segments = segments
Exactly(path, segments) == Is(path, segments) /\ path.slashes = 0
WithOrWithoutSlash(path, segments) == Is(path, segments) /\ path.slashes < 2

Methods == {"GET", "HEAD", "POST", "PUT", "DELETE", "PATCH", "OPTIONS"}

Reading(method) == method \in {"GET", "HEAD"}

\* Who answers, when it is no entry of the registries.
BuiltInHandler == [method |-> "builtin"]
Nobody == [method |-> "nobody"]

Answer(status, allow) == [status |-> status, allow |-> allow, by |-> BuiltInHandler]

\* Preflight of a built-in endpoint.
Preflight(allow, cors) ==
  IF cors THEN Answer(204, allow \union {"OPTIONS"}) ELSE Answer(405, allow)

HealthEndpoint(q, path) ==
  q.health /\ Reading(q.method) /\ (Exactly(path, <<"health">>) \/ Exactly(path, <<"healthz">>))

\* CREATE GRAPHQL ROUTE: POST to the mount, GET of the schema below it.
MountEndpoint(q, path) ==
  \E m \in q.mounts :
    \/ q.method = "POST" /\ Is(path, m)
    \/ Reading(q.method) /\ Is(path, m \o <<"schema">>)

DocPaths == {<<"docs">>, <<"redoc">>}

DocsEndpoint(path) ==
  Exactly(path, <<"openapi.json">>) \/ \E d \in DocPaths : WithOrWithoutSlash(path, d)

\* The answers of the built-in endpoints; empty when the search goes on.
BuiltIn(q) ==
  LET path == q.path IN
  IF HealthEndpoint(q, path) \/ MountEndpoint(q, path) THEN {Answer(200, {})}
  ELSE IF WithOrWithoutSlash(path, <<"graphql">>) THEN
    {IF q.method = "POST" THEN Answer(200, {})
     ELSE IF q.method = "OPTIONS" THEN Preflight({"POST"}, q.cors)
     ELSE Answer(405, {"POST"})}
  ELSE IF Reading(q.method) /\ (WithOrWithoutSlash(path, <<"graphql", "schema">>) \/ DocsEndpoint(path)) THEN
    {Answer(200, {})}
  ELSE IF q.method = "OPTIONS" /\ DocsEndpoint(path) THEN {Preflight({"GET", "HEAD"}, q.cors)}
  ELSE {}

-----------------------------------------------------------------------------
(* Routes and streams, in the order of their registration. *)

Matching(entries, path) == {i \in DOMAIN entries : MatchPattern(entries[i].pattern, path)}

OfMethod(entries, path, method) == {i \in Matching(entries, path) : entries[i].method = method}

\* CREATE STREAM ... WS is an entry of method "WS": it answers upgrade requests only.
ServerSent(q) == Matching(q.streams, q.path) \ OfMethod(q.streams, q.path, "WS")

\* The entry that answers; the last of the routes, the first of the streams.
LastOf(entries, at) == {entries[i] : i \in {n \in at : \A k \in at : k <= n}}
FirstOf(entries, at) == {entries[i] : i \in {n \in at : \A k \in at : n <= k}}

FirstNonEmpty(a, b) == IF a # {} THEN a ELSE b

RouteFor(q, method) == LastOf(q.routes, OfMethod(q.routes, q.path, method))

Explicit(q) ==
  FirstNonEmpty(RouteFor(q, q.method),
                FirstOf(q.streams, ServerSent(q) \intersect OfMethod(q.streams, q.path, q.method)))

AutoHead(q) ==
  IF q.method # "HEAD" THEN {}
  ELSE FirstNonEmpty(RouteFor(q, "GET"), FirstOf(q.streams, OfMethod(q.streams, q.path, "GET")))

Chosen(q) == FirstNonEmpty(Explicit(q), AutoHead(q))

\* methods_for_path: the methods somebody registered for this path.
MethodsForPath(q) ==
  {q.routes[i].method : i \in Matching(q.routes, q.path)} \union {q.streams[i].method : i \in ServerSent(q)}

\* Mutant: HEAD is advertised for every path that exists.
AllowedHeadAlways(q) == MethodsForPath(q) \union {"HEAD"} \union (IF q.cors THEN {"OPTIONS"} ELSE {})

\* The Allow header.
Allowed(q) ==
  MethodsForPath(q)
    \union (IF "GET" \in MethodsForPath(q) THEN {"HEAD"} ELSE {})
    \union (IF q.cors THEN {"OPTIONS"} ELSE {})

\* The other spelling of the path, to which a request is redirected.
Alternate(path) ==
  IF HasTrailingSlash(path) THEN StripTrailingSlash(path) ELSE [path EXCEPT !.slashes = 1]

Redirects(q) ==
  /\ MethodsForPath(q) = {}
  /\ q.path # PathOf(<<>>, 0)
  /\ \E entries \in {q.routes, q.streams} : Matching(entries, Alternate(q.path)) # {}

\* The limit on the body: of the route that matched, else the server's default,
\* and in no case more than the server allows.
BodyLimit(q, entries) ==
  LET own == {e.limit : e \in entries} \ {0}
  IN  Min({q.hard} \union (IF own = {} THEN {q.limit} ELSE own))

Refusal(status) == [status |-> status, allow |-> {}, by |-> Nobody]
MethodNotAllowed(q) == [status |-> 405, allow |-> Allowed(q), by |-> Nobody]

Handled(q, e) ==
  [status |-> 200, allow |-> {}, by |-> e, captures |-> Captures(e.pattern, q.path)]

Options(q) ==
  IF MethodsForPath(q) = {} THEN Refusal(404)
  ELSE IF q.cors THEN [MethodNotAllowed(q) EXCEPT !.status = 204]
  ELSE MethodNotAllowed(q)

\* Dispatch of a request that no built-in endpoint answers.
Search(q) ==
  IF q.size > BodyLimit(q, Chosen(q)) THEN Refusal(413)
  ELSE IF q.method = "OPTIONS" THEN Options(q)
  ELSE IF Chosen(q) # {} THEN Handled(q, CHOOSE e \in Chosen(q) : TRUE)
  ELSE IF OfMethod(q.streams, q.path, "WS") # {} THEN Refusal(426)
  ELSE IF Redirects(q) THEN [status |-> 307, location |-> Alternate(q.path), allow |-> {}, by |-> Nobody]
  ELSE IF MethodsForPath(q) # {} THEN MethodNotAllowed(q)
  ELSE Refusal(404)

HandleRequest(q) ==
  IF BuiltIn(q) # {} THEN CHOOSE a \in BuiltIn(q) : TRUE ELSE Search(q)

-----------------------------------------------------------------------------
(* The limit httplib enforces while it reads the body, before the search. *)

SetRequestPayloadLimit(q) ==
  BodyLimit(q, IF q.method = "HEAD" THEN FirstNonEmpty(RouteFor(q, "HEAD"), RouteFor(q, "GET"))
               ELSE RouteFor(q, q.method))

-----------------------------------------------------------------------------
(* What the answers promise each other; answer is the one to q. *)

Retry(q, method) == HandleRequest([q EXCEPT !.method = method, !.size = 0])

\* A method in an Allow header is served, or at least not refused as unknown.
AllowIsHonest(q, answer) ==
  \A method \in answer.allow : Retry(q, method).status \notin {404, 405, 307}

\* The other way round, on paths that are not built in for any method: what is not
\* in the header is refused.
AllowIsComplete(q, answer) ==
  answer.status = 405 /\ (\A method \in Methods : BuiltIn([q EXCEPT !.method = method]) = {}) =>
    \A method \in Methods \ answer.allow : Retry(q, method).status \notin {200, 204}

\* HEAD is answered by what would answer GET, unless there is a route for it.
HeadMirrorsGet(q, answer) ==
  q.method = "HEAD" /\ RouteFor(q, "HEAD") = {} =>
    LET get == HandleRequest([q EXCEPT !.method = "GET"])
    IN  answer.status = get.status /\ answer.by = get.by

\* A redirect leads to somebody who knows the path.
RedirectArrives(q, answer) ==
  answer.status = 307 => HandleRequest([q EXCEPT !.path = answer.location]).status \notin {307, 404}

\* httplib lets a body through if and only if the dispatch does.
LimitsAgree(q, answer) ==
  BuiltIn(q) = {} => ((answer.status = 413) <=> (q.size > SetRequestPayloadLimit(q)))

\* The captures, put back in order into the pattern that answers, give the path.
CapturesRebuildPath(q, answer) ==
  answer.status = 200 /\ BuiltIn(q) = {} =>
    LET pattern == answer.by.pattern.segments
        holes(i) == Cardinality({j \in 1..i : pattern[j].capture})
    IN  /\ Len(q.path.segments) = Len(pattern) /\ Len(answer.captures) = holes(Len(pattern))
        /\ \A i \in DOMAIN pattern :
             IF pattern[i].capture
             THEN answer.captures[holes(i)] = [name |-> pattern[i].text, value |-> q.path.segments[i]]
             ELSE q.path.segments[i] = pattern[i].text

Routed(q, answer) ==
  /\ AllowIsHonest(q, answer) /\ AllowIsComplete(q, answer)
  /\ HeadMirrorsGet(q, answer)
  /\ RedirectArrives(q, answer)
  /\ LimitsAgree(q, answer)
  /\ CapturesRebuildPath(q, answer)
=============================================================================
