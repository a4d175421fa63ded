-------------------------- MODULE RequestDecisions --------------------------
(***************************************************************************)
(* The decisions about a request that need no shared state, asked one      *)
(* after the other: who answers it (RouteMatching), in which format and    *)
(* coding (Negotiation), with which values bound (ParameterBinding), and   *)
(* what becomes of the handler under policies (PolicyRewrite).             *)
(*                                                                         *)
(* First a setting is chosen (what was declared), then a question (what a  *)
(* client sends), and the answer is what the code computes.  Every         *)
(* property compares the answer with a definition of its own, or with the  *)
(* answers to other questions.                                             *)
(***************************************************************************)
EXTENDS Integers, Sequences, FiniteSets, TLC

CONSTANTS
  MaxDepth,                       \* of a statement: the engine's max_expression_depth
  Words,                          \* in paths, patterns and headers
  Servers, RouteRequests,         \* who answers: what is registered, and what is asked
  Responses, EncodingHeaders, OtherHeaders, AcceptHeaders, RangeHeaders,
  BoundRoutes, BoundRequests,
  Policies, SqlHandlers

Routing == INSTANCE RouteMatching
Wire == INSTANCE Negotiation
Binding == INSTANCE ParameterBinding
Policy == INSTANCE PolicyRewrite

\* The methods httplib reads.
Verbs == Routing!Methods \union {"CONNECT", "TRACE", "PRI"}

\* What CREATE ROUTE and CREATE STREAM let in: no route for OPTIONS, and a stream answers
\* GET or upgrades to WebSocket and has no limit of its own.
Patterns == [segments : Seq([capture : BOOLEAN, text : Words]), slashes : Nat]
RouteEntry == [method : Routing!Methods \ {"OPTIONS"}, pattern : Patterns, limit : Nat]
StreamEntry == [method : {"GET", "WS"}, pattern : Patterns, limit : {0}]

Header == Seq([name : Words, weight : Int])

Expression == Seq([kind : STRING, text : STRING])
RowRule == [table : STRING, expression : Expression, args : Seq(STRING), columns : Seq(STRING)]
MaskRule == [table : STRING, column : STRING, expression : Expression]

ASSUME DecisionsAssumption ==
  /\ Servers \subseteq [routes : Seq(RouteEntry), streams : Seq(StreamEntry), cors : BOOLEAN, health : BOOLEAN,
                        mounts : SUBSET Seq(Words), limit : Nat, hard : Nat]
  /\ RouteRequests \subseteq [method : Verbs, size : Nat, path : [segments : Seq(Words), slashes : Nat]]
  /\ \A s \in Responses : s.response.size \in Nat /\ s.response.packed \in Nat
  /\ AcceptHeaders \subseteq Header /\ RangeHeaders \subseteq Header
  /\ MaxDepth \in Nat \ {0} /\ SqlHandlers \subseteq Policy!Trees[MaxDepth]
  /\ Policies \subseteq [rows : Seq(RowRule), masks : Seq(MaskRule), views : SUBSET STRING,
                         authenticated : BOOLEAN]

VARIABLES setting, question, answer

asked == <<setting, question, answer>>

Unasked == <<"idle", {}>>

Ready == setting = Unasked /\ question = Unasked /\ answer = Unasked

Declare(kind, settings) ==
  /\ setting = Unasked /\ question = Unasked
  /\ \E s \in settings : setting' = <<kind, s>>
  /\ UNCHANGED <<question, answer>>

Asked(kind) == setting[1] = kind /\ question = Unasked

Reply(kind, q, a) ==
  /\ question' = <<kind, q>> /\ answer' = <<kind, a>>
  /\ UNCHANGED setting

DeclareServer == Declare("route", Servers)

RouteQuestion(s, r) ==
  [method |-> r.method, size |-> r.size, path |-> r.path,
   routes |-> s.routes, streams |-> s.streams, cors |-> s.cors, health |-> s.health,
   mounts |-> s.mounts, limit |-> s.limit, hard |-> s.hard]

FindHandler ==
  /\ Asked("route")
  /\ \E r \in RouteRequests :
       LET q == RouteQuestion(setting[2], r) IN Reply("route", q, Routing!HandleRequest(q))

\* A response is ready, and one client or another asks for it.
Produce == Declare("coding", Responses)

CodingQuestion(s, header, other) ==
  [response |-> s.response, options |-> s.options, header |-> header, other |-> other]

Encode ==
  /\ Asked("coding")
  /\ \E h \in EncodingHeaders, o \in OtherHeaders :
       LET q == CodingQuestion(setting[2], h, o)
       IN  Reply("coding", q, Wire!MaybeCompressResponse(h, q.response, q.options))

DeclareFormat == Declare("format", {"json", "csv", "binary"})

ChooseFormat ==
  /\ Asked("format")
  /\ \E h \in AcceptHeaders :
       Reply("format", [route |-> setting[2], header |-> h], Wire!ResolveBodyFormat(setting[2], h))

\* An outbound request whose caller asks for a format.
Fetch ==
  /\ setting = Unasked /\ question = Unasked
  /\ \E h \in RangeHeaders : Reply("ranges", h, Wire!ApplyResponseAccept(h))

DeclareParams == Declare("binding", BoundRoutes)

BindParams ==
  /\ Asked("binding")
  /\ \E r \in {b \in BoundRequests : DOMAIN b.path = setting[2].captures} :
       Reply("binding", r, Binding!Bind(setting[2], r))

\* A handler is rewritten for a request.
DeclarePolicies == Declare("policy", Policies)

Rewrite ==
  /\ Asked("policy")
  /\ \E t \in SqlHandlers : Reply("policy", t, Policy!RewriteHandlerWithPolicies(t, setting[2]))

Forget ==
  /\ question # Unasked
  /\ setting' = Unasked /\ question' = Unasked /\ answer' = Unasked

AskRequest ==
  \/ DeclareServer \/ FindHandler
  \/ Produce \/ Encode \/ DeclareFormat \/ ChooseFormat \/ Fetch
  \/ DeclareParams \/ BindParams \/ DeclarePolicies \/ Rewrite
  \/ Forget

RequestsAnswered == Ready /\ [][AskRequest]_asked

-----------------------------------------------------------------------------
About(kind) == question[1] = kind

\* HandleRequest's answers agree with each other: the methods of an Allow header are
\* served and the others are not, HEAD is answered by what answers GET, a redirect leads
\* to a path that is known, the limit put on the body before it is read
\* (SetRequestPayloadLimit) refuses what the search refuses, and the captures are the
\* path's.
RoutingConsistent == About("route") => Routing!Routed(question[2], answer[2])

\* A client gets a content coding it accepts and none it prefers is left out, a cached
\* response is never served to a client that cannot read it (MaybeCompressResponse), the
\* body format is the best the Accept header allows (ResolveBodyFormat), and an outbound
\* call asks for the format it can decode exactly when its header allows it
\* (ApplyResponseAccept).
NegotiatedBest ==
  /\ About("coding") => /\ Wire!CodingIsBest(question[2], answer[2])
                        /\ Wire!CacheSafe(question[2], answer[2])
  /\ About("format") => Wire!FormatIsBest(question[2], answer[2])
  /\ About("ranges") => Wire!ClosestDecides(question[2], answer[2])

\* A parameter declared with a source is read there and nowhere else; one without takes
\* the best source that has it; and what is bound, defaults included, is within its bounds
\* and of its declared type if the binder knows that type, else of the planner's, NULL only
\* where the declaration or the body says so (the binder in HandleRequest, BindParamValue,
\* CheckParamConstraints).
ParametersBound == About("binding") => Binding!BoundRight(setting[2], question[2], answer[2])

\* Whatever the shape of a handler, it runs with each read of a table under a policy
\* replaced by the filtered and masked subquery, reads of common table expressions of the
\* same name left alone, or it does not run (RewriteHandlerWithPolicies).
PoliciesEnforced == About("policy") => Policy!Enforced(question[2], setting[2], answer[2])
=============================================================================
