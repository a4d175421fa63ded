----------------------------- MODULE Decisions -----------------------------
(***************************************************************************)
(* The decisions of RequestDecisions, and in the same way those about the  *)
(* text of statements: what the statements about routes, groups and        *)
(* policies declare (RouteDdl, GroupDdl, PolicyDdl).                       *)
(***************************************************************************)
EXTENDS RequestDecisions

Ddl == INSTANCE RouteDdl
GroupText == INSTANCE GroupDdl
PolicyText == INSTANCE PolicyDdl

CONSTANTS
  Groups, GroupPatterns, Statements, Paths,
  GroupDeclarations, PolicyDeclarations

\* CREATE ROUTE, with some groups declared.
DeclareGroups == Declare("ddl", [groups : Groups, pattern : GroupPatterns])

CreateRoute ==
  /\ Asked("ddl")
  /\ \E d \in Statements :
       Reply("ddl", d, Ddl!CreateRoute(Ddl!Tokens(d), setting[2].pattern, setting[2].groups))

\* Statements about groups and policies, as meant and with a slip.
MeanGroup == Declare("group", GroupDeclarations)

CreateGroup ==
  /\ Asked("group")
  /\ \E form \in {"with", "prefix"} :
       /\ setting[2].policy # "" => form = "with"
       /\ \E e \in GroupText!Edits(setting[2], form) :
            Reply("group", [form |-> form, edit |-> e],
                  GroupText!GroupDdlParse(GroupText!Edited(setting[2], form, e)))

MeanPolicy == Declare("policyText", PolicyDeclarations)

CreatePolicy ==
  /\ Asked("policyText")
  /\ \E e \in PolicyText!Edits(setting[2]) :
       Reply("policyText", e, PolicyText!PolicyDdlParse(PolicyText!Edited(setting[2], e)))

AskStatement ==
  \/ DeclareGroups \/ CreateRoute
  \/ MeanGroup \/ CreateGroup \/ MeanPolicy \/ CreatePolicy

Next == AskRequest \/ AskStatement

Spec == Ready /\ [][Next]_asked

-----------------------------------------------------------------------------
\* CREATE ROUTE makes the route its clauses say, wherever they stand, below the prefix of
\* its group, or it makes none: no clause is lost, doubled or read as another one's value
\* (RouteDdlParse, ApplyRouteExec, JoinGroupPrefix).  A statement about a group or a
\* policy declares what it says; with a token too many or too few it is refused, left to
\* the engine, or declares what the new text says (GroupDdlParse, PolicyDdlParse).
StatementsUnderstood ==
  /\ About("ddl") => Ddl!Understood(question[2], setting[2].pattern, setting[2].groups, Paths, answer[2])
  /\ About("group") => GroupText!ReadBack(setting[2], question[2].form, question[2].edit, answer[2])
  /\ About("policyText") => PolicyText!ReadBack(setting[2], question[2], answer[2])
=============================================================================
