CONSTANTS
  MaxDepth = 8
  Words <- MCWords
  Servers <- MCServers
  RouteRequests <- MCRouteRequests
  Responses <- MCResponses
  EncodingHeaders <- MCEncodingHeaders
  OtherHeaders <- MCOtherHeaders
  AcceptHeaders <- MCAcceptHeaders
  RangeHeaders <- MCRangeHeaders
  BoundRoutes <- MCBoundRoutes
  BoundRequests <- MCBoundRequests
  Groups <- MCGroups
  GroupPatterns <- MCGroupPatterns
  Statements <- MCStatements
  Paths <- MCPaths
  GroupDeclarations <- MCGroupDeclarations
  PolicyDeclarations <- MCPolicyDeclarations
  Policies <- MCPolicies
  SqlHandlers <- MCSqlHandlers
SPECIFICATION Spec
INVARIANTS
  RoutingConsistent
  NegotiatedBest
  ParametersBound
  StatementsUnderstood
  PoliciesEnforced
