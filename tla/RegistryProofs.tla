--------------------------- MODULE RegistryProofs ---------------------------
(***************************************************************************)
(* The two registries a request meets before its SQL: the authentication   *)
(* schemes with their keys (AuthRegistry), and the routes with their rate  *)
(* limiter (RouteRegistry), each for every value of its constants.         *)
(*                                                                         *)
(* AuthInv is the conjunction of three invariants: AddApiKey files a key   *)
(* under the spelling in force only because TypeOK files a scheme under    *)
(* its own name, and respelling keeps the keys of a scheme apart only      *)
(* because KeysFollowScheme gives all of them the same spelling before.    *)
(*                                                                         *)
(* RouteInv says of each bucket how many windows the requests it let pass  *)
(* fit into, and that these windows followed each other since the route    *)
(* was registered (RateOK).                                                *)
(***************************************************************************)
EXTENDS AuthRegistry, RouteRegistry, FiniteSetTheorems, TLAPS

-----------------------------------------------------------------------------
(* Authentication.                                                         *)

AuthInv == TypeOK /\ KeysFollowScheme /\ OneSubjectPerKey

LEMMA FoldInSchemes == \A n \in SchemeNames : Fold[n] \in Schemes
BY DEF Schemes

\* Initially there are no schemes, keys or checks.
LEMMA AuthInitInv == AuthInit => AuthInv
<1> SUFFICES ASSUME AuthInit PROVE AuthInv
  OBVIOUS
<1>1. TypeOK
  BY AuthAssumption DEF AuthInit, TypeOK, CheckState, NoCheck
<1>2. KeysFollowScheme /\ OneSubjectPerKey
  BY DEF AuthInit, KeysFollowScheme, OneSubjectPerKey
<1> QED
  BY <1>1, <1>2 DEF AuthInv

\* The new set of keys after CREATE OR REPLACE AUTH.
LEMMA KeysAfterReplaceType ==
  ASSUME AuthInv, NEW new \in Auth, auths[Fold[new.name]] # NoAuth
  PROVE  KeysAfterReplace(auths[Fold[new.name]], new) \subseteq KeyEntry
<1> DEFINE old == auths[Fold[new.name]]
<1>1. new.name \in SchemeNames
  BY DEF Auth
<1>2. \A e \in KeyEntry : [e EXCEPT !.auth_name = new.name] \in KeyEntry
  BY <1>1 DEF KeyEntry
<1>3. api_keys \subseteq KeyEntry
  BY DEF AuthInv, TypeOK
<1> QED
  BY <1>2, <1>3 DEF KeysAfterReplace, KeysOf

\* CREATE [OR REPLACE] AUTH.
LEMMA AddAuthInv ==
  ASSUME AuthInv, NEW new \in Auth, NEW or_replace \in BOOLEAN, AddAuth(new, or_replace)
  PROVE  AuthInv'
<1> DEFINE s == Fold[new.name]
           old == auths[s]
<1>1. new.name \in SchemeNames /\ s \in Schemes /\ new.kind \in {"API_KEY", "JWT_HS256"}
  BY FoldInSchemes DEF Auth
<1>2. new # NoAuth
  BY <1>1 DEF NoAuth
<1>a. auths' = [auths EXCEPT ![s] = new] /\ now' = now /\ check' = check
  BY DEF AddAuth
<1>b. auths'[s] = new /\ \A t \in Schemes : t # s => auths'[t] = auths[t]
  BY <1>1, <1>a DEF AuthInv, TypeOK
<1>3. old # NoAuth => Fold[old.name] = s
  BY <1>1 DEF AuthInv, TypeOK
<1>4. CASE old = NoAuth
  <2>1. api_keys' = api_keys
    BY <1>4 DEF AddAuth
  <2>2. \A e \in api_keys : e.auth_name \in SchemeNames /\ Fold[e.auth_name] # s
    BY <1>4 DEF AuthInv, TypeOK, KeysFollowScheme, KeyEntry
  <2>3. TypeOK'
    BY <1>1, <1>2, <1>a, <1>b, <2>1 DEF AuthInv, TypeOK
  <2>4. KeysFollowScheme'
    BY <1>b, <2>1, <2>2, FoldInSchemes DEF AuthInv, KeysFollowScheme
  <2>5. OneSubjectPerKey'
    BY <2>1 DEF AuthInv, OneSubjectPerKey
  <2> QED
    BY <2>3, <2>4, <2>5 DEF AuthInv
<1>5. CASE old # NoAuth
  <2>1. api_keys' = KeysAfterReplace(old, new)
    BY <1>5 DEF AddAuth
  <2>2. api_keys' \subseteq KeyEntry
    BY <2>1, <1>5, KeysAfterReplaceType
  <2>3. TypeOK'
    BY <1>1, <1>2, <1>a, <1>b, <2>2 DEF AuthInv, TypeOK
  <2>4. CASE old.kind = "API_KEY" /\ new.kind # "API_KEY"
    <3>1. api_keys' = {e \in api_keys : Fold[e.auth_name] # s}
      BY <2>1, <2>4, <1>3, <1>5 DEF KeysAfterReplace, KeysOf
    <3>2. KeysFollowScheme'
      BY <1>b, <3>1, <2>2, FoldInSchemes DEF AuthInv, KeysFollowScheme, KeyEntry
    <3>3. OneSubjectPerKey'
      BY <3>1 DEF AuthInv, OneSubjectPerKey
    <3> QED
      BY <2>3, <3>2, <3>3 DEF AuthInv
  <2>5. CASE ~(old.kind = "API_KEY" /\ new.kind # "API_KEY")
    <3> DEFINE Respelled(e) ==
          IF Fold[e.auth_name] = s THEN [e EXCEPT !.auth_name = new.name] ELSE e
    <3>1. api_keys' = {Respelled(e) : e \in api_keys}
      BY <2>1, <2>5, <1>3, <1>5 DEF KeysAfterReplace
    <3>2. \A e \in api_keys : /\ e \in KeyEntry
                              /\ Fold[Respelled(e).auth_name] = Fold[e.auth_name]
                              /\ Respelled(e).key = e.key
                              /\ Fold[e.auth_name] # s => Respelled(e) = e
                              /\ Fold[e.auth_name] = s => Respelled(e).auth_name = new.name
      BY DEF AuthInv, TypeOK, KeyEntry
    <3>3. KeysFollowScheme'
      <4> SUFFICES ASSUME NEW e \in api_keys
                   PROVE  /\ auths'[Fold[Respelled(e).auth_name]] # NoAuth
                          /\ auths'[Fold[Respelled(e).auth_name]].kind = "API_KEY"
                          /\ auths'[Fold[Respelled(e).auth_name]].name = Respelled(e).auth_name
        BY <3>1 DEF KeysFollowScheme
      <4>1. e.auth_name \in SchemeNames /\ Fold[e.auth_name] \in Schemes
        BY <3>2, FoldInSchemes DEF KeyEntry
      <4>2. CASE Fold[e.auth_name] = s
        <5>1. old.kind = "API_KEY"
          BY <4>2 DEF AuthInv, KeysFollowScheme
        <5> QED
          BY <5>1, <2>5, <1>2, <1>b, <3>2, <4>2
      <4>3. CASE Fold[e.auth_name] # s
        BY <4>1, <4>3, <3>2, <1>b DEF AuthInv, KeysFollowScheme
      <4> QED
        BY <4>2, <4>3
    <3>4. OneSubjectPerKey'
      <4> SUFFICES ASSUME NEW x \in api_keys', NEW y \in api_keys',
                          Fold[x.auth_name] = Fold[y.auth_name], x.key = y.key
                   PROVE  x = y
        BY DEF OneSubjectPerKey
      <4>1. PICK e \in api_keys : x = Respelled(e)
        BY <3>1
      <4>2. PICK f \in api_keys : y = Respelled(f)
        BY <3>1
      <4>3. Fold[e.auth_name] = Fold[f.auth_name] /\ e.key = f.key
        BY <3>2, <4>1, <4>2
      <4>4. e = f
        BY <4>3 DEF AuthInv, OneSubjectPerKey
      <4> QED
        BY <4>1, <4>2, <4>4
    <3> QED
      BY <2>3, <3>3, <3>4 DEF AuthInv
  <2> QED
    BY <2>4, <2>5
<1> QED
  BY <1>4, <1>5

\* DROP AUTH.
LEMMA DropAuthInv ==
  ASSUME AuthInv, NEW n \in SchemeNames, DropAuth(n)
  PROVE  AuthInv'
<1>1. Fold[n] \in Schemes
  BY FoldInSchemes
<1>2. auths' = [auths EXCEPT ![Fold[n]] = NoAuth] /\ now' = now /\ check' = check
  BY DEF DropAuth
<1>3. api_keys' = {e \in api_keys : Fold[e.auth_name] # Fold[n]}
  BY DEF DropAuth, KeysOf
<1>4. auths'[Fold[n]] = NoAuth /\ \A t \in Schemes : t # Fold[n] => auths'[t] = auths[t]
  BY <1>1, <1>2 DEF AuthInv, TypeOK
<1>5. TypeOK'
  BY <1>1, <1>2, <1>3, <1>4 DEF AuthInv, TypeOK
<1>6. KeysFollowScheme'
  BY <1>3, <1>4, FoldInSchemes DEF AuthInv, TypeOK, KeysFollowScheme, KeyEntry
<1>7. OneSubjectPerKey'
  BY <1>3 DEF AuthInv, OneSubjectPerKey
<1> QED
  BY <1>5, <1>6, <1>7 DEF AuthInv

\* quackapi_add_api_key.
LEMMA AddApiKeyInv ==
  ASSUME AuthInv, NEW n \in SchemeNames, NEW k \in Keys, NEW subject \in Subjects, AddApiKey(n, k, subject)
  PROVE  AuthInv'
<1> DEFINE auth == auths[Fold[n]]
           added == [auth_name |-> auth.name, key |-> k, subject |-> subject]
<1>1. auth.kind = "API_KEY" /\ auths' = auths /\ now' = now /\ check' = check
  BY DEF AddApiKey
<1>2. auth # NoAuth
  BY <1>1 DEF NoAuth
<1>3. auth \in Auth /\ Fold[auth.name] = Fold[n]
  BY <1>2, FoldInSchemes DEF AuthInv, TypeOK
<1>4. auth.name \in SchemeNames
  BY <1>3 DEF Auth
<1>5. added \in KeyEntry /\ added.auth_name = auth.name /\ added.key = k
  BY <1>4 DEF KeyEntry
<1>6. api_keys' = {e \in api_keys : Fold[e.auth_name] # Fold[n] \/ e.key # k} \cup {added}
  BY DEF AddApiKey, WithKey
<1>7. TypeOK'
  BY <1>1, <1>5, <1>6 DEF AuthInv, TypeOK
<1>8. KeysFollowScheme'
  BY <1>1, <1>2, <1>3, <1>5, <1>6 DEF AuthInv, KeysFollowScheme
<1>9. OneSubjectPerKey'
  BY <1>3, <1>5, <1>6 DEF AuthInv, OneSubjectPerKey
<1> QED
  BY <1>7, <1>8, <1>9 DEF AuthInv

\* A step of a check only changes that check.
LEMMA CheckStepInv ==
  ASSUME AuthInv, NEW r \in Checks, NEW c \in CheckState, Step(r, c)
  PROVE  AuthInv'
<1>1. check' \in [Checks -> CheckState]
  BY DEF AuthInv, TypeOK, Step
<1>2. TypeOK'
  BY <1>1 DEF AuthInv, TypeOK, Step
<1>3. KeysFollowScheme' /\ OneSubjectPerKey'
  BY DEF AuthInv, KeysFollowScheme, OneSubjectPerKey, Step
<1> QED
  BY <1>2, <1>3 DEF AuthInv

\* The states a check may enter.
LEMMA CheckStates ==
  ASSUME NEW n \in SchemeNames, NEW cred \in Credentials \cup {Nothing}
  PROVE  /\ [at |-> "denied"] \in CheckState
         /\ NoCheck \in CheckState
         /\ [at |-> "verify", name |-> n, cred |-> cred] \in CheckState
         /\ [at |-> "keys", name |-> n, cred |-> cred] \in CheckState
         /\ cred # Nothing => \A sub \in Subjects \cup {Nothing} :
              [at |-> "admitted", name |-> n, cred |-> cred, sub |-> sub] \in CheckState
BY DEF CheckState

\* What is in a check under way.
LEMMA UnderWay ==
  ASSUME TypeOK, NEW r \in Checks, check[r].at \in {"verify", "keys"}
  PROVE  check[r].name \in SchemeNames /\ check[r].cred \in Credentials \cup {Nothing}
BY DEF TypeOK, CheckState, NoCheck

\* The first lookup of CheckAuth, and quackapi_verify_auth.
LEMMA ArriveInv ==
  ASSUME AuthInv, NEW r \in Checks, Arrive(r) \/ Bridge(r)
  PROVE  AuthInv'
<1>1. CASE Arrive(r)
  <2>1. PICK n \in SchemeNames, header \in Keys \cup {Nothing}, bearer \in Credentials \cup {Nothing} :
          Lookup(r, n, header, bearer)
    BY <1>1 DEF Arrive
  <2>2. Extract(auths[Fold[n]], header, bearer) \in Credentials \cup {Nothing}
    BY DEF Extract, Credentials
  <2> QED
    BY <2>1, <2>2, CheckStates, CheckStepInv DEF Lookup
<1>2. CASE Bridge(r)
  BY <1>2, CheckStates, CheckStepInv DEF Bridge, VerifyAuth
<1> QED
  BY <1>1, <1>2

\* The second lookup.
LEMMA VerifyAuthSchemeInv ==
  ASSUME AuthInv, NEW r \in Checks, VerifyAuthScheme(r)
  PROVE  AuthInv'
<1> DEFINE c == check[r]
<1>1. c.name \in SchemeNames /\ c.cred \in Credentials \cup {Nothing}
  BY UnderWay DEF VerifyAuthScheme, AuthInv
<1>2. c.cred # Nothing => [at |-> "admitted", name |-> c.name, cred |-> c.cred, sub |-> Nothing] \in CheckState
  BY <1>1, CheckStates
<1>3. /\ [at |-> "denied"] \in CheckState
      /\ [at |-> "keys", name |-> c.name, cred |-> c.cred] \in CheckState
  BY <1>1, CheckStates
<1> QED
  BY <1>2, <1>3, CheckStepInv DEF VerifyAuthScheme

\* The comparison with the keys.
LEMMA MatchKeyInv ==
  ASSUME AuthInv, NEW r \in Checks, MatchKey(r)
  PROVE  AuthInv'
<1> DEFINE c == check[r]
           matches == {e \in KeysOf(Fold[c.name]) : e.key = c.cred}
<1>1. c.name \in SchemeNames /\ c.cred \in Credentials \cup {Nothing}
  BY UnderWay DEF MatchKey, AuthInv
<1>2. CASE matches = {}
  <2>1. Step(r, [at |-> "denied"])
    BY <1>2 DEF MatchKey
  <2> QED
    BY <2>1, <1>1, CheckStates, CheckStepInv
<1>3. CASE matches # {}
  <2>1. PICK e \in matches :
          Step(r, [at |-> "admitted", name |-> c.name, cred |-> c.cred, sub |-> e.subject])
    BY <1>3 DEF MatchKey
  <2>2. e.key = c.cred /\ e.key \in Keys /\ e.subject \in Subjects
    BY DEF KeysOf, AuthInv, TypeOK, KeyEntry
  <2>3. c.cred # Nothing
    BY <2>2, AuthAssumption
  <2>4. [at |-> "admitted", name |-> c.name, cred |-> c.cred, sub |-> e.subject] \in CheckState
    BY <1>1, <2>2, <2>3, CheckStates
  <2> QED
    BY <2>1, <2>4, CheckStepInv
<1> QED
  BY <1>2, <1>3

\* Every step preserves the invariant.
LEMMA AuthNextInv == AuthInv /\ [AuthNext]_authVars => AuthInv'
<1> SUFFICES ASSUME AuthInv, [AuthNext]_authVars PROVE AuthInv'
  OBVIOUS
<1>1. CASE Create
  BY <1>1, AddAuthInv DEF Create
<1>2. ASSUME NEW n \in SchemeNames, DropAuth(n) PROVE AuthInv'
  BY <1>2, DropAuthInv
<1>3. CASE AddKey
  BY <1>3, AddApiKeyInv DEF AddKey
<1>4. ASSUME NEW r \in Checks, Arrive(r) \/ Bridge(r) PROVE AuthInv'
  BY <1>4, ArriveInv
<1>5. ASSUME NEW r \in Checks, VerifyAuthScheme(r) PROVE AuthInv'
  BY <1>5, VerifyAuthSchemeInv
<1>6. ASSUME NEW r \in Checks, MatchKey(r) PROVE AuthInv'
  BY <1>6, MatchKeyInv
<1>7. ASSUME NEW r \in Checks, Done(r) PROVE AuthInv'
  <2>1. NoCheck \in CheckState
    BY DEF CheckState
  <2> QED
    BY <1>7, <2>1, CheckStepInv DEF Done
<1>8. CASE AuthTick
  BY <1>8, AuthAssumption DEF AuthTick, AuthInv, TypeOK, KeysFollowScheme, OneSubjectPerKey
<1>9. CASE UNCHANGED authVars
  BY <1>9 DEF authVars, AuthInv, TypeOK, KeysFollowScheme, OneSubjectPerKey
<1> QED
  BY <1>1, <1>2, <1>3, <1>4, <1>5, <1>6, <1>7, <1>8, <1>9 DEF AuthNext

\* A key never outlives its scheme or the scheme's kind, however CREATE OR
\* REPLACE AUTH, DROP AUTH and quackapi_add_api_key follow one another.
THEOREM AuthKeysFollowScheme == AuthSpec => []KeysFollowScheme
<1>1. AuthInv => KeysFollowScheme
  BY DEF AuthInv
<1> QED
  BY <1>1, AuthInitInv, AuthNextInv, PTL DEF AuthSpec

\* A key names one subject within its scheme: the first match is the only one.
THEOREM AuthOneSubjectPerKey == AuthSpec => []OneSubjectPerKey
<1>1. AuthInv => OneSubjectPerKey
  BY DEF AuthInv
<1> QED
  BY <1>1, AuthInitInv, AuthNextInv, PTL DEF AuthSpec

\* The registry stays well formed, and a request is only admitted with a
\* credential.
THEOREM AuthTypeOK == AuthSpec => []TypeOK
<1>1. AuthInv => TypeOK
  BY DEF AuthInv
<1> QED
  BY <1>1, AuthInitInv, AuthNextInv, PTL DEF AuthSpec

\* The step that admits a check judges by the scheme as it is in that step.
LEMMA AdmissionStep ==
  ASSUME AuthInv, [AuthNext]_authVars, NEW r \in Checks,
         check[r].at # "admitted", check'[r].at = "admitted"
  PROVE  Justified(check'[r])
<1> DEFINE c == check[r]
<1>1. check \in [Checks -> CheckState]
  BY DEF AuthInv, TypeOK
<1>2. \A q \in Checks : \A d : Step(q, d) => (IF q = r THEN check'[r] = d ELSE check'[r] = check[r])
  BY <1>1 DEF Step
<1>3. VerifyAuthScheme(r) \/ MatchKey(r)
  <2>1. check' # check
    OBVIOUS
  <2>2. ~Create /\ ~AddKey /\ ~AuthTick /\ (\A n \in SchemeNames : ~DropAuth(n)) /\ ~UNCHANGED authVars
    BY <2>1 DEF Create, AddAuth, AddKey, AddApiKey, AuthTick, DropAuth, authVars
  <2>3. PICK q \in Checks : Arrive(q) \/ Bridge(q) \/ VerifyAuthScheme(q) \/ MatchKey(q) \/ Done(q)
    BY <2>2 DEF AuthNext
  <2>4. \E d : Step(q, d)
    BY <2>3 DEF Arrive, Lookup, Bridge, VerifyAuth, VerifyAuthScheme, MatchKey, Done
  <2>5. q = r
    BY <2>4, <1>2
  <2>6. ~Arrive(r)
    <3> SUFFICES ASSUME NEW n \in SchemeNames, NEW cred, Step(r, [at |-> "denied"])
                          \/ Step(r, [at |-> "verify", name |-> n, cred |-> cred])
                 PROVE  FALSE
      BY DEF Arrive, Lookup
    <3> QED
      BY <1>2
  <2>7. ~Bridge(r)
    <3> SUFFICES ASSUME NEW n \in SchemeNames, NEW cred,
                        Step(r, [at |-> "verify", name |-> n, cred |-> cred])
                 PROVE  FALSE
      BY DEF Bridge, VerifyAuth
    <3> QED
      BY <1>2
  <2>8. ~Done(r)
    BY <1>2 DEF Done, NoCheck
  <2> QED
    BY <2>3, <2>5, <2>6, <2>7, <2>8
<1>4. c.at \in {"verify", "keys"}
  BY <1>3 DEF VerifyAuthScheme, MatchKey
<1>5. c.name \in SchemeNames /\ c.cred \in Credentials \cup {Nothing} /\ Fold[c.name] \in Schemes
  BY <1>4, UnderWay, FoldInSchemes DEF AuthInv
<1>6. CASE VerifyAuthScheme(r)
  <2> DEFINE auth == auths[Fold[c.name]]
  <2>1. /\ auth # NoAuth /\ auth.kind # "API_KEY" /\ TokenAccepted(auth, c.cred)
        /\ check'[r] = [at |-> "admitted", name |-> c.name, cred |-> c.cred, sub |-> Nothing]
    BY <1>2, <1>6 DEF VerifyAuthScheme
  <2>2. auth.kind = "JWT_HS256"
    BY <2>1, <1>5 DEF AuthInv, TypeOK, Auth
  <2>3. c.cred \in Tokens /\ c.cred.secret = auth.secret /\ now \in c.cred.nbf..(c.cred.exp - 1)
    BY <2>1, AuthAssumption DEF TokenAccepted, InForce, AuthInv, TypeOK
  <2>4. check'[r].name = c.name /\ check'[r].cred = c.cred
    BY <2>1
  <2> QED
    BY <2>1, <2>2, <2>3, <2>4 DEF Justified
<1>7. CASE MatchKey(r)
  <2>1. PICK e \in KeysOf(Fold[c.name]) :
          /\ e.key = c.cred
          /\ check'[r] = [at |-> "admitted", name |-> c.name, cred |-> c.cred, sub |-> e.subject]
    BY <1>2, <1>7 DEF MatchKey
  <2>2. check'[r].name = c.name /\ check'[r].cred = c.cred /\ check'[r].sub = e.subject
    BY <2>1
  <2>3. auths[Fold[c.name]] # NoAuth /\ auths[Fold[c.name]].kind = "API_KEY"
    BY DEF KeysOf, AuthInv, KeysFollowScheme
  <2> QED
    BY <2>1, <2>2, <2>3 DEF Justified
<1> QED
  BY <1>3, <1>6, <1>7

\* A request is admitted only by a credential the scheme accepts at that very
\* moment, although CheckAuth looked the scheme up in earlier steps.
THEOREM AuthAdmissionIsJustified == AuthSpec => AdmissionIsJustified
<1>1. AuthInv /\ [AuthNext]_authVars =>
        [\A r \in Checks :
           (check[r].at # "admitted" /\ check'[r].at = "admitted") => Justified(check'[r])]_authVars
  BY AdmissionStep
<1> QED
  BY <1>1, AuthInitInv, AuthNextInv, PTL DEF AuthSpec, AdmissionIsJustified

-----------------------------------------------------------------------------
(* Routes and rate limits.                                                 *)

Route == [name : Names, path : Paths, limit : Limits, version : Nat, since : Nat]
Entry == [count : Nat, expires : Int]

RequestState ==
  {Idle} \cup [at : {"matched"}, client : Clients, route : Route]
         \cup [at : {"limit"}, client : Clients, route : Route, now : Nat]

RouteTypeOK ==
  /\ routes \subseteq Route
  /\ entries \in [Buckets -> Entry]
  /\ request \in [Requests -> RequestState]
  /\ clock \in Nat
  /\ version \in Nat
  /\ passed \in [Buckets -> Nat]
  /\ mixed \subseteq Buckets

\* Nothing is newer than the latest registration, and a reading of the clock lies
\* between the registration of the route it is for and the present.
InThePast ==
  /\ \A r \in routes : r.version <= version /\ r.since <= clock
  /\ \A q \in Requests :
       /\ request[q].at # "idle" => request[q].route.version <= version /\ request[q].route.since <= clock
       /\ request[q].at = "limit" => /\ request[q].route.limit.n > 0
                                     /\ request[q].route.since <= request[q].now
                                     /\ request[q].now <= clock

\* The requests of route r that wait for the limiter with a reading for client c.
Waiting(r, c) == {q \in Requests : request[q].at = "limit" /\ request[q].route = r /\ request[q].client = c}

\* k windows of route r are over at time t.
Over(r, k, t) == r.since + k * r.limit.per <= t

\* Bucket b of route r and client c has let pass what fits into the windows since the
\* route was registered.  A bucket that is not there stands for windows that are over,
\* also for the requests that wait.
Within(r, c, b) ==
  IF entries[b] # NoEntry
  THEN /\ entries[b].count <= r.limit.n
       /\ entries[b].expires <= clock + r.limit.per
       /\ \E k \in Nat : /\ Over(r, k + 1, entries[b].expires)
                         /\ passed[b] <= k * r.limit.n + entries[b].count
  ELSE \E k \in Nat : /\ passed[b] <= k * r.limit.n
                      /\ Over(r, k, clock)
                      /\ \A q \in Waiting(r, c) : Over(r, k, request[q].now)

RateOK ==
  \A r \in routes, c \in Clients :
    r.limit.n > 0 /\ <<r.name, c>> \notin mixed => Within(r, c, <<r.name, c>>)

RouteInv ==
  /\ RouteTypeOK
  /\ InThePast
  /\ PathsUnique
  /\ Size(entries) <= Capacity
  /\ RateOK

-----------------------------------------------------------------------------
(* Multiples, sizes and types.                                             *)

LEMMA NextMultiple ==
  ASSUME NEW k \in Nat, NEW m \in Nat
  PROVE  k * m \in Nat /\ (k + 1) * m = k * m + m
  OBVIOUS

LEMMA MultiplesGrow ==
  ASSUME NEW k \in Int, NEW l \in Int, NEW m \in Nat, k <= l
  PROVE  k * m <= l * m
  OBVIOUS

\* k windows fit into a seconds only if k is at most the whole number of them.
LEMMA WholeWindows ==
  ASSUME NEW k \in Nat, NEW a \in Nat, NEW p \in Nat \ {0}, k * p <= a
  PROVE  k <= a \div p /\ a \div p \in Nat
<1> DEFINE d == a \div p
<1>1. d \in Nat /\ a < (d + 1) * p
  OBVIOUS
<1> HIDE DEF d
<1>2. ASSUME k > d PROVE FALSE
  <2>1. (d + 1) * p <= k * p
    BY <1>1, <1>2, MultiplesGrow
  <2>2. (d + 1) * p \in Int /\ k * p \in Int
    BY <1>1
  <2> QED
    BY <1>1, <2>1, <2>2
<1> QED
  BY <1>1, <1>2 DEF d

LEMMA RouteFacts ==
  ASSUME NEW r \in Route
  PROVE  /\ r.name \in Names /\ r.limit \in Limits /\ r.version \in Nat /\ r.since \in Nat
         /\ r.limit.n \in Nat /\ r.limit.per \in Nat \ {0}
  BY RouteAssumption DEF Route

LEMMA BucketsFinite == IsFiniteSet(Buckets)
  BY RouteAssumption, FS_Product DEF Buckets

LEMMA EntryFacts ==
  /\ NoEntry \in Entry
  /\ \A e \in Entry : e.count \in Nat /\ e.expires \in Int
  BY DEF NoEntry, Entry

\* A request by its place.
LEMMA RequestFacts ==
  ASSUME RouteTypeOK, NEW q \in Requests
  PROVE  /\ request[q].at \in {"idle", "matched", "limit"}
         /\ request[q].at # "idle" => /\ request[q].client \in Clients /\ request[q].route \in Route
                                      /\ <<request[q].route.name, request[q].client>> \in Buckets
         /\ request[q].at = "limit" => request[q].now \in Nat
<1>1. request[q] \in RequestState
  BY DEF RouteTypeOK
<1>2. request[q].at \in {"idle", "matched", "limit"}
  BY <1>1 DEF RequestState, Idle
<1>3. request[q].at # "idle" => request[q].client \in Clients /\ request[q].route \in Route
  BY <1>1 DEF RequestState, Idle
<1>4. request[q].at = "limit" => request[q].now \in Nat
  BY <1>1 DEF RequestState, Idle
<1>5. request[q].at # "idle" => <<request[q].route.name, request[q].client>> \in Buckets
  BY <1>3, RouteFacts DEF Buckets
<1> QED
  BY <1>2, <1>3, <1>4, <1>5

\* Size counts a finite set.
LEMMA SizeFacts ==
  ASSUME NEW es
  PROVE  IsFiniteSet({b \in Buckets : es[b] # NoEntry}) /\ Size(es) \in Nat
<1>1. {b \in Buckets : es[b] # NoEntry} \in SUBSET Buckets
  OBVIOUS
<1>2. IsFiniteSet({b \in Buckets : es[b] # NoEntry})
  BY <1>1, BucketsFinite, FS_Subset
<1> QED
  BY <1>2, FS_CardinalityType DEF Size

\* Fewer buckets, smaller size.
LEMMA SizeShrinks ==
  ASSUME NEW es, NEW fs, \A b \in Buckets : es[b] = NoEntry => fs[b] = NoEntry
  PROVE  Size(fs) <= Size(es)
<1>1. {b \in Buckets : fs[b] # NoEntry} \in SUBSET {b \in Buckets : es[b] # NoEntry}
  OBVIOUS
<1> QED
  BY <1>1, SizeFacts, FS_Subset DEF Size

\* A bucket that is written adds at most itself.
LEMMA SizeGrows ==
  ASSUME NEW es, NEW fs, NEW b \in Buckets, \A a \in Buckets \ {b} : fs[a] = es[a]
  PROVE  Size(fs) <= Size(es) + 1
<1> DEFINE A == {a \in Buckets : es[a] # NoEntry}
           B == {a \in Buckets : fs[a] # NoEntry}
<1>1. B \in SUBSET (A \cup {b})
  OBVIOUS
<1>2. IsFiniteSet(A) /\ Cardinality(A) \in Nat /\ Cardinality(B) \in Nat
  BY SizeFacts DEF Size
<1> HIDE DEF A, B
<1>3. IsFiniteSet(A \cup {b}) /\ Cardinality(A \cup {b}) <= Cardinality(A) + 1 /\ Cardinality(A \cup {b}) \in Nat
  <2>1. /\ IsFiniteSet(A \cup {b})
        /\ Cardinality(A \cup {b}) = IF b \in A THEN Cardinality(A) ELSE Cardinality(A) + 1
    BY <1>2, FS_AddElement
  <2> QED
    BY <1>2, <2>1
<1>4. Cardinality(B) <= Cardinality(A \cup {b})
  BY <1>1, <1>3, FS_Subset
<1>5. Cardinality(B) <= Cardinality(A) + 1
  BY <1>2, <1>3, <1>4
<1> QED
  BY <1>5 DEF A, B, Size

-----------------------------------------------------------------------------
(* The windows of one bucket.                                              *)

\* Nobody uses or purges the bucket; time passes, and requests read the clock, are
\* served or refused.
LEMMA WithinKept ==
  ASSUME RouteInv, clock' \in Nat, clock <= clock', NEW r \in Route, NEW c, NEW b \in Buckets, Within(r, c, b),
         entries'[b] = entries[b], passed'[b] = passed[b],
         \A q \in Waiting(r, c)' : \/ q \in Waiting(r, c) /\ request'[q].now = request[q].now
                                   \/ request'[q].now = clock
  PROVE  Within(r, c, b)'
<1>1. r.limit.n \in Nat /\ r.limit.per \in Nat /\ r.since \in Nat /\ clock \in Nat
  BY RouteFacts DEF RouteInv, RouteTypeOK
<1>2. CASE entries[b] # NoEntry
  <2>1. entries[b].count <= r.limit.n /\ entries[b].expires <= clock + r.limit.per /\ entries[b].expires \in Int
    BY <1>2, EntryFacts DEF Within, RouteInv, RouteTypeOK
  <2>2. entries[b].expires <= clock' + r.limit.per
    BY <1>1, <2>1
  <2> QED
    BY <1>2, <2>1, <2>2 DEF Within, Over
<1>3. CASE entries[b] = NoEntry
  <2>1. PICK k \in Nat : /\ passed[b] <= k * r.limit.n /\ Over(r, k, clock)
                         /\ \A q \in Waiting(r, c) : Over(r, k, request[q].now)
    BY <1>3 DEF Within
  <2>2. Over(r, k, clock')
    <3>1. r.since + k * r.limit.per \in Int
      BY <1>1
    <3> QED
      BY <1>1, <2>1, <3>1 DEF Over
  <2>3. \A q \in Waiting(r, c)' : Over(r, k, request'[q].now)
    BY <2>1
  <2> QED
    BY <1>3, <2>1, <2>2, <2>3 DEF Within, Over
<1> QED
  BY <1>2, <1>3

\* The bucket is purged when its window is over for everybody who waits.
LEMMA WithinPurged ==
  ASSUME RouteInv, clock' = clock, NEW r \in Route, NEW c, NEW b \in Buckets, Within(r, c, b),
         entries[b] # NoEntry, entries[b].expires <= clock, entries'[b] = NoEntry, passed'[b] = passed[b],
         \A q \in Waiting(r, c)' : request'[q].now \in Nat /\ entries[b].expires <= request'[q].now
  PROVE  Within(r, c, b)'
<1>1. r.limit.n \in Nat /\ r.limit.per \in Nat /\ r.since \in Nat /\ clock \in Nat /\ passed[b] \in Nat
      /\ entries[b].count \in Nat /\ entries[b].expires \in Int
  BY RouteFacts, EntryFacts DEF RouteInv, RouteTypeOK
<1>2. PICK k \in Nat : Over(r, k + 1, entries[b].expires) /\ passed[b] <= k * r.limit.n + entries[b].count
  BY DEF Within
<1>3. passed[b] <= (k + 1) * r.limit.n
  <2>1. k * r.limit.n \in Nat /\ (k + 1) * r.limit.n = k * r.limit.n + r.limit.n
    BY <1>1, NextMultiple
  <2>2. entries[b].count <= r.limit.n
    BY DEF Within
  <2> HIDE DEF Within
  <2> QED
    BY <1>1, <1>2, <2>1, <2>2
<1>4. \A t \in Nat : entries[b].expires <= t => Over(r, k + 1, t)
  <2>1. r.since + (k + 1) * r.limit.per \in Int
    BY <1>1
  <2> QED
    BY <1>1, <1>2, <2>1 DEF Over
<1>5. k + 1 \in Nat /\ Over(r, k + 1, clock) /\ \A q \in Waiting(r, c)' : Over(r, k + 1, request'[q].now)
  BY <1>1, <1>4
<1> QED
  BY <1>3, <1>5 DEF Within, Over

\* A request of the route gets through: in the window that is running, or in a new one
\* that begins with its reading of the clock.
LEMMA WithinAllowed ==
  ASSUME RouteInv, clock' = clock, NEW r \in Route, r.limit.n > 0, NEW c, NEW b \in Buckets, Within(r, c, b),
         NEW q \in Waiting(r, c), NEW time \in Nat, time = request[q].now, time <= clock,
         NEW e \in Entry, e = Bucket(entries, b, r, time), ~Spent(e, r),
         entries'[b] = [e EXCEPT !.count = e.count + 1], passed'[b] = passed[b] + 1
  PROVE  Within(r, c, b)'
<1>1. r.limit.n \in Nat /\ r.limit.per \in Nat \ {0} /\ r.since \in Nat /\ clock \in Nat /\ passed[b] \in Nat
      /\ entries[b] \in Entry /\ entries[b].count \in Nat /\ entries[b].expires \in Int
  BY RouteFacts, EntryFacts DEF RouteInv, RouteTypeOK
<1>2. e.count \in Nat /\ e.expires \in Int /\ e.count < r.limit.n
  BY <1>1, EntryFacts DEF Spent
<1>3. entries'[b].count = e.count + 1 /\ entries'[b].expires = e.expires /\ entries'[b] # NoEntry
  BY <1>2 DEF Entry, NoEntry
<1>4. SUFFICES /\ e.expires <= clock + r.limit.per
               /\ \E k \in Nat : Over(r, k + 1, e.expires) /\ passed[b] + 1 <= k * r.limit.n + (e.count + 1)
  BY <1>1, <1>2, <1>3 DEF Within, Over
<1>5. CASE entries[b].expires <= time
  <2>1. e.count = 0 /\ e.expires = time + r.limit.per
    BY <1>5 DEF Bucket
  <2>2. \E k \in Nat : Over(r, k, time) /\ passed[b] <= k * r.limit.n
    <3>1. CASE entries[b] = NoEntry
      BY <3>1 DEF Within
    <3>2. CASE entries[b] # NoEntry
      <4>1. PICK k \in Nat : Over(r, k + 1, entries[b].expires) /\ passed[b] <= k * r.limit.n + entries[b].count
        BY <3>2 DEF Within
      <4>2. entries[b].count <= r.limit.n
        BY <3>2 DEF Within
      <4>3. k * r.limit.n \in Nat /\ (k + 1) * r.limit.n = k * r.limit.n + r.limit.n
        BY <1>1, NextMultiple
      <4>4. passed[b] <= (k + 1) * r.limit.n
        BY <1>1, <4>1, <4>2, <4>3
      <4>5. Over(r, k + 1, time)
        <5>1. r.since + (k + 1) * r.limit.per \in Int
          BY <1>1
        <5> QED
          BY <1>1, <1>5, <4>1, <5>1 DEF Over
      <4> QED
        BY <4>4, <4>5
    <3> QED
      BY <3>1, <3>2
  <2>3. PICK k \in Nat : Over(r, k, time) /\ passed[b] <= k * r.limit.n
    BY <2>2
  <2>4. k * r.limit.per \in Nat /\ (k + 1) * r.limit.per = k * r.limit.per + r.limit.per /\ k * r.limit.n \in Nat
    BY <1>1, NextMultiple
  <2>5. Over(r, k + 1, e.expires)
    BY <1>1, <2>1, <2>3, <2>4 DEF Over
  <2>6. passed[b] + 1 <= k * r.limit.n + (e.count + 1)
    BY <1>1, <2>1, <2>3, <2>4
  <2>7. e.expires <= clock + r.limit.per
    BY <1>1, <2>1
  <2> QED
    BY <2>5, <2>6, <2>7
<1>6. CASE ~(entries[b].expires <= time)
  <2>1. e = entries[b]
    BY <1>6 DEF Bucket
  <2>2. entries[b] # NoEntry
    BY <1>6 DEF NoEntry
  <2>3. PICK k \in Nat : Over(r, k + 1, entries[b].expires) /\ passed[b] <= k * r.limit.n + entries[b].count
    BY <2>2 DEF Within
  <2>4. entries[b].expires <= clock + r.limit.per
    BY <2>2 DEF Within
  <2>5. k * r.limit.n \in Nat
    BY <1>1, NextMultiple
  <2>6. passed[b] + 1 <= k * r.limit.n + (e.count + 1)
    BY <1>1, <2>1, <2>3, <2>5
  <2> QED
    BY <2>1, <2>3, <2>4, <2>6
<1> QED
  BY <1>5, <1>6

-----------------------------------------------------------------------------
(* Statements about routes.                                                *)

LEMMA RouteInitInv == Init => RouteInv
<1> SUFFICES ASSUME Init PROVE RouteInv
  OBVIOUS
<1>1. RouteTypeOK
  BY EntryFacts DEF Init, RouteTypeOK, RequestState
<1>2. InThePast
  BY DEF Init, InThePast, Idle
<1>3. PathsUnique /\ RateOK
  BY DEF Init, PathsUnique, RateOK
<1>4. Size(entries) <= Capacity
  <2>1. {b \in Buckets : entries[b] # NoEntry} = {}
    BY DEF Init
  <2>2. Size(entries) = 0
    BY <2>1, FS_EmptySet DEF Size
  <2> QED
    BY <2>2, RouteAssumption
<1> QED
  BY <1>1, <1>2, <1>3, <1>4 DEF RouteInv

LEMMA StampFacts ==
  ASSUME RouteTypeOK, NEW batch \in Batches
  PROVE  /\ Stamp(batch) \in Seq(Route) /\ Len(Stamp(batch)) = Len(batch) /\ Len(batch) \in Nat
         /\ DOMAIN batch = 1..Len(batch)
         /\ \A i \in 1..Len(batch) : /\ Stamp(batch)[i].name = batch[i].name
                                     /\ Stamp(batch)[i].version = version + 1
                                     /\ Stamp(batch)[i].since = clock
<1>1. batch \in Seq([name : Names, path : Paths, limit : Limits])
  BY RouteAssumption
<1>2. Len(batch) \in Nat /\ DOMAIN batch = 1..Len(batch)
  BY <1>1
<1>3. \A i \in 1..Len(batch) : Stamp(batch)[i] \in Route
  <2> SUFFICES ASSUME NEW i \in 1..Len(batch) PROVE Stamp(batch)[i] \in Route
    OBVIOUS
  <2> DEFINE T == [name : Names, path : Paths, limit : Limits]
  <2>0. batch \in Seq(T)
    BY <1>1
  <2>1. batch[i] \in T
    <3> HIDE DEF T
    <3> QED
      BY <1>2, <2>0
  <2>2. batch[i].name \in Names /\ batch[i].path \in Paths /\ batch[i].limit \in Limits
    BY <2>1
  <2>3. version + 1 \in Nat /\ clock \in Nat
    BY DEF RouteTypeOK
  <2> QED
    BY <1>2, <2>2, <2>3 DEF Stamp, Route
<1>4. Stamp(batch) \in [1..Len(batch) -> Route]
  BY <1>2, <1>3 DEF Stamp
<1>5. Stamp(batch) \in Seq(Route) /\ Len(Stamp(batch)) = Len(batch)
  BY <1>2, <1>4
<1> QED
  BY <1>2, <1>5 DEF Stamp

\* What AddRoutes publishes: a route of the statement, or one none of them replaces.
LEMMA ProposedCases ==
  ASSUME NEW new \in Seq(Route), NEW i \in 0..Len(new), NEW r \in Proposed(new, i)
  PROVE  \/ r \in routes /\ \A k \in 1..i : new[k].name # r.name
         \/ \E j \in 1..i : r = new[j] /\ \A k \in (j + 1)..i : new[k].name # new[j].name
  BY DEF Proposed

\* Names and paths stay unique, since each route of the statement was compared with the
\* private copy it went into.
LEMMA ProposedUnique ==
  ASSUME PathsUnique, NEW new \in Seq(Route), NEW or_replace, Accepted(new, or_replace)
  PROVE  \A r, s \in Proposed(new, Len(new)) : r.name = s.name \/ r.path = s.path => r = s
<1> DEFINE n == Len(new)
<1>0. n \in Nat
  OBVIOUS
\* A registered route beside one of the statement.
<1>1. ASSUME NEW r \in routes, \A k \in 1..n : new[k].name # r.name, NEW j \in 1..n
      PROVE  r.name # new[j].name /\ r.path # new[j].path
  <2>1. r \in Proposed(new, j - 1)
    BY <1>0, <1>1 DEF Proposed
  <2>2. ~Collides(Proposed(new, j - 1), new[j])
    BY DEF Accepted
  <2> QED
    BY <1>1, <2>1, <2>2 DEF Collides
\* Two routes of the statement.
<1>2. ASSUME NEW i \in 1..n, NEW j \in 1..n, i < j, \A k \in (i + 1)..n : new[k].name # new[i].name
      PROVE  new[i].name # new[j].name /\ new[i].path # new[j].path
  <2>1. new[i].name # new[j].name
    BY <1>0, <1>2
  <2>2. new[i] \in Proposed(new, j - 1)
    <3>1. i \in 1..(j - 1) /\ \A k \in (i + 1)..(j - 1) : new[k].name # new[i].name
      BY <1>0, <1>2
    <3> QED
      BY <3>1 DEF Proposed
  <2>3. ~Collides(Proposed(new, j - 1), new[j])
    BY DEF Accepted
  <2> QED
    BY <2>1, <2>2, <2>3 DEF Collides
<1> SUFFICES ASSUME NEW r \in Proposed(new, n), NEW s \in Proposed(new, n), r.name = s.name \/ r.path = s.path
             PROVE  r = s
  OBVIOUS
<1>3. n \in 0..Len(new)
  BY <1>0
<1>4. \/ r \in routes /\ \A k \in 1..n : new[k].name # r.name
      \/ \E j \in 1..n : r = new[j] /\ \A k \in (j + 1)..n : new[k].name # new[j].name
  BY <1>3, ProposedCases
<1>5. \/ s \in routes /\ \A k \in 1..n : new[k].name # s.name
      \/ \E j \in 1..n : s = new[j] /\ \A k \in (j + 1)..n : new[k].name # new[j].name
  BY <1>3, ProposedCases
<1> HIDE DEF n
<1>6. CASE r \in routes /\ \A k \in 1..n : new[k].name # r.name
  <2>1. CASE s \in routes
    BY <1>6, <2>1 DEF PathsUnique
  <2>2. CASE \E j \in 1..n : s = new[j]
    BY <1>1, <1>6, <2>2
  <2> QED
    BY <1>5, <2>1, <2>2
<1>7. CASE \E j \in 1..n : r = new[j] /\ \A k \in (j + 1)..n : new[k].name # new[j].name
  <2>1. PICK i \in 1..n : r = new[i] /\ \A k \in (i + 1)..n : new[k].name # new[i].name
    BY <1>7
  <2>2. CASE s \in routes /\ \A k \in 1..n : new[k].name # s.name
    BY <1>1, <2>1, <2>2
  <2>3. CASE \E j \in 1..n : s = new[j] /\ \A k \in (j + 1)..n : new[k].name # new[j].name
    <3>1. PICK j \in 1..n : s = new[j] /\ \A k \in (j + 1)..n : new[k].name # new[j].name
      BY <2>3
    <3>2. i = j \/ i < j \/ j < i
      BY <1>0
    <3> QED
      BY <1>2, <2>1, <3>1, <3>2
  <2> QED
    BY <1>5, <2>2, <2>3
<1> QED
  BY <1>4, <1>6, <1>7

\* ClearRouteRateLimit leaves fewer buckets.
LEMMA Cleared ==
  ASSUME RouteInv, NEW ns, ClearRouteRateLimit(ns)
  PROVE  /\ entries' \in [Buckets -> Entry] /\ passed' \in [Buckets -> Nat] /\ mixed' \subseteq Buckets
         /\ Size(entries') <= Capacity
<1>1. entries' \in [Buckets -> Entry] /\ passed' \in [Buckets -> Nat] /\ mixed' \subseteq Buckets
  BY EntryFacts DEF ClearRouteRateLimit, RouteInv, RouteTypeOK
<1>2. \A b \in Buckets : entries[b] = NoEntry => entries'[b] = NoEntry
  BY DEF ClearRouteRateLimit
<1>3. Size(entries') <= Size(entries)
  BY <1>2, SizeShrinks
<1>4. Size(entries') \in Nat /\ Size(entries) \in Nat /\ Capacity \in Nat
  BY SizeFacts, RouteAssumption
<1> QED
  BY <1>1, <1>3, <1>4 DEF RouteInv

\* A route whose name is not cleared keeps its windows.
LEMMA OtherRoute ==
  ASSUME RouteInv, NEW ns, ClearRouteRateLimit(ns), UNCHANGED <<request, clock>>,
         NEW r \in routes, r.name \notin ns, NEW c \in Clients, r.limit.n > 0, <<r.name, c>> \notin mixed'
  PROVE  Within(r, c, <<r.name, c>>)'
<1> DEFINE b == <<r.name, c>>
<1>1. r \in Route /\ b \in Buckets /\ clock \in Nat
  BY RouteFacts DEF RouteInv, RouteTypeOK, Buckets
<1>2. b \notin mixed /\ entries'[b] = entries[b] /\ passed'[b] = passed[b]
  BY <1>1 DEF ClearRouteRateLimit
<1>3. Within(r, c, b)
  BY <1>2 DEF RouteInv, RateOK
<1>4. \A q \in Waiting(r, c)' : q \in Waiting(r, c) /\ request'[q].now = request[q].now
  BY DEF Waiting
<1>5. clock' \in Nat /\ clock <= clock'
  BY <1>1
<1> HIDE DEF b
<1>6. Within(r, c, b)'
  BY <1>1, <1>2, <1>3, <1>4, <1>5, WithinKept
<1> QED
  BY <1>6 DEF b

\* CREATE [OR REPLACE] ROUTE and CREATE TABLE API.
LEMMA AddRoutesInv ==
  ASSUME RouteInv, NEW batch \in Batches, NEW or_replace \in BOOLEAN, AddRoutes(batch, or_replace)
  PROVE  RouteInv'
<1> DEFINE new == Stamp(batch)
           n == Len(batch)
           ns == {batch[i].name : i \in DOMAIN batch}
<1>1. /\ Accepted(new, or_replace) /\ routes' = Proposed(new, Len(new)) /\ version' = version + 1
      /\ ClearRouteRateLimit(ns) /\ UNCHANGED <<request, clock>>
  BY DEF AddRoutes
<1>2. RouteTypeOK
  BY DEF RouteInv
<1>3. /\ new \in Seq(Route) /\ Len(new) = n /\ n \in Nat /\ ns = {batch[i].name : i \in 1..n}
      /\ \A i \in 1..n : new[i] \in Route /\ new[i].name = batch[i].name /\ new[i].version = version + 1 /\ new[i].since = clock
  BY <1>2, StampFacts
<1> HIDE DEF new, n, ns
<1>4. clock \in Nat /\ version \in Nat
  BY <1>2 DEF RouteTypeOK
<1>5. ASSUME NEW r \in routes'
      PROVE  \/ r \in routes /\ r.name \notin ns
             \/ r \in Route /\ r.version = version + 1 /\ r.since = clock /\ r.name \in ns
  <2>1. n \in 0..Len(new) /\ r \in Proposed(new, n)
    BY <1>1, <1>3
  <2>2. \/ r \in routes /\ \A k \in 1..n : new[k].name # r.name
        \/ \E j \in 1..n : r = new[j] /\ \A k \in (j + 1)..n : new[k].name # new[j].name
    BY <1>3, <2>1, ProposedCases
  <2> QED
    BY <1>3, <2>2
<1>6. RouteTypeOK'
  <2>1. routes' \subseteq Route /\ version' \in Nat
    BY <1>1, <1>2, <1>4, <1>5 DEF RouteTypeOK
  <2> QED
    BY <1>1, <1>2, <2>1, Cleared DEF RouteTypeOK
<1>7. InThePast'
  <2>1. \A r \in routes' : r.version <= version' /\ r.since <= clock'
    <3>1. \A r \in routes : r.version <= version /\ r.since <= clock /\ r.version \in Nat
      BY <1>2, RouteFacts DEF RouteInv, InThePast, RouteTypeOK
    <3> QED
      BY <1>1, <1>4, <1>5, <3>1
  <2>2. \A q \in Requests : request[q].at # "idle" => request[q].route.version <= version + 1
    <3> SUFFICES ASSUME NEW q \in Requests, request[q].at # "idle" PROVE request[q].route.version <= version + 1
      OBVIOUS
    <3>1. request[q].route.version \in Nat
      BY <1>2, RequestFacts, RouteFacts
    <3>2. request[q].route.version <= version
      BY DEF RouteInv, InThePast
    <3> QED
      BY <1>4, <3>1, <3>2
  <2> QED
    BY <1>1, <2>1, <2>2 DEF RouteInv, InThePast
<1>8. PathsUnique'
  <2>1. \A r, s \in Proposed(new, Len(new)) : r.name = s.name \/ r.path = s.path => r = s
    BY <1>1, <1>3, ProposedUnique DEF RouteInv
  <2> QED
    BY <1>1, <2>1 DEF PathsUnique
<1>9. RateOK'
  <2> SUFFICES ASSUME NEW r \in routes', NEW c \in Clients, r.limit.n > 0, <<r.name, c>> \notin mixed'
               PROVE  Within(r, c, <<r.name, c>>)'
    BY DEF RateOK
  <2>1. CASE r \in routes /\ r.name \notin ns
    BY <1>1, <2>1, OtherRoute
  <2>2. CASE r \in Route /\ r.version = version + 1 /\ r.since = clock /\ r.name \in ns
    <3> DEFINE b == <<r.name, c>>
    <3>1. b \in Buckets /\ b[1] \in ns
      BY <2>2, RouteFacts DEF Buckets
    <3>2. entries'[b] = NoEntry /\ passed'[b] = 0
      BY <1>1, <3>1 DEF ClearRouteRateLimit
    <3>3. Waiting(r, c)' = {}
      <4> SUFFICES ASSUME NEW q \in Requests, request[q].at = "limit", request[q].route = r PROVE FALSE
        BY <1>1 DEF Waiting
      <4>1. r.version <= version
        BY DEF RouteInv, InThePast
      <4> QED
        BY <1>4, <2>2, <4>1
    <3>4. 0 <= 0 * r.limit.n /\ Over(r, 0, clock')
      BY <1>1, <1>4, <2>2, RouteFacts DEF Over
    <3> HIDE DEF b
    <3>5. Within(r, c, b)'
      BY <3>2, <3>3, <3>4 DEF Within, Over
    <3> QED
      BY <3>5 DEF b
  <2> QED
    BY <1>5, <2>1, <2>2
<1> QED
  BY <1>1, <1>6, <1>7, <1>8, <1>9, Cleared DEF RouteInv

LEMMA DropRouteInv ==
  ASSUME RouteInv, NEW name \in Names, DropRoute(name)
  PROVE  RouteInv'
<1>1. /\ routes' = {r \in routes : r.name # name} /\ ClearRouteRateLimit({name})
      /\ UNCHANGED <<request, clock, version>>
  BY DEF DropRoute
<1>2. RouteTypeOK'
  BY <1>1, Cleared DEF RouteInv, RouteTypeOK
<1>3. InThePast'
  BY <1>1 DEF RouteInv, InThePast
<1>4. PathsUnique'
  BY <1>1 DEF RouteInv, PathsUnique
<1>5. RateOK'
  <2> SUFFICES ASSUME NEW r \in routes', NEW c \in Clients, r.limit.n > 0, <<r.name, c>> \notin mixed'
               PROVE  Within(r, c, <<r.name, c>>)'
    BY DEF RateOK
  <2>1. r \in routes /\ r.name \notin {name}
    BY <1>1
  <2> QED
    BY <1>1, <2>1, OtherRoute
<1> QED
  BY <1>1, <1>2, <1>3, <1>4, <1>5, Cleared DEF RouteInv

-----------------------------------------------------------------------------
(* Steps of requests.                                                      *)

\* The limiter is not touched; a reading of the clock may begin.
LEMMA QuietInv ==
  ASSUME RouteInv, UNCHANGED <<routes, entries, version, passed, mixed>>, clock' \in Nat, clock <= clock',
         request' \in [Requests -> RequestState], InThePast',
         \A q \in Requests : request'[q].at = "limit" => request'[q] = request[q] \/ request'[q].now = clock
  PROVE  RouteInv'
<1>1. RouteTypeOK' /\ PathsUnique' /\ Size(entries') <= Capacity
  BY DEF RouteInv, RouteTypeOK, PathsUnique
<1>2. RateOK'
  <2> SUFFICES ASSUME NEW r \in routes, NEW c \in Clients, r.limit.n > 0, <<r.name, c>> \notin mixed
               PROVE  Within(r, c, <<r.name, c>>)'
    BY DEF RateOK
  <2> DEFINE b == <<r.name, c>>
  <2>1. r \in Route /\ b \in Buckets
    BY RouteFacts DEF RouteInv, RouteTypeOK, Buckets
  <2>2. Within(r, c, b)
    BY DEF RouteInv, RateOK
  <2>3. \A q \in Waiting(r, c)' : \/ q \in Waiting(r, c) /\ request'[q].now = request[q].now
                                  \/ request'[q].now = clock
    BY DEF Waiting
  <2> HIDE DEF b
  <2>4. Within(r, c, b)'
    BY <2>1, <2>2, <2>3, WithinKept
  <2> QED
    BY <2>4 DEF b
<1> QED
  BY <1>1, <1>2 DEF RouteInv

\* One request goes on as s.
LEMMA RequestStep ==
  ASSUME RouteInv, NEW q \in Requests, NEW s \in RequestState, request' = [request EXCEPT ![q] = s],
         UNCHANGED <<routes, version, clock>>,
         s.at # "idle" => s.route.version <= version /\ s.route.since <= clock,
         s.at = "limit" => s.route.limit.n > 0 /\ s.route.since <= s.now /\ s.now <= clock
  PROVE  /\ request' \in [Requests -> RequestState]
         /\ request'[q] = s /\ \A p \in Requests \ {q} : request'[p] = request[p]
         /\ InThePast' /\ clock' \in Nat /\ clock <= clock'
<1>1. request' \in [Requests -> RequestState] /\ request'[q] = s /\ \A p \in Requests \ {q} : request'[p] = request[p]
  BY DEF RouteInv, RouteTypeOK
<1>2. clock \in Nat
  BY DEF RouteInv, RouteTypeOK
<1>3. InThePast'
  BY <1>1 DEF RouteInv, InThePast
<1> QED
  BY <1>1, <1>2, <1>3

LEMMA MatchInv ==
  ASSUME RouteInv, NEW q \in Requests, NEW c \in Clients, NEW path \in Paths, Match(q, c, path)
  PROVE  RouteInv'
<1>1. PICK r \in routes : request' = [request EXCEPT ![q] = [at |-> "matched", client |-> c, route |-> r]]
  BY DEF Match
<1> DEFINE s == [at |-> "matched", client |-> c, route |-> r]
<1>2. r \in Route /\ r.version <= version /\ r.since <= clock
  BY DEF RouteInv, RouteTypeOK, InThePast
<1>3. s \in RequestState /\ s.at = "matched" /\ s.route = r
  BY <1>2 DEF RequestState
<1>4. UNCHANGED <<routes, entries, clock, version, passed, mixed>>
  BY DEF Match
<1> HIDE DEF s
<1>5. request' = [request EXCEPT ![q] = s]
  BY <1>1 DEF s
<1>6. /\ request' \in [Requests -> RequestState]
      /\ request'[q] = s /\ \A p \in Requests \ {q} : request'[p] = request[p]
      /\ InThePast' /\ clock' \in Nat /\ clock <= clock'
  BY <1>2, <1>3, <1>4, <1>5, RequestStep
<1>7. \A p \in Requests : request'[p].at = "limit" => request'[p] = request[p] \/ request'[p].now = clock
  BY <1>3, <1>6
<1> QED
  BY <1>4, <1>6, <1>7, QuietInv

LEMMA UnlimitedInv ==
  ASSUME RouteInv, NEW q \in Requests, Unlimited(q)
  PROVE  RouteInv'
<1>1. request' = [request EXCEPT ![q] = Idle] /\ UNCHANGED <<routes, entries, clock, version, passed, mixed>>
  BY DEF Unlimited
<1>2. Idle \in RequestState /\ Idle.at = "idle"
  BY DEF RequestState, Idle
<1>3. /\ request' \in [Requests -> RequestState]
      /\ request'[q] = Idle /\ \A p \in Requests \ {q} : request'[p] = request[p]
      /\ InThePast' /\ clock' \in Nat /\ clock <= clock'
  BY <1>1, <1>2, RequestStep
<1>4. \A p \in Requests : request'[p].at = "limit" => request'[p] = request[p] \/ request'[p].now = clock
  BY <1>2, <1>3
<1> QED
  BY <1>1, <1>3, <1>4, QuietInv

LEMMA ReadClockInv ==
  ASSUME RouteInv, NEW q \in Requests, ReadClock(q)
  PROVE  RouteInv'
<1> DEFINE c == request[q].client
           r == request[q].route
           s == [at |-> "limit", client |-> c, route |-> r, now |-> clock]
<1>1. /\ request[q].at = "matched" /\ r.limit.n > 0 /\ request' = [request EXCEPT ![q] = s]
      /\ UNCHANGED <<routes, entries, clock, version, passed, mixed>>
  BY DEF ReadClock
<1>2. c \in Clients /\ r \in Route /\ r.version <= version /\ r.since <= clock /\ clock \in Nat
  BY <1>1, RequestFacts DEF RouteInv, RouteTypeOK, InThePast
<1> HIDE DEF c, r
<1>3. s \in RequestState /\ s.at = "limit" /\ s.route = r /\ s.now = clock
  BY <1>2 DEF RequestState
<1> HIDE DEF s
<1>4. s.now <= clock
  BY <1>2, <1>3
<1>5. /\ request' \in [Requests -> RequestState]
      /\ request'[q] = s /\ \A p \in Requests \ {q} : request'[p] = request[p]
      /\ InThePast' /\ clock' \in Nat /\ clock <= clock'
  BY <1>1, <1>2, <1>3, <1>4, RequestStep
<1>6. \A p \in Requests : request'[p].at = "limit" => request'[p] = request[p] \/ request'[p].now = clock
  BY <1>3, <1>5
<1> QED
  BY <1>1, <1>5, <1>6, QuietInv

LEMMA RouteTickInv ==
  ASSUME RouteInv, Tick
  PROVE  RouteInv'
<1>1. clock' = clock + 1 /\ UNCHANGED <<routes, entries, request, version, passed, mixed>>
  BY DEF Tick
<1>2. clock \in Nat /\ clock' \in Nat /\ clock <= clock' /\ request' \in [Requests -> RequestState]
  BY <1>1 DEF RouteInv, RouteTypeOK
<1>3. InThePast'
  <2>1. \A r \in routes : r.version <= version /\ r.since <= clock /\ r.since \in Nat
    BY RouteFacts DEF RouteInv, InThePast, RouteTypeOK
  <2>2. \A q \in Requests :
          /\ request[q].at # "idle" => /\ request[q].route.version <= version /\ request[q].route.since <= clock
                                       /\ request[q].route.since \in Nat
          /\ request[q].at = "limit" => /\ request[q].route.limit.n > 0 /\ request[q].route.since <= request[q].now
                                        /\ request[q].now <= clock /\ request[q].now \in Nat
    BY RequestFacts, RouteFacts DEF RouteInv, InThePast
  <2> QED
    BY <1>1, <1>2, <2>1, <2>2 DEF InThePast
<1> QED
  BY <1>1, <1>2, <1>3, QuietInv

-----------------------------------------------------------------------------
(* The limiter.                                                            *)

\* Room is made of buckets whose windows are over, and not of the one it is made for.
LEMMA RoomFacts ==
  ASSUME RouteInv, NEW b \in Buckets, NEW time \in Nat
  PROVE  LET es == Room(b, time)
         IN /\ es \in [Buckets -> Entry] /\ es[b] = entries[b]
            /\ \A a \in Buckets : es[a] = entries[a] \/ (es[a] = NoEntry /\ entries[a].expires <= time)
            /\ Size(es) <= Capacity /\ Size(es) \in Nat /\ Capacity \in Nat
<1> DEFINE es == Room(b, time)
<1>1. entries \in [Buckets -> Entry]
  BY DEF RouteInv, RouteTypeOK
<1>2. Purge(entries, time) \in [Buckets -> Entry]
  BY <1>1, EntryFacts DEF Purge
<1>3. es \in [Buckets -> Entry] /\ es[b] = entries[b]
  BY <1>1, <1>2 DEF Room, Purge
<1>4. \A a \in Buckets : es[a] = entries[a] \/ (es[a] = NoEntry /\ entries[a].expires <= time)
  BY DEF Room, Purge
<1> HIDE DEF es
<1>5. \A a \in Buckets : entries[a] = NoEntry => es[a] = NoEntry
  BY <1>4
<1>6. Size(es) <= Size(entries) /\ Size(es) \in Nat /\ Size(entries) \in Nat /\ Capacity \in Nat
  BY <1>5, SizeShrinks, SizeFacts, RouteAssumption
<1>7. Size(es) <= Capacity
  BY <1>6 DEF RouteInv
<1> QED
  BY <1>3, <1>4, <1>6, <1>7 DEF es

\* A bucket the limiter does not charge, purged or not.
LEMMA OtherBucket ==
  ASSUME RouteInv, NEW q \in Requests, request[q].at = "limit", NEW b \in Buckets,
         NEW es, es = Room(b, request[q].now), request' = [request EXCEPT ![q] = Idle], clock' = clock,
         NEW r \in routes, NEW c \in Clients, NEW a, a = <<r.name, c>>, r.limit.n > 0,
         a \notin mixed, a \notin Overtaken(es), entries'[a] = es[a], passed'[a] = passed[a]
  PROVE  Within(r, c, a)'
<1>1. r \in Route /\ a \in Buckets /\ clock \in Nat
  BY RouteFacts DEF RouteInv, RouteTypeOK, Buckets
<1>2. request[q].now \in Nat /\ request[q].now <= clock
  BY RequestFacts DEF RouteInv, InThePast
<1>3. Within(r, c, a)
  BY DEF RouteInv, RateOK
<1>4. \A p \in Waiting(r, c)' : p \in Waiting(r, c) /\ request'[p].now = request[p].now
  <2>1. request \in [Requests -> RequestState]
    BY DEF RouteInv, RouteTypeOK
  <2>2. \A p \in Requests : request'[p] = IF p = q THEN Idle ELSE request[p]
    BY <2>1
  <2>3. Idle.at = "idle"
    BY DEF Idle
  <2> QED
    BY <2>2, <2>3 DEF Waiting
<1>5. es[a] = entries[a] \/ (es[a] = NoEntry /\ entries[a].expires <= request[q].now)
  BY <1>1, <1>2, RoomFacts, SMTT(40)
<1>6. CASE es[a] = entries[a]
  <2>1. clock' \in Nat /\ clock <= clock'
    BY <1>1
  <2> QED
    BY <1>1, <1>3, <1>4, <1>6, <2>1, WithinKept
<1>7. CASE es[a] = NoEntry /\ entries[a] # NoEntry /\ entries[a].expires <= request[q].now
  <2>1. entries[a].expires \in Int
    BY <1>1, EntryFacts DEF RouteInv, RouteTypeOK
  <2>2. entries[a].expires <= clock
    BY <1>1, <1>2, <1>7, <2>1
  <2>3. ASSUME NEW p \in Waiting(r, c)'
        PROVE  request'[p].now \in Nat /\ entries[a].expires <= request'[p].now
    <3>1. p \in Requests /\ request[p].at = "limit" /\ request[p].route = r /\ request[p].client = c
      BY <1>4 DEF Waiting
    <3>2. request'[p].now = request[p].now /\ request[p].now \in Nat
      BY <1>4, <3>1, RequestFacts DEF RouteInv
    <3>3. a \in Live
      BY <1>1, <1>7 DEF Live
    <3>4. ~(request[p].now < entries[a].expires)
      BY <1>7, <3>1, <3>3 DEF Overtaken
    <3> QED
      BY <2>1, <3>2, <3>4
  <2> QED
    BY <1>1, <1>3, <1>7, <2>2, <2>3, WithinPurged
<1> QED
  BY <1>5, <1>6, <1>7

\* AllowRateLimit returns true.
LEMMA AllowInv ==
  ASSUME RouteInv, NEW q \in Requests, Allow(q)
  PROVE  RouteInv'
<1> DEFINE r == request[q].route
           c == request[q].client
           b == <<r.name, c>>
           time == request[q].now
           es == Room(b, time)
           e == Bucket(es, b, r, time)
           f == [e EXCEPT !.count = e.count + 1]
<1>1. /\ request[q].at = "limit" /\ (es[b] # NoEntry \/ ~Full(es)) /\ ~Spent(e, r)
      /\ entries' = [es EXCEPT ![b] = f]
      /\ passed' = [passed EXCEPT ![b] = passed[b] + 1]
      /\ mixed' = mixed \cup Overtaken(es) \cup (IF Current(r) THEN {} ELSE {b})
      /\ request' = [request EXCEPT ![q] = Idle]
      /\ UNCHANGED <<routes, clock, version>>
  BY DEF Allow
<1>2. c \in Clients /\ r \in Route /\ b \in Buckets /\ time \in Nat /\ r.limit.n > 0 /\ time <= clock
      /\ r.limit.per \in Nat /\ r.name \in Names
  BY <1>1, RequestFacts, RouteFacts DEF RouteInv, InThePast
<1>3. /\ es \in [Buckets -> Entry] /\ es[b] = entries[b]
      /\ \A a \in Buckets : es[a] = entries[a] \/ (es[a] = NoEntry /\ entries[a].expires <= time)
      /\ Size(es) <= Capacity /\ Size(es) \in Nat /\ Capacity \in Nat
  BY <1>2, RoomFacts
<1>4. e = Bucket(entries, b, r, time)
  BY <1>3 DEF Bucket
<1>5. b = <<r.name, c>> /\ es = Room(b, request[q].now)
  OBVIOUS
<1> HIDE DEF b, es
<1>6. e \in Entry
  BY <1>2, <1>3 DEF Bucket, Entry
<1> HIDE DEF e
<1>7. f \in Entry /\ f # NoEntry
  <2>1. e.count \in Nat /\ e.count + 1 \in Nat /\ e.count + 1 # 0
    BY <1>6, EntryFacts
  <2> QED
    BY <1>6, <2>1 DEF Entry, NoEntry
<1>8. entries' \in [Buckets -> Entry] /\ entries'[b] = f /\ \A a \in Buckets \ {b} : entries'[a] = es[a]
  <2> HIDE DEF f
  <2> QED
    BY <1>1, <1>2, <1>3, <1>7
<1>9. passed' \in [Buckets -> Nat] /\ passed'[b] = passed[b] + 1 /\ \A a \in Buckets \ {b} : passed'[a] = passed[a]
  BY <1>1, <1>2 DEF RouteInv, RouteTypeOK
<1>10. /\ request' \in [Requests -> RequestState]
       /\ request'[q] = Idle /\ \A p \in Requests \ {q} : request'[p] = request[p]
       /\ InThePast' /\ clock' \in Nat /\ clock <= clock'
  <2>1. Idle \in RequestState /\ Idle.at = "idle"
    BY DEF RequestState, Idle
  <2> QED
    BY <1>1, <2>1, RequestStep
<1>11. RouteTypeOK' /\ PathsUnique'
  BY <1>1, <1>2, <1>8, <1>9, <1>10 DEF RouteInv, RouteTypeOK, PathsUnique, Overtaken, Live
<1>12. Size(entries') <= Capacity
  <2>1. Size(entries') \in Nat
    BY SizeFacts
  <2>2. CASE es[b] # NoEntry
    <3>1. \A a \in Buckets : es[a] = NoEntry => entries'[a] = NoEntry
      BY <1>8, <2>2
    <3>2. Size(entries') <= Size(es)
      BY <3>1, SizeShrinks
    <3> QED
      BY <1>3, <2>1, <3>2
  <2>3. CASE ~Full(es)
    <3>1. Size(entries') <= Size(es) + 1
      BY <1>2, <1>8, SizeGrows
    <3>2. ~(Size(es) >= Capacity)
      BY <2>3 DEF Full
    <3> QED
      BY <1>3, <2>1, <3>1, <3>2
  <2> QED
    BY <1>1, <2>2, <2>3
<1>13. RateOK'
  <2> SUFFICES ASSUME NEW s \in routes, NEW d \in Clients, s.limit.n > 0, <<s.name, d>> \notin mixed'
               PROVE  Within(s, d, <<s.name, d>>)'
    BY <1>1 DEF RateOK
  <2>1. PICK a \in Buckets : a = <<s.name, d>>
    BY RouteFacts DEF RouteInv, RouteTypeOK, Buckets
  <2>2. a \notin mixed /\ a \notin Overtaken(es) /\ (a = b => Current(r)) /\ s \in Route
    BY <1>1, <2>1 DEF RouteInv, RouteTypeOK
  <2> SUFFICES Within(s, d, a)'
    BY <2>1
  <2>3. CASE a # b
    BY <1>1, <1>2, <1>5, <1>8, <1>9, <2>1, <2>2, <2>3, OtherBucket, ZenonT(40)
  <2>4. CASE a = b
    <3>1. s = r /\ d = c
      <4>1. s.name = r.name /\ d = c
        BY <1>5, <2>1, <2>4
      <4> QED
        BY <2>2, <2>4, <4>1 DEF Current, RouteInv, PathsUnique
    <3>2. Within(s, d, a)
      BY <2>1, <2>2 DEF RouteInv, RateOK
    <3>3. q \in Waiting(s, d)
      BY <1>1, <3>1 DEF Waiting
    <3>4. PICK t \in Nat : t = time
      BY <1>2
    <3>5. PICK g \in Entry : g = e
      BY <1>6
    <3>6. t = request[q].now /\ t <= clock /\ clock' = clock /\ a \in Buckets /\ s \in Route /\ s.limit.n > 0
      BY <1>1, <1>2, <2>2, <3>4
    <3>7. g = Bucket(entries, a, s, t) /\ ~Spent(g, s)
      BY <1>1, <1>4, <2>4, <3>1, <3>4, <3>5
    <3>8. entries'[a] = [g EXCEPT !.count = g.count + 1] /\ passed'[a] = passed[a] + 1
      BY <1>8, <1>9, <2>4, <3>5
    <3> QED
      BY <3>2, <3>3, <3>6, <3>7, <3>8, WithinAllowed
  <2> QED
    BY <2>3, <2>4
<1> QED
  BY <1>10, <1>11, <1>12, <1>13 DEF RouteInv

\* It returns false: buckets may have been purged, the one of the request is as it was.
LEMMA RefuseStep ==
  ASSUME RouteInv, NEW q \in Requests, Refuse(q)
  PROVE  LET b == <<request[q].route.name, request[q].client>>
         IN b \in Buckets /\ request[q].now \in Nat /\ entries' = Room(b, request[q].now)
<1> DEFINE r == request[q].route
           b == <<r.name, request[q].client>>
           time == request[q].now
           es == Room(b, time)
           e == Bucket(es, b, r, time)
           full == es[b] = NoEntry /\ Full(es)
<1>1. /\ request[q].at = "limit" /\ (full \/ Spent(e, r))
      /\ entries' = IF full THEN es ELSE [es EXCEPT ![b] = e]
  BY DEF Refuse
<1>2. b \in Buckets /\ time \in Nat /\ r.limit.n > 0 /\ r.limit.n \in Nat
  BY <1>1, RequestFacts, RouteFacts DEF RouteInv, InThePast
<1>3. es \in [Buckets -> Entry]
  BY <1>2, RoomFacts
<1>4. Spent(e, r) => e = es[b]
  <2>1. es[b].expires <= time => e.count = 0
    BY DEF Bucket
  <2>2. ~(es[b].expires <= time) => e = es[b]
    BY DEF Bucket
  <2> QED
    BY <1>2, <2>1, <2>2 DEF Spent
<1> HIDE DEF es, e, b
<1>5. entries' = es
  BY <1>1, <1>2, <1>3, <1>4
<1> QED
  BY <1>2, <1>5 DEF es, b

LEMMA RefuseInv ==
  ASSUME RouteInv, NEW q \in Requests, Refuse(q)
  PROVE  RouteInv'
<1> DEFINE b == <<request[q].route.name, request[q].client>>
           time == request[q].now
           es == Room(b, time)
<1>1. /\ request[q].at = "limit" /\ mixed' = mixed \cup Overtaken(es)
      /\ request' = [request EXCEPT ![q] = Idle] /\ UNCHANGED <<routes, clock, version, passed>>
  BY DEF Refuse
<1>2. b \in Buckets /\ time \in Nat /\ entries' = es
  BY RefuseStep
<1>3. es \in [Buckets -> Entry] /\ Size(es) <= Capacity
  BY <1>2, RoomFacts
<1>4. es = Room(b, request[q].now)
  OBVIOUS
<1> HIDE DEF es, b
<1>5. /\ request' \in [Requests -> RequestState] /\ InThePast' /\ clock' \in Nat /\ clock <= clock'
  <2>1. Idle \in RequestState /\ Idle.at = "idle"
    BY DEF RequestState, Idle
  <2> QED
    BY <1>1, <2>1, RequestStep
<1>6. RouteTypeOK' /\ PathsUnique' /\ Size(entries') <= Capacity
  BY <1>1, <1>2, <1>3, <1>5 DEF RouteInv, RouteTypeOK, PathsUnique, Overtaken, Live
<1>7. RateOK'
  <2> SUFFICES ASSUME NEW s \in routes, NEW d \in Clients, s.limit.n > 0, <<s.name, d>> \notin mixed'
               PROVE  Within(s, d, <<s.name, d>>)'
    BY <1>1 DEF RateOK
  <2> DEFINE a == <<s.name, d>>
  <2>1. a = <<s.name, d>> /\ a \notin mixed /\ a \notin Overtaken(es)
    BY <1>1
  <2> HIDE DEF a
  <2>2. entries'[a] = es[a] /\ passed'[a] = passed[a] /\ clock' = clock
    BY <1>1, <1>2
  <2>3. Within(s, d, a)'
    BY <1>1, <1>2, <1>4, <2>1, <2>2, OtherBucket
  <2> QED
    BY <2>1, <2>3
<1> QED
  BY <1>5, <1>6, <1>7 DEF RouteInv

-----------------------------------------------------------------------------
(* The invariant of the routes and what follows from it.                   *)

LEMMA RouteNextInv == RouteInv /\ [Next]_vars => RouteInv'
<1> SUFFICES ASSUME RouteInv, [Next]_vars PROVE RouteInv'
  OBVIOUS
<1>1. CASE Register
  BY <1>1, AddRoutesInv DEF Register
<1>2. ASSUME NEW name \in Names, DropRoute(name) PROVE RouteInv'
  BY <1>2, DropRouteInv
<1>3. ASSUME NEW q \in Requests, NEW c \in Clients, NEW p \in Paths, Match(q, c, p) PROVE RouteInv'
  BY <1>3, MatchInv
<1>4. ASSUME NEW q \in Requests, Unlimited(q) PROVE RouteInv'
  BY <1>4, UnlimitedInv
<1>5. ASSUME NEW q \in Requests, ReadClock(q) PROVE RouteInv'
  BY <1>5, ReadClockInv
<1>6. ASSUME NEW q \in Requests, Allow(q) PROVE RouteInv'
  BY <1>6, AllowInv
<1>7. ASSUME NEW q \in Requests, Refuse(q) PROVE RouteInv'
  BY <1>7, RefuseInv
<1>8. CASE Tick
  BY <1>8, RouteTickInv
<1>9. CASE UNCHANGED vars
  BY <1>9 DEF vars, RouteInv, RouteTypeOK, InThePast, PathsUnique, RateOK, Within, Waiting
<1>10. CASE \E q \in Requests, p \in Paths : NotFound(q, p)
  BY <1>9, <1>10 DEF NotFound
<1> QED
  BY <1>1, <1>2, <1>3, <1>4, <1>5, <1>6, <1>7, <1>8, <1>9, <1>10 DEF Next

\* The registry and the limiter stay well formed: no route and no reading of the clock
\* comes from the future, names and paths are unique, the limiter keeps to its
\* capacity, and every bucket accounts for the windows since its route was registered.
THEOREM RoutesInv == Spec => []RouteInv
  BY RouteInitInv, RouteNextInv, PTL DEF Spec

\* Whatever statements register, replace and drop, no two routes share a name or answer
\* the same method and pattern.
THEOREM RoutePathsUnique == Spec => []PathsUnique
<1>1. RouteInv => PathsUnique
  BY DEF RouteInv
<1> QED
  BY <1>1, RoutesInv, PTL

\* As many windows as are over, and the one that is running, bound what has passed.
LEMMA RateFollows == RouteInv => RateHolds
<1> SUFFICES ASSUME RouteInv, NEW r \in routes, NEW c \in Clients, r.limit.n > 0, <<r.name, c>> \notin mixed
             PROVE  passed[<<r.name, c>>] <= r.limit.n * (1 + (clock - r.since) \div r.limit.per)
  BY DEF RateHolds
<1> DEFINE b == <<r.name, c>>
           n == r.limit.n
           per == r.limit.per
           age == clock - r.since
           w == age \div per
<1>1. /\ r \in Route /\ b \in Buckets /\ n \in Nat /\ per \in Nat \ {0} /\ r.since \in Nat
      /\ clock \in Nat /\ passed[b] \in Nat /\ r.since <= clock
      /\ entries[b].count \in Nat /\ entries[b].expires \in Int
  BY RouteFacts, EntryFacts DEF RouteInv, RouteTypeOK, InThePast, Buckets
<1>2. age \in Nat
  BY <1>1
<1>3. Within(r, c, b)
  BY DEF RouteInv, RateOK
<1>4. b = <<r.name, c>> /\ n = r.limit.n /\ per = r.limit.per /\ age = clock - r.since /\ w = age \div per
  OBVIOUS
<1> HIDE DEF b, n, per, age, w
\* k windows are over, and at most one more has let requests pass.
<1>5. \E k \in Nat : k * per <= age /\ passed[b] <= k * n + n
  <2>1. CASE entries[b] # NoEntry
    <3>1. PICK k \in Nat : Over(r, k + 1, entries[b].expires) /\ passed[b] <= k * n + entries[b].count
      BY <1>3, <1>4, <2>1 DEF Within
    <3>2. entries[b].count <= n /\ entries[b].expires <= clock + per
      BY <1>3, <1>4, <2>1 DEF Within
    <3>3. k * per \in Nat /\ (k + 1) * per = k * per + per /\ k * n \in Nat
      BY <1>1, NextMultiple
    <3>4. r.since + (k + 1) * per <= entries[b].expires
      BY <1>4, <3>1 DEF Over
    <3>5. k * per <= age
      BY <1>1, <1>4, <3>2, <3>3, <3>4
    <3>6. passed[b] <= k * n + n
      BY <1>1, <3>1, <3>2, <3>3
    <3> QED
      BY <3>5, <3>6
  <2>2. CASE entries[b] = NoEntry
    <3>1. PICK k \in Nat : passed[b] <= k * n /\ Over(r, k, clock)
      BY <1>3, <1>4, <2>2 DEF Within
    <3>2. k * per \in Nat /\ k * n \in Nat
      BY <1>1, NextMultiple
    <3>3. r.since + k * per <= clock
      BY <1>4, <3>1 DEF Over
    <3>4. k * per <= age
      BY <1>1, <1>4, <3>2, <3>3
    <3>5. passed[b] <= k * n + n
      BY <1>1, <3>1, <3>2
    <3> QED
      BY <3>4, <3>5
  <2> QED
    BY <2>1, <2>2
<1>6. PICK k \in Nat : k * per <= age /\ passed[b] <= k * n + n
  BY <1>5
<1>7. k <= w /\ w \in Nat
  BY <1>1, <1>2, <1>4, <1>6, WholeWindows
<1>8. (k + 1) * n <= (w + 1) * n
  BY <1>1, <1>7, MultiplesGrow
<1>9. k * n \in Nat /\ (k + 1) * n = k * n + n /\ w * n \in Nat /\ (w + 1) * n = w * n + n
  BY <1>1, <1>7, NextMultiple
<1>10. n * (1 + w) = (w + 1) * n
  BY <1>1, <1>7
<1>11. passed[b] <= n * (1 + w)
  BY <1>1, <1>6, <1>8, <1>9, <1>10
<1> QED
  BY <1>4, <1>11

\* However long threads are delayed between reading the clock and taking the lock of
\* AllowRateLimit, and however buckets are renewed, purged and cleared meanwhile, a
\* client has had at most n requests for every window begun since the route was
\* registered.
THEOREM RouteRateHolds == Spec => []RateHolds
  BY RateFollows, RoutesInv, PTL

\* The request that gets through writes its bucket; the others are as Room left them.
LEMMA AllowStep ==
  ASSUME RouteInv, NEW q \in Requests, Allow(q)
  PROVE  LET b == <<request[q].route.name, request[q].client>>
         IN /\ b \in Buckets /\ request[q].now \in Nat /\ request[q].now <= clock
            /\ entries'[b] # NoEntry
            /\ \A a \in Buckets \ {b} : entries'[a] = Room(b, request[q].now)[a]
<1> DEFINE r == request[q].route
           b == <<r.name, request[q].client>>
           time == request[q].now
           es == Room(b, time)
           e == Bucket(es, b, r, time)
           f == [e EXCEPT !.count = e.count + 1]
<1>1. request[q].at = "limit" /\ entries' = [es EXCEPT ![b] = f]
  BY DEF Allow
<1>2. b \in Buckets /\ time \in Nat /\ time <= clock /\ r \in Route
  BY <1>1, RequestFacts DEF RouteInv, InThePast
<1>3. es \in [Buckets -> Entry]
  BY <1>2, RoomFacts
<1>4. r.limit.per \in Nat
  BY <1>2, RouteFacts
<1>5. e \in Entry
  <2> HIDE DEF b, es, r, time
  <2> QED
    BY <1>2, <1>3, <1>4 DEF Bucket, Entry
<1>6. f # NoEntry
  <2> HIDE DEF e
  <2>1. e.count \in Nat /\ e.count + 1 # 0
    BY <1>5, EntryFacts
  <2> QED
    BY <1>5, <2>1 DEF Entry, NoEntry
<1>7. entries'[b] # NoEntry /\ \A a \in Buckets \ {b} : entries'[a] = es[a]
  <2> HIDE DEF f, es, b
  <2> QED
    BY <1>1, <1>2, <1>3, <1>6
<1> QED
  BY <1>2, <1>7

\* What a statement registers is newer than what was there before it.
LEMMA RegisterChanges ==
  ASSUME RouteInv, NEW batch \in Batches, NEW or_replace \in BOOLEAN, AddRoutes(batch, or_replace), DOMAIN batch # {}
  PROVE  routes' # routes
<1> DEFINE new == Stamp(batch)
           n == Len(batch)
<1>1. RouteTypeOK /\ version \in Nat
  BY DEF RouteInv, RouteTypeOK
<1>2. /\ new \in Seq(Route) /\ Len(new) = n /\ n \in Nat /\ DOMAIN batch = 1..n
      /\ \A i \in 1..n : new[i].version = version + 1
  BY <1>1, StampFacts
<1>3. routes' = Proposed(new, n)
  BY <1>2 DEF AddRoutes
<1> HIDE DEF new, n
<1>4. n \in 1..n /\ \A k \in (n + 1)..n : new[k].name # new[n].name
  BY <1>2
<1>5. new[n] \in routes'
  BY <1>3, <1>4 DEF Proposed
<1>6. new[n] \notin routes
  <2> SUFFICES ASSUME new[n] \in routes PROVE FALSE
    OBVIOUS
  <2>1. new[n].version <= version /\ new[n].version = version + 1
    BY <1>2, <1>4 DEF RouteInv, InThePast
  <2> QED
    BY <1>1, <2>1
<1> QED
  BY <1>5, <1>6

\* Only a change of the routes drops a window that is running.
LEMMA WindowDropped ==
  ASSUME RouteInv, [Next]_vars, NEW b \in Buckets, entries[b].expires > clock, entries'[b] = NoEntry
  PROVE  routes' # routes
<1>1. clock \in Nat /\ entries[b].expires \in Int
  BY EntryFacts DEF RouteInv, RouteTypeOK
<1>2. entries[b] # NoEntry
  BY <1>1 DEF NoEntry
\* The window is over for nobody, so Room keeps the bucket.
<1>3. ASSUME NEW a \in Buckets, NEW time \in Nat, time <= clock PROVE Room(a, time)[b] # NoEntry
  <2>1. Room(a, time)[b] = entries[b] \/ entries[b].expires <= time
    BY RoomFacts
  <2> QED
    BY <1>1, <1>2, <1>3, <2>1
<1>4. ASSUME NEW batch \in Batches, NEW or_replace \in BOOLEAN, AddRoutes(batch, or_replace) PROVE routes' # routes
  <2>1. b[1] \in {batch[i].name : i \in DOMAIN batch}
    BY <1>2, <1>4 DEF AddRoutes, ClearRouteRateLimit
  <2> QED
    BY <1>4, <2>1, RegisterChanges
<1>5. ASSUME NEW name \in Names, DropRoute(name) PROVE routes' # routes
  BY <1>5 DEF DropRoute, NamesOf
<1>6. ASSUME NEW q \in Requests, Allow(q) PROVE FALSE
  <2>1. PICK a, time : a = <<request[q].route.name, request[q].client>> /\ time = request[q].now
    OBVIOUS
  <2>2. /\ a \in Buckets /\ time \in Nat /\ time <= clock /\ entries'[a] # NoEntry
        /\ \A d \in Buckets \ {a} : entries'[d] = Room(a, time)[d]
    BY <1>6, <2>1, AllowStep
  <2> QED
    BY <1>3, <2>2
<1>7. ASSUME NEW q \in Requests, Refuse(q) PROVE FALSE
  <2>1. PICK a, time : a = <<request[q].route.name, request[q].client>> /\ time = request[q].now
    OBVIOUS
  <2>2. a \in Buckets /\ time \in Nat /\ entries' = Room(a, time)
    BY <1>7, <2>1, RefuseStep
  <2>3. time <= clock
    BY <1>7, <2>1 DEF Refuse, RouteInv, InThePast
  <2> QED
    BY <1>3, <2>2, <2>3
<1>8. CASE UNCHANGED entries
  BY <1>2, <1>8
<1> QED
  BY <1>4, <1>5, <1>6, <1>7, <1>8
  DEF Next, Register, Match, NotFound, Unlimited, ReadClock, Tick, vars

\* The limiter neither grows over its capacity nor forgets: a running window is dropped
\* only by a statement that changes the routes, never to make room for other clients.
THEOREM RouteLiveWindowsKept == Spec => LiveWindowsKept
<1>1. RouteInv /\ RouteInv' /\ [Next]_vars =>
        [/\ Size(entries') <= Capacity
         /\ \A b \in Buckets : (entries[b].expires > clock /\ entries'[b] = NoEntry) => routes' # routes]_vars
  BY WindowDropped DEF RouteInv
<1> QED
  BY <1>1, RoutesInv, PTL DEF Spec, LiveWindowsKept

=============================================================================
