---------------------------- MODULE AuthRegistry ----------------------------
(***************************************************************************)
(* Authentication schemes, their API keys, and the check of a request      *)
(* against them (CREATE/DROP AUTH, quackapi_add_api_key, CheckAuth and     *)
(* quackapi_verify_auth: src/src/quackapi_registry.cpp and                 *)
(* src/src/quackapi_auth.cpp).                                             *)
(*                                                                         *)
(* Every section under auths_mutex is one step.  CheckAuth has three of    *)
(* them: it looks the scheme up, looks it up again and reads the keys, so  *)
(* statements of other sessions come in between.  Scheme names are         *)
(* compared without regard to case: Fold maps a spelling to its scheme.    *)
(***************************************************************************)
EXTENDS Integers

CONSTANTS
  Checks,       \* concurrent checks
  SchemeNames,  \* spellings of scheme names
  Fold,         \* spelling -> scheme, a function
  Keys,         \* raw API keys
  Subjects,
  Secrets,      \* JWT secrets
  Tokens,       \* well-formed JWTs: [secret, nbf, exp]
  Nothing,      \* no credential in this place of the request
  MaxNow        \* bound on the clock

ASSUME AuthAssumption ==
  /\ Fold \in [SchemeNames -> STRING]
  /\ MaxNow \in Nat
  /\ Tokens \subseteq [secret : Secrets, nbf : Int, exp : Int]
  /\ Keys \cap Tokens = {}
  /\ Nothing \notin Keys \cup Tokens

Schemes == {Fold[n] : n \in SchemeNames}
Credentials == Keys \cup Tokens

\* One entry of QuackapiState::auths; NoAuth when the scheme does not exist.
Auth   == [name : SchemeNames, kind : {"API_KEY", "JWT_HS256"}, secret : Secrets]
NoAuth == [kind |-> "NONE"]

\* One entry of QuackapiState::api_keys.
KeyEntry == [auth_name : SchemeNames, key : Keys, subject : Subjects]

VARIABLES
  auths,     \* scheme -> entry
  api_keys,  \* the key entries
  now,       \* the wall clock, in seconds
  check      \* the check each request is in

authVars == <<auths, api_keys, now, check>>

NoCheck == [at |-> "idle"]

\* The keys registered for a scheme, whatever its spelling.
KeysOf(s) == {e \in api_keys : Fold[e.auth_name] = s}

-----------------------------------------------------------------------------
(* CREATE [OR REPLACE] AUTH, DROP AUTH, quackapi_add_api_key.              *)

\* Mutant: keys stay behind when the scheme stops being an API_KEY scheme.
KeysAfterReplaceAllKept(old, new) ==
  {IF Fold[e.auth_name] = Fold[old.name] THEN [e EXCEPT !.auth_name = new.name] ELSE e
     : e \in api_keys}

\* What AddAuth leaves of the keys when it replaces old by new: none if the
\* scheme stops being an API_KEY scheme, all of them, respelled, otherwise.
KeysAfterReplace(old, new) ==
  IF old.kind = "API_KEY" /\ new.kind # "API_KEY"
    THEN api_keys \ KeysOf(Fold[old.name])
    ELSE {IF Fold[e.auth_name] = Fold[old.name] THEN [e EXCEPT !.auth_name = new.name] ELSE e
            : e \in api_keys}

\* AddAuth throws on a duplicate unless OR REPLACE was given.
AddAuth(new, or_replace) ==
  LET s == Fold[new.name] IN
  /\ auths[s] # NoAuth => or_replace
  /\ auths' = [auths EXCEPT ![s] = new]
  /\ api_keys' = IF auths[s] = NoAuth THEN api_keys ELSE KeysAfterReplace(auths[s], new)
  /\ UNCHANGED <<now, check>>

\* DropAuth erases the scheme's keys in the same section.
DropAuth(n) ==
  /\ auths[Fold[n]] # NoAuth
  /\ auths' = [auths EXCEPT ![Fold[n]] = NoAuth]
  /\ api_keys' = api_keys \ KeysOf(Fold[n])
  /\ UNCHANGED <<now, check>>

\* The keys after (n, k) is registered: the entry for the same key, if there
\* is one, gets the new subject.
WithKey(n, k, subject) ==
  {e \in api_keys : Fold[e.auth_name] # Fold[n] \/ e.key # k}
    \cup {[auth_name |-> auths[Fold[n]].name, key |-> k, subject |-> subject]}

\* AddApiKey throws unless the scheme exists and is an API_KEY scheme.
AddApiKey(n, k, subject) ==
  /\ auths[Fold[n]].kind = "API_KEY"
  /\ api_keys' = WithKey(n, k, subject)
  /\ UNCHANGED <<auths, now, check>>

-----------------------------------------------------------------------------
(* CheckAuth of a request with a key header, a bearer token, both or       *)
(* neither, on a route that REQUIREs a scheme.                             *)

Step(r, c) == check' = [check EXCEPT ![r] = c] /\ UNCHANGED <<auths, api_keys, now>>

\* ExtractAuthString: a key may also come as a bearer token, a JWT only so.
Extract(auth, header, bearer) ==
  IF auth.kind = "API_KEY" /\ header # Nothing THEN header ELSE bearer

\* Mutant: a scheme that does not exist lets the request through.
LookupFailsOpen(r, n, header, bearer) ==
  LET auth == auths[Fold[n]] IN
  /\ check[r] = NoCheck
  /\ Step(r, IF auth = NoAuth
               THEN [at |-> "admitted", name |-> n, cred |-> bearer, sub |-> Nothing]
               ELSE [at |-> "verify", name |-> n, cred |-> Extract(auth, header, bearer)])

\* The first lookup: which credential to take from the request.
Lookup(r, n, header, bearer) ==
  LET auth == auths[Fold[n]] IN
  /\ check[r] = NoCheck
  /\ Step(r, IF auth = NoAuth
               THEN [at |-> "denied"]
               ELSE [at |-> "verify", name |-> n, cred |-> Extract(auth, header, bearer)])

\* quackapi_verify_auth(scheme, credential) starts at the second lookup.
VerifyAuth(r, n, cred) ==
  /\ check[r] = NoCheck
  /\ Step(r, [at |-> "verify", name |-> n, cred |-> cred])

\* VerifyJwtHs256: now before exp, and not before nbf.
InForce(token) == token.nbf <= now /\ now < token.exp

\* A token is accepted if it is well formed, signed with the scheme's secret
\* and in force; a key is not a well-formed token.
TokenAccepted(auth, cred) ==
  cred \in Tokens /\ cred.secret = auth.secret /\ InForce(cred)

\* VerifyAuthScheme, the second lookup: the scheme may have changed its kind
\* or its secret, or be gone.  A token is verified against the copy of the
\* scheme taken here, so its verdict is fixed by this step.
VerifyAuthScheme(r) ==
  LET c    == check[r]
      auth == auths[Fold[c.name]]
  IN
  /\ c.at = "verify"
  /\ Step(r, IF auth = NoAuth \/ c.cred = Nothing THEN [at |-> "denied"]
             ELSE IF auth.kind = "API_KEY"
             THEN [at |-> "keys", name |-> c.name, cred |-> c.cred]
             ELSE IF TokenAccepted(auth, c.cred)
             THEN [at |-> "admitted", name |-> c.name, cred |-> c.cred, sub |-> Nothing]
             ELSE [at |-> "denied"])

\* SnapshotApiKeys and the comparison of the hashes: the first match names the
\* subject.
MatchKey(r) ==
  LET c       == check[r]
      matches == {e \in KeysOf(Fold[c.name]) : e.key = c.cred}
  IN
  /\ c.at = "keys"
  /\ IF matches = {}
       THEN Step(r, [at |-> "denied"])
       ELSE \E e \in matches :
              Step(r, [at |-> "admitted", name |-> c.name, cred |-> c.cred, sub |-> e.subject])

\* The caller goes on with the verdict.
Done(r) == check[r].at \in {"admitted", "denied"} /\ Step(r, NoCheck)

AuthTick == now < MaxNow /\ now' = now + 1 /\ UNCHANGED <<auths, api_keys, check>>

-----------------------------------------------------------------------------
AuthInit ==
  /\ auths = [s \in Schemes |-> NoAuth]
  /\ api_keys = {}
  /\ now = 0
  /\ check = [r \in Checks |-> NoCheck]

Create  == \E a \in Auth, or_replace \in BOOLEAN : AddAuth(a, or_replace)
AddKey  == \E n \in SchemeNames, k \in Keys, s \in Subjects : AddApiKey(n, k, s)
Arrive(r) == \E n \in SchemeNames, header \in Keys \cup {Nothing}, bearer \in Credentials \cup {Nothing} :
               Lookup(r, n, header, bearer)
Bridge(r) == \E n \in SchemeNames, cred \in Credentials \cup {Nothing} : VerifyAuth(r, n, cred)

AuthNext ==
  \/ Create
  \/ \E n \in SchemeNames : DropAuth(n)
  \/ AddKey
  \/ \E r \in Checks : Arrive(r) \/ Bridge(r) \/ VerifyAuthScheme(r) \/ MatchKey(r) \/ Done(r)
  \/ AuthTick

AuthSpec == AuthInit /\ [][AuthNext]_authVars

-----------------------------------------------------------------------------
CheckState ==
  {NoCheck, [at |-> "denied"]}
    \cup [at : {"verify", "keys"}, name : SchemeNames, cred : Credentials \cup {Nothing}]
    \cup [at : {"admitted"}, name : SchemeNames, cred : Credentials, sub : Subjects \cup {Nothing}]

\* Schemes are filed under their own name, and no request is admitted without
\* a credential.
TypeOK ==
  /\ auths \in [Schemes -> Auth \cup {NoAuth}]
  /\ \A s \in Schemes : auths[s] # NoAuth => Fold[auths[s].name] = s
  /\ api_keys \subseteq KeyEntry
  /\ now \in 0..MaxNow
  /\ check \in [Checks -> CheckState]

\* No key outlives its scheme: each belongs, under the spelling in force, to a
\* scheme that exists and is an API_KEY scheme.  A key cannot come back when a
\* scheme is replaced by a JWT scheme, or dropped, and created again.
KeysFollowScheme ==
  \A e \in api_keys :
    /\ auths[Fold[e.auth_name]] # NoAuth
    /\ auths[Fold[e.auth_name]].kind = "API_KEY"
    /\ auths[Fold[e.auth_name]].name = e.auth_name

\* A key names one subject within its scheme, so the first match is the only
\* one, whatever the order in which keys were added and schemes respelled.
OneSubjectPerKey ==
  \A e, f \in api_keys :
    Fold[e.auth_name] = Fold[f.auth_name] /\ e.key = f.key => e = f

\* The scheme named by the check accepts the credential at this moment, for
\* this subject.
Justified(c) ==
  LET auth == auths[Fold[c.name]] IN
  /\ auth # NoAuth
  /\ \/ /\ auth.kind = "API_KEY"
        /\ \E e \in KeysOf(Fold[c.name]) : e.key = c.cred /\ e.subject = c.sub
     \/ /\ auth.kind = "JWT_HS256"
        /\ c.cred \in Tokens
        /\ c.cred.secret = auth.secret
        /\ now \in c.cred.nbf..(c.cred.exp - 1)

\* At the moment a request is admitted its credential is valid for the scheme
\* as it then is, although the check looked the scheme up earlier, twice, and
\* it may have been replaced, dropped and created again since.
AdmissionIsJustified ==
  [][\A r \in Checks :
       (check[r].at # "admitted" /\ check'[r].at = "admitted") => Justified(check'[r])]_authVars
=============================================================================
