------------------------ MODULE RequestPipelineProofs ------------------------
(***************************************************************************)
(* Gates, middleware and logging of requests, for any number of them, any  *)
(* middleware names and groups, and any changes of the registry meanwhile. *)
(*                                                                         *)
(* The invariant says of the registry that registration orders increase    *)
(* along it (RegistryOK), and of each request (RequestOK) what it has      *)
(* passed at the place it is at: what ran and what is still to run         *)
(* together are one snapshot, in order, and hold every definition that     *)
(* was there when the request came in and still is.                        *)
(*                                                                         *)
(* The parts behind that are about the decisions inside the handler that   *)
(* MCDecisions asks of small servers, headers and bodies: who answers a    *)
(* path (RouteMatching), in which coding and format (Negotiation), and     *)
(* with which values (ParameterBinding).  The last part says so of every   *)
(* question RequestDecisions asks.                                         *)
(***************************************************************************)
EXTENDS RequestPipeline, RequestDecisions,
        FiniteSetTheorems, SequenceTheorems, FunctionTheorems, WellFoundedInduction, TLAPS

-----------------------------------------------------------------------------
(* Subsequences.                                                           *)

\* How many of the positions I are at most i.
Rank(I, i) == Cardinality({j \in I : j <= i})

LEMMA RankMonotone ==
  ASSUME NEW I, IsFiniteSet(I), I \subseteq Nat, NEW i \in I, NEW j \in I, i < j
  PROVE  Rank(I, i) < Rank(I, j)
<1> DEFINE A == {x \in I : x <= i}
           B == {x \in I : x <= j}
<1>1. A \in SUBSET B /\ B \in SUBSET I /\ j \in B /\ j \notin A
  <2>1. i \in Nat /\ j \in Nat /\ \A x \in I : x \in Nat
    OBVIOUS
  <2>2. ASSUME NEW x \in A PROVE x \in B
    <3>1. x \in I /\ x \in Nat /\ x <= i
      BY <2>1
    <3>2. x <= j
      BY <2>1, <3>1
    <3> QED
      BY <3>1, <3>2
  <2>3. j \in B /\ j \notin A
    BY <2>1
  <2>4. A \subseteq B
    BY <2>2
  <2> QED
    BY <2>3, <2>4
<1>2. IsFiniteSet(B)
  BY <1>1, FS_Subset
<1>3. Cardinality(A) <= Cardinality(B) /\ (Cardinality(B) = Cardinality(A) => B = A) /\ IsFiniteSet(A)
  BY <1>1, <1>2, FS_Subset
<1>4. Cardinality(A) \in Nat /\ Cardinality(B) \in Nat
  BY <1>2, <1>3, FS_CardinalityType
<1>5. Cardinality(A) # Cardinality(B)
  BY <1>1, <1>3
<1> HIDE DEF A, B
<1>6. Cardinality(A) < Cardinality(B)
  BY <1>3, <1>4, <1>5
<1> QED
  BY <1>6 DEF Rank, A, B

LEMMA RankRange ==
  ASSUME NEW I, IsFiniteSet(I), I \subseteq Nat, NEW i \in I
  PROVE  Rank(I, i) \in 1..Cardinality(I)
<1> DEFINE A == {x \in I : x <= i}
<1>1. A \in SUBSET I /\ i \in A
  OBVIOUS
<1>2. IsFiniteSet(A) /\ Cardinality(A) <= Cardinality(I)
  BY <1>1, FS_Subset
<1>3. Cardinality(A) \in Nat /\ Cardinality(A) # 0 /\ Cardinality(I) \in Nat
  BY <1>1, <1>2, FS_CardinalityType, FS_EmptySet
<1> HIDE DEF A
<1>4. Cardinality(A) \in 1..Cardinality(I)
  BY <1>2, <1>3
<1> QED
  BY <1>4 DEF Rank, A

\* Nth enumerates the positions in increasing order.
LEMMA NthEnumerates ==
  ASSUME NEW I, IsFiniteSet(I), I \subseteq Nat
  PROVE  /\ Cardinality(I) \in Nat
         /\ \A k \in 1..Cardinality(I) : Nth(I, k) \in I
         /\ \A i \in I : \E k \in 1..Cardinality(I) : Nth(I, k) = i
         /\ \A k, l \in 1..Cardinality(I) : k < l => Nth(I, k) < Nth(I, l)
<1> DEFINE n == Cardinality(I)
           f == [i \in I |-> Rank(I, i)]
<1>1. n \in Nat /\ IsFiniteSet(1..n) /\ Cardinality(1..n) = n
  <2>1. n \in Nat
    BY FS_CardinalityType
  <2> HIDE DEF n
  <2>2. IsFiniteSet(1..n) /\ Cardinality(1..n) = IF 1 > n THEN 0 ELSE n - 1 + 1
    BY <2>1, FS_Interval
  <2> QED
    BY <2>1, <2>2
<1>2. \A i, j \in I : Rank(I, i) = Rank(I, j) => i = j
  <2> SUFFICES ASSUME NEW i \in I, NEW j \in I, Rank(I, i) = Rank(I, j), i # j PROVE FALSE
    OBVIOUS
  <2>1. Rank(I, i) \in Nat /\ Rank(I, j) \in Nat
    <3>1. Rank(I, i) \in 1..n /\ Rank(I, j) \in 1..n
      BY RankRange
    <3> HIDE DEF n
    <3> QED
      BY <1>1, <3>1
  <2>2. i < j \/ j < i
    OBVIOUS
  <2>3. Rank(I, i) < Rank(I, j) \/ Rank(I, j) < Rank(I, i)
    BY <2>2, RankMonotone
  <2> QED
    BY <2>1, <2>3
<1>3. f \in [I -> 1..n] /\ IsInjective(f)
  BY <1>2, RankRange DEF IsInjective
<1>4. f \in Surjection(I, 1..n)
  <2>1. f \in Injection(I, 1..n)
    BY <1>3 DEF Injection
  <2> HIDE DEF f, n
  <2>2. Cardinality(I) = Cardinality(1..n) <=> f \in Surjection(I, 1..n)
    BY <1>1, <2>1, FS_Injection
  <2> QED
    BY <1>1, <2>2 DEF n
<1>5. \A k \in 1..n : \E i \in I : Rank(I, i) = k
  BY <1>4 DEF Surjection
<1>6. \A k \in 1..n : Nth(I, k) \in I /\ Rank(I, Nth(I, k)) = k
  BY <1>5 DEF Nth, Rank
<1>7. ASSUME NEW i \in I PROVE \E k \in 1..n : Nth(I, k) = i
  <2>1. Rank(I, i) \in 1..n
    BY RankRange
  <2> QED
    BY <2>1, <1>2, <1>6
<1>8. ASSUME NEW k \in 1..n, NEW l \in 1..n, k < l PROVE Nth(I, k) < Nth(I, l)
  <2>1. Nth(I, k) \in I /\ Nth(I, l) \in I /\ Rank(I, Nth(I, k)) = k /\ Rank(I, Nth(I, l)) = l
    BY <1>6
  <2>2. Nth(I, k) \in Nat /\ Nth(I, l) \in Nat
    BY <2>1
  <2>3. Nth(I, l) < Nth(I, k) => l < k
    BY <2>1, RankMonotone
  <2>4. k \in Nat /\ l \in Nat
    OBVIOUS
  <2>5. Nth(I, k) # Nth(I, l)
    BY <1>8, <2>1, <2>4
  <2>6. ~(Nth(I, l) < Nth(I, k))
    BY <1>8, <2>3, <2>4
  <2> QED
    BY <2>2, <2>5, <2>6
<1> QED
  BY <1>1, <1>6, <1>7, <1>8

LEMMA KeptElements ==
  ASSUME NEW S, NEW s \in Seq(S), NEW I \in SUBSET (1..Len(s))
  PROVE  /\ Kept(s, I) \in Seq(S)
         /\ \A k \in 1..Len(Kept(s, I)) : Nth(I, k) \in I /\ Kept(s, I)[k] = s[Nth(I, k)]
         /\ \A i \in I : \E k \in 1..Len(Kept(s, I)) : Kept(s, I)[k] = s[i]
         /\ \A k, l \in 1..Len(Kept(s, I)) : k < l => Nth(I, k) < Nth(I, l)
<1> DEFINE n == Cardinality(I)
           t == Kept(s, I)
<1>1. IsFiniteSet(I) /\ I \subseteq Nat
  <2> DEFINE m == Len(s)
  <2>1. m \in Nat
    OBVIOUS
  <2> HIDE DEF m
  <2>2. IsFiniteSet(1..m) /\ 1..m \subseteq Nat
    BY <2>1, FS_Interval
  <2> QED
    BY <2>2, FS_Subset DEF m
<1>2. /\ n \in Nat
      /\ \A k \in 1..n : Nth(I, k) \in I
      /\ \A i \in I : \E k \in 1..n : Nth(I, k) = i
      /\ \A k, l \in 1..n : k < l => Nth(I, k) < Nth(I, l)
  BY <1>1, NthEnumerates
<1> HIDE DEF n
<1>3. t = [k \in 1..n |-> s[Nth(I, k)]]
  BY DEF Kept, n
<1>4. \A k \in 1..n : s[Nth(I, k)] \in S
  <2>1. \A i \in I : s[i] \in S
    OBVIOUS
  <2> QED
    BY <1>2, <2>1
<1>5. t \in [1..n -> S]
  BY <1>3, <1>4
<1>6. \A k \in 1..n : t[k] = s[Nth(I, k)]
  BY <1>3
<1> HIDE DEF t
<1>7. t \in Seq(S) /\ Len(t) = n
  BY <1>2, <1>5
<1>8. \A i \in I : \E k \in 1..n : t[k] = s[i]
  BY <1>2, <1>6
<1> QED
  BY <1>2, <1>6, <1>7, <1>8 DEF t

-----------------------------------------------------------------------------
(* Concatenations.                                                         *)

LEMMA ConcatElements ==
  ASSUME NEW S, NEW a \in Seq(S), NEW b \in Seq(S)
  PROVE  /\ a \o b \in Seq(S) /\ Len(a \o b) = Len(a) + Len(b)
         /\ \A i \in 1..Len(a) : (a \o b)[i] = a[i]
         /\ \A i \in 1..Len(b) : (a \o b)[Len(a) + i] = b[i]
         /\ \A i \in 1..Len(a \o b) : i \in 1..Len(a) \/ i - Len(a) \in 1..Len(b)
  OBVIOUS

LEMMA ToSetConcat ==
  ASSUME NEW S, NEW a \in Seq(S), NEW b \in Seq(S)
  PROVE  ToSet(a \o b) = ToSet(a) \cup ToSet(b)
<1>1. \A x \in ToSet(a) : x \in ToSet(a \o b)
  BY ConcatElements DEF ToSet
<1>2. \A x \in ToSet(b) : x \in ToSet(a \o b)
  <2> SUFFICES ASSUME NEW i \in 1..Len(b) PROVE b[i] \in ToSet(a \o b)
    BY SMTT(40) DEF ToSet
  <2>1. Len(a) + i \in 1..Len(a \o b) /\ (a \o b)[Len(a) + i] = b[i]
    BY ConcatElements
  <2> QED
    BY <2>1, ConcatElements, SMTT(40) DEF ToSet
<1>3. \A x \in ToSet(a \o b) : x \in ToSet(a) \cup ToSet(b)
  <2> SUFFICES ASSUME NEW i \in 1..Len(a \o b) PROVE (a \o b)[i] \in ToSet(a) \cup ToSet(b)
    BY ConcatElements DEF ToSet
  <2>1. CASE i \in 1..Len(a)
    BY <2>1, ConcatElements DEF ToSet
  <2>2. CASE i - Len(a) \in 1..Len(b)
    <3>1. i = Len(a) + (i - Len(a))
      OBVIOUS
    <3>2. (a \o b)[i] = b[i - Len(a)]
      BY <2>2, <3>1, ConcatElements
    <3> QED
      BY <2>2, <3>2 DEF ToSet
  <2> QED
    BY <2>1, <2>2, ConcatElements
<1> QED
  BY <1>1, <1>2, <1>3

\* The head moves from what is to come to what has been.
LEMMA Advance ==
  ASSUME NEW S, NEW a \in Seq(S), NEW b \in Seq(S), b # <<>>
  PROVE  /\ Append(a, Head(b)) \in Seq(S) /\ Tail(b) \in Seq(S)
         /\ Append(a, Head(b)) \o Tail(b) = a \o b
<1> DEFINE c == Append(a, Head(b))
           d == Tail(b)
<1>1. c \in Seq(S) /\ d \in Seq(S) /\ Len(c) = Len(a) + 1 /\ Len(d) = Len(b) - 1
      /\ c[Len(a) + 1] = b[1] /\ (\A i \in 1..Len(a) : c[i] = a[i])
      /\ \A i \in 1..Len(d) : d[i] = b[i + 1]
  OBVIOUS
<1> HIDE DEF c, d
<1>2. /\ c \o d \in Seq(S) /\ Len(c \o d) = Len(c) + Len(d)
      /\ \A i \in 1..(Len(c) + Len(d)) : (c \o d)[i] = IF i <= Len(c) THEN c[i] ELSE d[i - Len(c)]
  BY <1>1, ConcatProperties
<1>3. /\ a \o b \in Seq(S) /\ Len(a \o b) = Len(a) + Len(b)
      /\ \A i \in 1..(Len(a) + Len(b)) : (a \o b)[i] = IF i <= Len(a) THEN a[i] ELSE b[i - Len(a)]
  BY ConcatProperties
<1>4. Len(a) \in Nat /\ Len(b) \in Nat /\ Len(c) + Len(d) = Len(a) + Len(b)
  BY <1>1
<1>5. ASSUME NEW i \in 1..(Len(a) + Len(b)) PROVE (c \o d)[i] = (a \o b)[i]
  <2>1. (c \o d)[i] = IF i <= Len(c) THEN c[i] ELSE d[i - Len(c)]
    BY <1>2, <1>4
  <2>2. (a \o b)[i] = IF i <= Len(a) THEN a[i] ELSE b[i - Len(a)]
    BY <1>3
  <2>3. CASE i <= Len(a)
    BY <2>1, <2>2, <2>3, <1>1, <1>4
  <2>4. CASE i = Len(a) + 1
    BY <2>1, <2>2, <2>4, <1>1, <1>4
  <2>5. CASE i > Len(a) + 1
    <3>1. i - Len(c) \in 1..Len(d) /\ (i - Len(c)) + 1 = i - Len(a)
      BY <2>5, <1>1, <1>4
    <3>2. d[i - Len(c)] = b[(i - Len(c)) + 1]
      BY <3>1, <1>1
    <3> QED
      BY <2>1, <2>2, <2>5, <3>1, <3>2, <1>1, <1>4
  <2> QED
    BY <2>3, <2>4, <2>5, <1>4
<1>6. c \o d = a \o b
  BY <1>2, <1>3, <1>4, <1>5, SeqEqual
<1> QED
  BY <1>1, <1>6 DEF c, d

LEMMA InOrderPrefix ==
  ASSUME NEW a \in Seq(Definition), NEW b \in Seq(Definition), NEW phase, InOrder(a \o b, phase)
  PROVE  InOrder(a, phase)
<1>1. DOMAIN a = 1..Len(a) /\ DOMAIN (a \o b) = 1..(Len(a) + Len(b)) /\ Len(a) \in Nat /\ Len(b) \in Nat
  OBVIOUS
<1>2. \A i \in DOMAIN a : i \in DOMAIN (a \o b) /\ (a \o b)[i] = a[i]
  BY <1>1, ConcatElements
<1> QED
  BY <1>2 DEF InOrder

LEMMA InOrderInjective ==
  ASSUME NEW a \in Seq(Definition), NEW phase, InOrder(a, phase)
  PROVE  IsInjective(a)
<1> SUFFICES ASSUME NEW i \in 1..Len(a), NEW j \in 1..Len(a), a[i] = a[j], i < j PROVE FALSE
  BY DEF IsInjective
<1>1. a[i] \in Definition /\ a[j] \in Definition /\ i \in DOMAIN a /\ j \in DOMAIN a
  OBVIOUS
<1>2. a[i].order < a[j].order \/ a[i].group # a[j].group
  BY <1>1 DEF InOrder
<1>3. a[i].order \in Int
  BY <1>1 DEF Definition
<1> QED
  BY <1>2, <1>3

-----------------------------------------------------------------------------
(* The registry and its snapshots.                                         *)

RegistryOK ==
  /\ middlewares \in Seq(Definition)
  /\ registered \in 0..MaxOrder
  /\ \A i \in 1..Len(middlewares) : middlewares[i].order <= registered
  /\ \A i, j \in 1..Len(middlewares) : i < j => middlewares[i].order < middlewares[j].order

\* A scope of one phase: all of one group, in registration order.
LEMMA ScopeOK ==
  ASSUME RegistryOK, NEW phase, NEW g
  PROVE  LET s == Scope(phase, g)
         IN /\ s \in Seq(Definition)
            /\ \A k \in 1..Len(s) : s[k].group = g
            /\ \A k, l \in 1..Len(s) : k < l => s[k].order < s[l].order
            /\ \A d \in ToSet(middlewares) : d.phase = phase /\ d.group = g => d \in ToSet(s)
<1> DEFINE I == {i \in DOMAIN middlewares : middlewares[i].phase = phase /\ middlewares[i].group = g}
           s == Kept(middlewares, I)
<1>1. middlewares \in Seq(Definition) /\ I \in SUBSET (1..Len(middlewares))
  BY DEF RegistryOK
<1>2. /\ s \in Seq(Definition)
      /\ \A k \in 1..Len(s) : Nth(I, k) \in I /\ s[k] = middlewares[Nth(I, k)]
      /\ \A i \in I : \E k \in 1..Len(s) : s[k] = middlewares[i]
      /\ \A k, l \in 1..Len(s) : k < l => Nth(I, k) < Nth(I, l)
  <2> HIDE DEF I
  <2> QED
    BY <1>1, KeptElements
<1>3. \A i \in I : i \in 1..Len(middlewares) /\ middlewares[i].phase = phase /\ middlewares[i].group = g
  BY <1>1
<1>4. \A d \in ToSet(middlewares) : d.phase = phase /\ d.group = g => \E i \in I : d = middlewares[i]
  BY DEF ToSet
<1>5. s = Scope(phase, g)
  BY DEF Scope
<1> HIDE DEF I, s
<1>6. \A k \in 1..Len(s) : s[k].group = g
  BY <1>2, <1>3, SMTT(40)
<1>7. \A k, l \in 1..Len(s) : k < l => s[k].order < s[l].order
  <2> SUFFICES ASSUME NEW k \in 1..Len(s), NEW l \in 1..Len(s), k < l PROVE s[k].order < s[l].order
    OBVIOUS
  <2>1. Nth(I, k) \in 1..Len(middlewares) /\ Nth(I, l) \in 1..Len(middlewares) /\ Nth(I, k) < Nth(I, l)
        /\ s[k] = middlewares[Nth(I, k)] /\ s[l] = middlewares[Nth(I, l)]
    BY <1>2, <1>3
  <2> QED
    BY <2>1 DEF RegistryOK
<1>8. \A d \in ToSet(middlewares) : d.phase = phase /\ d.group = g => d \in ToSet(s)
  BY <1>2, <1>4, SMTT(40) DEF ToSet
<1> QED
  BY <1>2, <1>5, <1>6, <1>7, <1>8

\* Two scopes after each other.
LEMMA ScopesInOrder ==
  ASSUME NEW a \in Seq(Definition), NEW b \in Seq(Definition), NEW phase, NEW g, NEW h,
         \A k \in 1..Len(a) : a[k].group = g,
         \A k \in 1..Len(b) : b[k].group = h,
         \A k, l \in 1..Len(a) : k < l => a[k].order < a[l].order,
         \A k, l \in 1..Len(b) : k < l => b[k].order < b[l].order,
         a # <<>> => g # h /\ (phase = "BEFORE" <=> g = NoGroup)
  PROVE  InOrder(a \o b, phase)
<1> DEFINE c == a \o b
<1>1. c \in Seq(Definition) /\ Len(c) = Len(a) + Len(b) /\ Len(a) \in Nat /\ Len(b) \in Nat
  OBVIOUS
<1> SUFFICES ASSUME NEW i \in 1..Len(c), NEW j \in 1..Len(c), i < j
             PROVE  \/ c[i].group = c[j].group /\ c[i].order < c[j].order
                    \/ c[i].group # c[j].group /\ (phase = "BEFORE" <=> c[i].group = NoGroup)
  BY <1>1, SMTT(40) DEF InOrder
<1>2. CASE j \in 1..Len(a)
  <2>1. i \in 1..Len(a) /\ c[i] = a[i] /\ c[j] = a[j]
    BY <1>2, <1>1, ConcatElements
  <2> QED
    BY <1>2, <2>1
<1>3. CASE i \in 1..Len(a) /\ j \notin 1..Len(a)
  <2>1. j - Len(a) \in 1..Len(b) /\ c[i] = a[i] /\ c[j] = b[j - Len(a)] /\ a # <<>>
    BY <1>3, <1>1, ConcatElements
  <2> QED
    BY <1>3, <2>1
<1>4. CASE i \notin 1..Len(a)
  <2>1. i - Len(a) \in 1..Len(b) /\ j - Len(a) \in 1..Len(b) /\ c[i] = b[i - Len(a)] /\ c[j] = b[j - Len(a)]
        /\ i - Len(a) < j - Len(a)
    BY <1>4, <1>1, ConcatElements
  <2> QED
    BY <2>1
<1> QED
  BY <1>2, <1>3, <1>4

\* Registry::Snapshot: in order, with every definition of the phase that
\* concerns the group.
LEMMA SnapshotOK ==
  ASSUME RegistryOK, NEW phase \in {"BEFORE", "AFTER"}, NEW group
  PROVE  LET s == Snapshot(phase, group)
         IN /\ s \in Seq(Definition)
            /\ InOrder(s, phase)
            /\ \A d \in ToSet(middlewares) : d.phase = phase /\ d.group \in {NoGroup, group} => d \in ToSet(s)
<1> DEFINE global == Scope(phase, NoGroup)
           grouped == IF group = NoGroup THEN <<>> ELSE Scope(phase, group)
           s == Snapshot(phase, group)
<1>1. /\ global \in Seq(Definition)
      /\ \A k \in 1..Len(global) : global[k].group = NoGroup
      /\ \A k, l \in 1..Len(global) : k < l => global[k].order < global[l].order
      /\ \A d \in ToSet(middlewares) : d.phase = phase /\ d.group = NoGroup => d \in ToSet(global)
  BY ScopeOK
<1>2. /\ grouped \in Seq(Definition)
      /\ \A k \in 1..Len(grouped) : grouped[k].group = group
      /\ \A k, l \in 1..Len(grouped) : k < l => grouped[k].order < grouped[l].order
      /\ grouped # <<>> => group # NoGroup
      /\ \A d \in ToSet(middlewares) : d.phase = phase /\ d.group = group /\ group # NoGroup => d \in ToSet(grouped)
  <2>1. CASE group = NoGroup
    BY <2>1
  <2>2. CASE group # NoGroup
    <3>1. grouped = Scope(phase, group)
      BY <2>2
    <3> HIDE DEF grouped
    <3> QED
      BY <2>2, <3>1, ScopeOK
  <2> QED
    BY <2>1, <2>2
<1>3. s = IF phase = "BEFORE" THEN global \o grouped ELSE grouped \o global
  BY DEF Snapshot
<1> HIDE DEF global, grouped, s
<1>4. CASE group = NoGroup
  <2>1. grouped = <<>>
    BY <1>4 DEF grouped
  <2>2. s = global
    BY <1>1, <1>3, <2>1
  <2>3. InOrder(global, phase)
    BY <1>1 DEF InOrder
  <2> QED
    BY <1>1, <1>4, <2>2, <2>3 DEF s
<1>5. CASE group # NoGroup
  <2>1. CASE phase = "BEFORE"
    <3>1. s = global \o grouped
      BY <1>3, <2>1
    <3>2. InOrder(global \o grouped, phase)
      <4>1. NoGroup # group /\ (phase = "BEFORE" <=> NoGroup = NoGroup)
        BY <1>5, <2>1
      <4> QED
        BY <1>1, <1>2, <4>1, ScopesInOrder
    <3>3. ToSet(s) = ToSet(global) \cup ToSet(grouped) /\ s \in Seq(Definition)
      BY <1>1, <1>2, <3>1, ToSetConcat
    <3> QED
      BY <1>1, <1>2, <1>5, <3>1, <3>2, <3>3 DEF s
  <2>2. CASE phase # "BEFORE"
    <3>1. s = grouped \o global
      BY <1>3, <2>2
    <3>2. InOrder(grouped \o global, phase)
      BY <1>1, <1>2, <1>5, <2>2, ScopesInOrder
    <3>3. ToSet(s) = ToSet(global) \cup ToSet(grouped) /\ s \in Seq(Definition)
      BY <1>1, <1>2, <3>1, ToSetConcat
    <3> QED
      BY <1>1, <1>2, <1>5, <3>1, <3>2, <3>3 DEF s
  <2> QED
    BY <2>1, <2>2
<1> QED
  BY <1>4, <1>5

-----------------------------------------------------------------------------
(* The invariant.                                                          *)

Outside == {"idle", "start", "streaming", "limit"}
Gated   == {"policy", "open", "look", "lookAfter", "begin"}
Inside  == {"bind", "execute", "serialize"}
Labels  == Outside \cup Gated \cup Inside \cup {"before", "finish", "after", "done"}
Statuses == {"unset", "success", "error", "504", "507"}

RequestType ==
  [at : Labels, group : Scopes, t0 : Int, dl : Int, scope : BOOLEAN, auth : BOOLEAN, status : Statuses,
   todo : Seq(Definition), hook : BOOLEAN, allowed : Seq(Definition), ran : Seq(Definition),
   past : BOOLEAN, cut : BOOLEAN, sql : Nat, logs : Nat, steady : SUBSET Definition]

\* The steady definitions of a phase that concern the request q.
Concerned(q, phase) == {d \in q.steady : d.phase = phase /\ d.group \in {NoGroup, q.group}}

\* Nothing of the route has run: the request is not past the BEFORE phase.
Untouched(q) == ~q.past /\ ~q.hook /\ ~q.cut /\ q.ran = <<>> /\ q.sql = 0

RequestOK(q) ==
  /\ q \in RequestType
  /\ q.logs = IF q.at = "done" THEN 1 ELSE 0
  /\ q.at \notin {"before", "after"} => q.todo = <<>>
  /\ q.at \in Outside \cup Gated \cup {"before"} => Untouched(q)
  /\ ~q.past => q.ran = <<>> /\ q.sql = 0
  /\ q.at \in Outside \cup Gated => q.allowed = <<>>
  /\ q.at \in Gated \cup {"before"} => q.auth
  /\ q.at \in Inside => q.past
  /\ q.at = "lookAfter" => Concerned(q, "BEFORE") = {}
  /\ q.at = "before" => /\ Concerned(q, "BEFORE") \subseteq ToSet(q.allowed \o q.todo)
                        /\ InOrder(q.allowed \o q.todo, "BEFORE")
  /\ q.past => q.auth /\ Concerned(q, "BEFORE") \subseteq ToSet(q.allowed)
  /\ InOrder(q.allowed, "BEFORE")
  /\ q.hook => q.past /\ ~q.cut /\ q.ran = <<>> /\ q.at \in Inside \cup {"finish"}
  /\ q.at = "after" => /\ q.past /\ ~q.hook
                       /\ q.cut \/ Concerned(q, "AFTER") \subseteq ToSet(q.ran \o q.todo)
                       /\ InOrder(q.ran \o q.todo, "AFTER")
  /\ q.past /\ ~q.hook /\ ~q.cut /\ q.at # "after" => Concerned(q, "AFTER") \subseteq ToSet(q.ran)
  /\ InOrder(q.ran, "AFTER")

Inv ==
  /\ RegistryOK
  /\ clock \in Nat
  /\ req \in [Requests -> RequestType]
  /\ \A r \in Requests : RequestOK(req[r]) /\ req[r].steady \subseteq ToSet(middlewares)

-----------------------------------------------------------------------------
(* Steps of one request.                                                   *)

LEMMA StepInv ==
  ASSUME Inv, NEW r \in Requests, NEW q, RequestOK(q), q.steady \subseteq ToSet(middlewares), Step(r, q)
  PROVE  Inv'
<1>1. middlewares' = middlewares /\ registered' = registered /\ clock' = clock /\ req' = [req EXCEPT ![r] = q]
  BY DEF Step
<1>2. q \in RequestType
  BY DEF RequestOK
<1>3. req' \in [Requests -> RequestType] /\ req'[r] = q /\ \A s \in Requests \ {r} : req'[s] = req[s]
  BY <1>1, <1>2 DEF Inv
<1>4. \A s \in Requests : RequestOK(req'[s]) /\ req'[s].steady \subseteq ToSet(middlewares)
  BY <1>3 DEF Inv
<1>5. RegistryOK'
  BY <1>1 DEF Inv, RegistryOK
<1> QED
  BY <1>1, <1>3, <1>4, <1>5 DEF Inv

\* Fields that a step leaves alone.
Same(p, q) ==
  /\ p.group = q.group /\ p.steady = q.steady /\ p.allowed = q.allowed /\ p.ran = q.ran
  /\ p.cut = q.cut

\* The answer is given: from any place of the handler but the AFTER phase.
LEMMA FinishOK ==
  ASSUME NEW q, RequestOK(q), q.at \in {"start", "limit", "before"} \cup Gated \cup Inside,
         NEW p \in RequestType, Same(p, q), p.at = "finish", p.todo = <<>>, p.auth = q.auth, p.past = q.past,
         p.hook = q.hook, p.logs = q.logs, ~q.past => p.sql = 0
  PROVE  RequestOK(p)
<1>1. Concerned(p, "BEFORE") = Concerned(q, "BEFORE") /\ Concerned(p, "AFTER") = Concerned(q, "AFTER")
  BY DEF Concerned, Same
<1>2. q.at \notin {"after", "done"} /\ p.at \notin Outside \cup Gated \cup Inside \cup {"before"}
  BY DEF Gated, Inside, Outside
<1> QED
  BY <1>1, <1>2 DEF RequestOK, Same

\* One gate further.
LEMMA GateOK ==
  ASSUME NEW q, RequestOK(q), q.at \in {"start", "limit"} \cup Gated,
         NEW p \in RequestType, Same(p, q), p.at \in {"limit", "policy", "open", "look", "lookAfter", "begin"},
         p.todo = <<>>, p.past = q.past, p.hook = q.hook, p.logs = q.logs, p.sql = q.sql,
         p.at # "limit" => p.auth,
         p.at = "lookAfter" => Concerned(q, "BEFORE") = {}
  PROVE  RequestOK(p)
<1>1. Concerned(p, "BEFORE") = Concerned(q, "BEFORE") /\ Concerned(p, "AFTER") = Concerned(q, "AFTER")
  BY DEF Concerned, Same
<1>2. /\ q.at \in Outside \cup Gated /\ q.at # "done"
      /\ p.at \notin Inside \cup {"before", "after", "done"} /\ (p.at \in Gated => p.at # "limit")
  BY DEF Gated, Inside, Outside
<1> QED
  BY <1>1, <1>2 DEF RequestOK, Same, Untouched

\* Further inside the try block, past the BEFORE phase.
LEMMA InsideOK ==
  ASSUME NEW q, RequestOK(q), q.at \in Inside,
         NEW p \in RequestType, Same(p, q), p.at \in Inside, p.todo = <<>>, p.auth = q.auth, p.past = q.past,
         p.hook = q.hook, p.logs = q.logs
  PROVE  RequestOK(p)
<1>1. Concerned(p, "BEFORE") = Concerned(q, "BEFORE") /\ Concerned(p, "AFTER") = Concerned(q, "AFTER")
  BY DEF Concerned, Same
<1>2. /\ q.at \notin {"after", "done"}
      /\ p.at \notin Outside \cup Gated \cup {"lookAfter", "before", "after", "done"}
  BY DEF Gated, Inside, Outside
<1>3. q.past /\ p.past /\ q.logs = 0 /\ p.logs = 0
  BY <1>2 DEF RequestOK
<1>4. /\ p.auth /\ Concerned(p, "BEFORE") \subseteq ToSet(p.allowed)
      /\ p.hook => ~p.cut /\ p.ran = <<>>
      /\ ~p.hook /\ ~p.cut => Concerned(p, "AFTER") \subseteq ToSet(p.ran)
      /\ InOrder(p.allowed, "BEFORE") /\ InOrder(p.ran, "AFTER")
  BY <1>1, <1>2, <1>3 DEF RequestOK, Same
<1> QED
  BY <1>2, <1>3, <1>4 DEF RequestOK

\* The history forgets definitions.
LEMMA ForgetOK ==
  ASSUME NEW q, RequestOK(q), NEW T \in SUBSET q.steady
  PROVE  RequestOK([q EXCEPT !.steady = T])
<1> DEFINE p == [q EXCEPT !.steady = T]
<1>1. q \in RequestType /\ T \in SUBSET Definition
  BY DEF RequestOK, RequestType
<1>2. /\ p \in RequestType /\ p.at = q.at /\ p.todo = q.todo /\ p.auth = q.auth
      /\ p.past = q.past /\ p.hook = q.hook /\ p.logs = q.logs /\ p.sql = q.sql /\ p.steady = T
      /\ p.group = q.group /\ p.allowed = q.allowed /\ p.ran = q.ran /\ p.cut = q.cut
  BY <1>1 DEF RequestType
<1> HIDE DEF p
<1>3. Concerned(p, "BEFORE") \subseteq Concerned(q, "BEFORE") /\ Concerned(p, "AFTER") \subseteq Concerned(q, "AFTER")
  BY <1>2 DEF Concerned
<1>4. RequestOK(p)
  BY <1>2, <1>3 DEF RequestOK, Untouched
<1> QED
  BY <1>4 DEF p

LEMMA IdleOK == RequestOK(Idle)
<1>1. Idle \in RequestType
  <2>1. "idle" \in Labels /\ NoGroup \in Scopes /\ "unset" \in Statuses
    BY DEF Labels, Outside, Scopes, Statuses
  <2> QED
    BY <2>1 DEF RequestType, Idle
<1>2. Idle.at = "idle" /\ Idle.todo = <<>> /\ Idle.allowed = <<>> /\ Idle.ran = <<>> /\ Idle.logs = 0
      /\ ~Idle.past /\ ~Idle.hook /\ ~Idle.cut /\ Idle.sql = 0
  BY DEF Idle
<1>3. InOrder(<<>>, "BEFORE") /\ InOrder(<<>>, "AFTER")
  BY DEF InOrder
<1> QED
  BY <1>1, <1>2, <1>3 DEF RequestOK, Untouched, Outside, Gated, Inside

-----------------------------------------------------------------------------
(* The actions.                                                            *)

LEMMA RequestFacts ==
  ASSUME Inv, NEW r \in Requests
  PROVE  req[r] \in RequestType /\ RequestOK(req[r]) /\ req[r].steady \subseteq ToSet(middlewares)
  BY DEF Inv

LEMMA ReceiveInv ==
  ASSUME Inv, NEW r \in Requests, NEW group \in Scopes, Receive(r, group)
  PROVE  Inv'
<1> DEFINE T == ToSet(middlewares)
           q == [Idle EXCEPT !.at = "start", !.group = group, !.t0 = clock, !.steady = T]
<1>1. Step(r, q)
  BY DEF Receive
<1>2. T \in SUBSET Definition /\ clock \in Int
  BY DEF Inv, RegistryOK, ToSet
<1>3. Idle \in RequestType /\ "start" \in Labels
  BY IdleOK DEF RequestOK, Labels, Outside
<1> HIDE DEF T
<1>4. /\ q \in RequestType /\ q.at = "start" /\ q.todo = <<>> /\ q.allowed = <<>> /\ q.ran = <<>> /\ q.logs = 0
      /\ ~q.past /\ ~q.hook /\ ~q.cut /\ q.sql = 0 /\ q.steady = T
  BY <1>2, <1>3 DEF RequestType, Idle
<1> HIDE DEF q
<1>5. InOrder(<<>>, "BEFORE") /\ InOrder(<<>>, "AFTER")
  BY DEF InOrder
<1>6. RequestOK(q)
  BY <1>4, <1>5 DEF RequestOK, Untouched, Outside, Gated, Inside
<1> QED
  BY <1>1, <1>4, <1>6, StepInv DEF T

LEMMA AnswerInv ==
  ASSUME Inv, NEW r \in Requests, req[r].at \in {"start", "limit", "before"} \cup Gated \cup Inside,
         NEW status \in Statuses, Answer(r, status)
  PROVE  Inv'
<1> DEFINE q == req[r]
           p == [q EXCEPT !.at = "finish", !.status = status, !.todo = <<>>]
<1>1. Step(r, p) /\ "finish" \in Labels /\ <<>> \in Seq(Definition)
  BY DEF Answer, Labels
<1>2. q \in RequestType /\ RequestOK(q)
  BY RequestFacts
<1>3. /\ p \in RequestType /\ p.at = "finish" /\ p.todo = <<>> /\ Same(p, q) /\ p.auth = q.auth /\ p.past = q.past
      /\ p.hook = q.hook /\ p.logs = q.logs /\ p.sql = q.sql
  BY <1>1, <1>2 DEF RequestType, Same
<1> HIDE DEF p
<1>4. RequestOK(p)
  <2>1. ~q.past => p.sql = 0
    BY <1>2, <1>3 DEF RequestOK
  <2> QED
    BY <1>2, <1>3, <2>1, FinishOK
<1> QED
  BY <1>1, <1>3, <1>4, RequestFacts, StepInv DEF Same

\* The handler's early exits.
LEMMA AnsweredInv ==
  ASSUME Inv, NEW r \in Requests,
         \/ ShuttingDown(r) \/ Builtin(r) \/ NoRoute(r) \/ StreamRefused(r) \/ RateLimited(r) \/ Refused(r)
         \/ PolicyDenied(r) \/ BlockBefore(r) \/ BindRefused(r) \/ Serialized(r)
  PROVE  Inv'
<1>1. req[r].at \in {"start", "limit", "before"} \cup Gated \cup Inside
  BY DEF ShuttingDown, Builtin, NoRoute, StreamRefused, RateLimited, Refused, PolicyDenied, BlockBefore,
         BindRefused, Serialized, Gated, Inside
<1>2. \E status \in Statuses : Answer(r, status)
  BY DEF ShuttingDown, Builtin, NoRoute, StreamRefused, RateLimited, Refused, PolicyDenied, BlockBefore,
         BindRefused, Serialized, Statuses
<1> QED
  BY <1>1, <1>2, AnswerInv

LEMMA StreamInv ==
  ASSUME Inv, NEW r \in Requests, StreamOpened(r) \/ StreamClosed(r)
  PROVE  Inv'
<1> DEFINE q == req[r]
<1>1. q \in RequestType /\ RequestOK(q)
  BY RequestFacts
<1>2. CASE StreamOpened(r)
  <2> DEFINE p == [q EXCEPT !.at = "streaming", !.status = "success"]
  <2>1. q.at = "start" /\ Step(r, p) /\ "streaming" \in Labels /\ "success" \in Statuses
    BY <1>2 DEF StreamOpened, Labels, Outside, Statuses
  <2>2. /\ p \in RequestType /\ p.at = "streaming" /\ p.todo = q.todo /\ Same(p, q) /\ p.past = q.past
        /\ p.hook = q.hook /\ p.logs = q.logs /\ p.sql = q.sql
    BY <1>1, <2>1 DEF RequestType, Same
  <2> HIDE DEF p
  <2>3. RequestOK(p)
    BY <1>1, <2>1, <2>2 DEF RequestOK, Untouched, Same, Outside, Gated, Inside
  <2> QED
    BY <2>1, <2>2, <2>3, RequestFacts, StepInv DEF Same
<1>3. CASE StreamClosed(r)
  <2> DEFINE n == q.logs + 1
             p == [q EXCEPT !.at = "done", !.logs = n]
  <2>1. q.at = "streaming" /\ Step(r, p) /\ "done" \in Labels /\ n \in Nat
    BY <1>1, <1>3 DEF StreamClosed, Labels, RequestType
  <2>2. q.logs = 0 /\ n = 1
    BY <1>1, <2>1 DEF RequestOK
  <2> HIDE DEF n
  <2>3. /\ p \in RequestType /\ p.at = "done" /\ p.todo = q.todo /\ Same(p, q) /\ p.past = q.past
        /\ p.hook = q.hook /\ p.logs = n /\ p.sql = q.sql
    BY <1>1, <2>1 DEF RequestType, Same
  <2> HIDE DEF p
  <2>4. RequestOK(p)
    BY <1>1, <2>1, <2>2, <2>3 DEF RequestOK, Untouched, Same, Outside, Gated, Inside
  <2> QED
    BY <2>1, <2>3, <2>4, RequestFacts, StepInv DEF Same
<1> QED
  BY <1>2, <1>3

\* A step to another gate; sets how the connection and the verdict stand.
LEMMA GateInv ==
  ASSUME Inv, NEW r \in Requests, req[r].at \in {"start", "limit"} \cup Gated,
         NEW at \in {"limit", "policy", "open", "look", "lookAfter", "begin"},
         NEW auth \in BOOLEAN, NEW scope \in BOOLEAN, NEW dl \in Int,
         at # "limit" => auth,
         at = "lookAfter" => Concerned(req[r], "BEFORE") = {},
         Step(r, [req[r] EXCEPT !.at = at, !.auth = auth, !.scope = scope, !.dl = dl])
  PROVE  Inv'
<1> DEFINE q == req[r]
           p == [q EXCEPT !.at = at, !.auth = auth, !.scope = scope, !.dl = dl]
<1>1. Step(r, p) /\ at \in Labels
  BY DEF Labels, Outside, Gated
<1>2. q \in RequestType /\ RequestOK(q)
  BY RequestFacts
<1>3. /\ p \in RequestType /\ p.at = at /\ p.todo = q.todo /\ Same(p, q) /\ p.auth = auth /\ p.past = q.past
      /\ p.hook = q.hook /\ p.logs = q.logs /\ p.sql = q.sql
  BY <1>1, <1>2 DEF RequestType, Same
<1> HIDE DEF p
<1>4. q.todo = <<>>
  BY <1>2 DEF RequestOK, Gated
<1>5. RequestOK(p)
  BY <1>2, <1>3, <1>4, GateOK
<1> QED
  BY <1>1, <1>3, <1>5, RequestFacts, StepInv DEF Same

LEMMA GotoIsGate ==
  ASSUME Inv, NEW r \in Requests, NEW at, Goto(r, at)
  PROVE  Step(r, [req[r] EXCEPT !.at = at, !.auth = req[r].auth, !.scope = req[r].scope, !.dl = req[r].dl])
<1>1. req[r] \in RequestType
  BY RequestFacts
<1>2. [req[r] EXCEPT !.at = at]
        = [req[r] EXCEPT !.at = at, !.auth = req[r].auth, !.scope = req[r].scope, !.dl = req[r].dl]
  BY <1>1 DEF RequestType
<1> QED
  BY <1>2 DEF Goto

\* A snapshot holds what has been there since the request came in.
LEMMA SnapshotCovers ==
  ASSUME Inv, NEW r \in Requests, NEW phase \in {"BEFORE", "AFTER"}
  PROVE  LET s == Snapshot(phase, req[r].group)
         IN s \in Seq(Definition) /\ InOrder(s, phase) /\ Concerned(req[r], phase) \subseteq ToSet(s)
<1> DEFINE s == Snapshot(phase, req[r].group)
<1>1. /\ s \in Seq(Definition) /\ InOrder(s, phase)
      /\ \A d \in ToSet(middlewares) : d.phase = phase /\ d.group \in {NoGroup, req[r].group} => d \in ToSet(s)
  BY SnapshotOK DEF Inv
<1> HIDE DEF s
<1>2. Concerned(req[r], phase) \subseteq ToSet(s)
  BY <1>1, RequestFacts DEF Concerned
<1> QED
  BY <1>1, <1>2 DEF s

LEMMA ToSetEmpty == ToSet(<<>>) = {}
  BY DEF ToSet

LEMMA GatesInv ==
  ASSUME Inv, NEW r \in Requests,
         \/ \E ok \in BOOLEAN : Authenticate(r, ok)
         \/ Admitted(r) \/ PolicyApplied(r) \/ Open(r) \/ LookBefore(r)
         \/ LookAfter(r) /\ Snapshot("AFTER", req[r].group) # <<>>
  PROVE  Inv'
<1> DEFINE q == req[r]
<1>1. q \in RequestType /\ RequestOK(q) /\ q.auth \in BOOLEAN /\ q.scope \in BOOLEAN /\ q.dl \in Int /\ q.t0 \in Int
  BY RequestFacts DEF RequestType
<1>2. ASSUME NEW ok \in BOOLEAN, Authenticate(r, ok) PROVE Inv'
  <2>1. q.at = "start" /\ Step(r, [q EXCEPT !.at = "limit", !.auth = ok])
    BY <1>2 DEF Authenticate
  <2>2. [q EXCEPT !.at = "limit", !.auth = ok]
          = [q EXCEPT !.at = "limit", !.auth = ok, !.scope = q.scope, !.dl = q.dl]
    BY <1>1 DEF RequestType
  <2>3. Step(r, [q EXCEPT !.at = "limit", !.auth = ok, !.scope = q.scope, !.dl = q.dl])
    BY <2>1, <2>2
  <2> QED
    BY <1>1, <2>1, <2>3, GateInv, ZenonT(40)
<1>3. CASE Admitted(r)
  <2>1. q.at = "limit" /\ q.auth /\ Goto(r, "policy")
    BY <1>3 DEF Admitted
  <2> QED
    BY <1>1, <2>1, GotoIsGate, GateInv, ZenonT(40)
<1>4. CASE PolicyApplied(r)
  <2>1. q.at = "policy" /\ Goto(r, "open") /\ q.at \in Gated
    BY <1>4 DEF PolicyApplied, Gated
  <2>2. q.auth
    BY <1>1, <2>1 DEF RequestOK
  <2> QED
    BY <1>1, <2>1, <2>2, GotoIsGate, GateInv, ZenonT(40)
<1>5. CASE Open(r)
  <2> DEFINE dl == clock + Longer(1, Budget - (clock - q.t0))
  <2>1. q.at = "open" /\ q.at \in Gated /\ Step(r, [q EXCEPT !.at = "look", !.scope = TRUE, !.dl = dl])
    BY <1>5 DEF Open, Gated
  <2>2. dl \in Int
    BY <1>1, PipelineAssumption DEF Longer, Inv
  <2> HIDE DEF dl
  <2>3. [q EXCEPT !.at = "look", !.scope = TRUE, !.dl = dl]
          = [q EXCEPT !.at = "look", !.auth = q.auth, !.scope = TRUE, !.dl = dl]
    BY <1>1 DEF RequestType
  <2>4. Step(r, [q EXCEPT !.at = "look", !.auth = q.auth, !.scope = TRUE, !.dl = dl])
    BY <2>1, <2>3
  <2>5. q.auth
    BY <1>1, <2>1 DEF RequestOK
  <2> QED
    BY <1>1, <2>1, <2>2, <2>4, <2>5, GateInv, ZenonT(40)
<1>6. CASE LookBefore(r)
  <2> DEFINE at == IF Snapshot("BEFORE", q.group) # <<>> THEN "begin" ELSE "lookAfter"
  <2>1. q.at = "look" /\ q.at \in Gated /\ Goto(r, at)
    BY <1>6 DEF LookBefore, Gated
  <2>2. at = "lookAfter" => Concerned(q, "BEFORE") = {}
    BY SnapshotCovers, ToSetEmpty
  <2>3. at \in {"begin", "lookAfter"}
    OBVIOUS
  <2> HIDE DEF at
  <2>4. q.auth
    BY <1>1, <2>1 DEF RequestOK
  <2>5. Step(r, [q EXCEPT !.at = at, !.auth = q.auth, !.scope = q.scope, !.dl = q.dl])
    BY <2>1, GotoIsGate
  <2>6. at \in {"limit", "policy", "open", "look", "lookAfter", "begin"}
    BY <2>3
  <2> QED
    BY <1>1, <2>1, <2>2, <2>4, <2>5, <2>6, GateInv, ZenonT(40)
<1>7. CASE LookAfter(r) /\ Snapshot("AFTER", req[r].group) # <<>>
  <2>1. q.at = "lookAfter" /\ q.at \in Gated /\ Goto(r, "begin")
    BY <1>7 DEF LookAfter, Gated
  <2>2. q.auth
    BY <1>1, <2>1 DEF RequestOK
  <2> QED
    BY <1>1, <2>1, <2>2, GotoIsGate, GateInv, ZenonT(40)
<1> QED
  BY <1>2, <1>3, <1>4, <1>5, <1>6, <1>7

\* No middleware at all: the BEFORE phase is over, and no hook is installed.
LEMMA NoMiddlewareInv ==
  ASSUME Inv, NEW r \in Requests, LookAfter(r), Snapshot("AFTER", req[r].group) = <<>>
  PROVE  Inv'
<1> DEFINE q == req[r]
           p == [q EXCEPT !.at = "bind", !.past = TRUE]
<1>1. q \in RequestType /\ RequestOK(q)
  BY RequestFacts
<1>2. q.at = "lookAfter" /\ q.at \in Gated /\ Step(r, p) /\ "bind" \in Labels
  BY DEF LookAfter, Gated, Labels, Inside
<1>3. /\ p \in RequestType /\ p.at = "bind" /\ p.todo = q.todo /\ Same(p, q) /\ p.auth = q.auth /\ p.past = TRUE
      /\ p.hook = q.hook /\ p.logs = q.logs /\ p.sql = q.sql
  BY <1>1, <1>2 DEF RequestType, Same
<1> HIDE DEF p
<1>4. Concerned(q, "AFTER") = {} /\ Concerned(q, "BEFORE") = {}
  BY <1>1, <1>2, SnapshotCovers, ToSetEmpty DEF RequestOK
<1>5. Concerned(p, "BEFORE") = Concerned(q, "BEFORE") /\ Concerned(p, "AFTER") = Concerned(q, "AFTER")
  BY <1>3 DEF Concerned, Same
<1>6. RequestOK(p)
  BY <1>1, <1>2, <1>3, <1>4, <1>5 DEF RequestOK, Same, Untouched, Outside, Gated, Inside
<1> QED
  BY <1>2, <1>3, <1>6, RequestFacts, StepInv DEF Same

LEMMA ThrowInv ==
  ASSUME Inv, NEW r \in Requests, Throw(r)
  PROVE  Inv'
<1> DEFINE q == req[r]
<1>1. q \in RequestType /\ RequestOK(q) /\ q.sql \in Nat
  BY RequestFacts DEF RequestType
<1>2. PICK n \in {0, 1} : /\ n = 1 => q.at = "execute"
                          /\ Step(r, [q EXCEPT !.at = "finish", !.status = "error", !.scope = FALSE, !.sql = @ + n])
  <2>1. PICK n \in IF q.at = "execute" THEN {0, 1} ELSE {0} :
          Step(r, [q EXCEPT !.at = "finish", !.status = "error", !.scope = FALSE, !.sql = @ + n])
    BY DEF Throw
  <2>2. n \in {0, 1} /\ (n = 1 => q.at = "execute")
    OBVIOUS
  <2> QED
    BY <2>1, <2>2
<1> DEFINE m == q.sql + n
           p == [q EXCEPT !.at = "finish", !.status = "error", !.scope = FALSE, !.sql = m]
<1>3. /\ q.at \in {"open", "look", "lookAfter", "begin", "bind", "execute", "serialize"}
      /\ q.at \in Gated \cup Inside /\ q.at \notin {"before", "after"}
      /\ "finish" \in Labels /\ "error" \in Statuses /\ m \in Nat /\ Step(r, p)
  BY <1>1, <1>2 DEF Throw, Gated, Inside, Labels, Statuses
<1>4. ~q.past => m = 0
  BY <1>1, <1>2 DEF RequestOK, Inside
<1> HIDE DEF m
<1>5. /\ p \in RequestType /\ p.at = "finish" /\ p.todo = q.todo /\ Same(p, q) /\ p.auth = q.auth /\ p.past = q.past
      /\ p.hook = q.hook /\ p.logs = q.logs /\ p.sql = m
  BY <1>1, <1>3 DEF RequestType, Same
<1> HIDE DEF p
<1>6. q.todo = <<>>
  BY <1>1, <1>3 DEF RequestOK
<1>7. RequestOK(p)
  BY <1>1, <1>3, <1>4, <1>5, <1>6, FinishOK
<1> QED
  BY <1>3, <1>5, <1>7, RequestFacts, StepInv DEF Same

\* Executed, serialized, or bound: inside the block, or out of it.
LEMMA BlockInv ==
  ASSUME Inv, NEW r \in Requests, Bound(r) \/ (\E ok \in BOOLEAN : Execute(r, ok)) \/ SerializedLast(r)
  PROVE  Inv'
<1> DEFINE q == req[r]
<1>1. q \in RequestType /\ RequestOK(q) /\ q.sql \in Nat /\ q.scope \in BOOLEAN /\ q.status \in Statuses
  BY RequestFacts DEF RequestType
<1>2. PICK at \in Inside \cup {"finish"}, status \in Statuses, scope \in BOOLEAN, m \in Nat :
        /\ q.at \in Inside
        /\ Step(r, [q EXCEPT !.at = at, !.status = status, !.scope = scope, !.sql = m])
  <2>1. CASE Bound(r)
    <3>1. q.at \in Inside /\ "execute" \in Inside /\ Step(r, [q EXCEPT !.at = "execute"])
      BY <2>1 DEF Bound, Goto, Inside
    <3>2. [q EXCEPT !.at = "execute"]
            = [q EXCEPT !.at = "execute", !.status = q.status, !.scope = q.scope, !.sql = q.sql]
      BY <1>1 DEF RequestType
    <3>3. Step(r, [q EXCEPT !.at = "execute", !.status = q.status, !.scope = q.scope, !.sql = q.sql])
      BY <3>1, <3>2
    <3> QED
      BY <1>1, <3>1, <3>3
  <2>2. CASE \E ok \in BOOLEAN : Execute(r, ok)
    <3>1. q.at \in Inside /\ "serialize" \in Inside
      BY <2>2 DEF Execute, Inside
    <3>2. CASE Step(r, [q EXCEPT !.at = "serialize", !.sql = @ + 1])
      <4>0. q.sql + 1 \in Nat
        BY <1>1
      <4>1. [q EXCEPT !.at = "serialize", !.sql = @ + 1]
              = [q EXCEPT !.at = "serialize", !.status = q.status, !.scope = q.scope, !.sql = q.sql + 1]
        BY <1>1 DEF RequestType
      <4> QED
        BY <1>1, <3>1, <3>2, <4>0, <4>1, ZenonT(60)
    <3>3. ASSUME NEW status \in {"success", "error", "504"},
                 Step(r, [q EXCEPT !.at = "finish", !.status = status, !.sql = @ + 1])
          PROVE  \E scope \in BOOLEAN :
                   Step(r, [q EXCEPT !.at = "finish", !.status = status, !.scope = scope, !.sql = q.sql + 1])
      <4>1. [q EXCEPT !.at = "finish", !.status = status, !.sql = @ + 1]
              = [q EXCEPT !.at = "finish", !.status = status, !.scope = q.scope, !.sql = q.sql + 1]
        BY <1>1 DEF RequestType
      <4> QED
        BY <1>1, <3>3, <4>1
    <3>4. {"success", "error", "504"} \subseteq Statuses
      BY DEF Statuses
    <3>5. \/ Step(r, [q EXCEPT !.at = "serialize", !.sql = @ + 1])
          \/ \E status \in {"success", "error", "504"} :
               Step(r, [q EXCEPT !.at = "finish", !.status = status, !.sql = @ + 1])
      BY <2>2 DEF Execute
    <3>6. q.sql + 1 \in Nat
      BY <1>1
    <3> QED
      BY <3>1, <3>2, <3>3, <3>4, <3>5, <3>6, ZenonT(40)
  <2>3. CASE SerializedLast(r)
    <3>1. q.at \in Inside /\ "success" \in Statuses
          /\ Step(r, [q EXCEPT !.at = "finish", !.status = "success", !.scope = FALSE])
      BY <2>3 DEF SerializedLast, Inside, Statuses
    <3>2. [q EXCEPT !.at = "finish", !.status = "success", !.scope = FALSE]
            = [q EXCEPT !.at = "finish", !.status = "success", !.scope = FALSE, !.sql = q.sql]
      BY <1>1 DEF RequestType
    <3>3. Step(r, [q EXCEPT !.at = "finish", !.status = "success", !.scope = FALSE, !.sql = q.sql])
      BY <3>1, <3>2
    <3> QED
      BY <1>1, <3>1, <3>3
  <2> QED
    BY <2>1, <2>2, <2>3, ZenonT(40)
<1> DEFINE p == [q EXCEPT !.at = at, !.status = status, !.scope = scope, !.sql = m]
<1>3. at \in Labels /\ Step(r, p) /\ q.past /\ q.todo = <<>>
  <2>1. q.at \notin {"before", "after"}
    BY <1>2 DEF Inside
  <2> QED
    BY <1>1, <1>2, <2>1 DEF Labels, RequestOK
<1>4. /\ p \in RequestType /\ p.at = at /\ p.todo = q.todo /\ Same(p, q) /\ p.auth = q.auth /\ p.past = q.past
      /\ p.hook = q.hook /\ p.logs = q.logs
  BY <1>1, <1>2, <1>3 DEF RequestType, Same
<1> HIDE DEF p
<1>5. RequestOK(p)
  BY <1>1, <1>2, <1>3, <1>4, FinishOK, InsideOK
<1> QED
  BY <1>3, <1>4, <1>5, RequestFacts, StepInv DEF Same

\* The BEFORE phase takes its snapshot ...
LEMMA BeginBeforeInv ==
  ASSUME Inv, NEW r \in Requests, BeginBefore(r)
  PROVE  Inv'
<1> DEFINE q == req[r]
           todo == Snapshot("BEFORE", q.group)
           p == [q EXCEPT !.at = "before", !.todo = todo]
<1>1. q \in RequestType /\ RequestOK(q)
  BY RequestFacts
<1>2. q.at = "begin" /\ q.at \in Gated /\ Step(r, p) /\ "before" \in Labels
  BY DEF BeginBefore, Gated, Labels
<1>3. todo \in Seq(Definition) /\ InOrder(todo, "BEFORE") /\ Concerned(q, "BEFORE") \subseteq ToSet(todo)
  BY SnapshotCovers
<1> HIDE DEF todo
<1>4. /\ p \in RequestType /\ p.at = "before" /\ p.todo = todo /\ Same(p, q) /\ p.auth = q.auth /\ p.past = q.past
      /\ p.hook = q.hook /\ p.logs = q.logs /\ p.sql = q.sql
  BY <1>1, <1>2, <1>3 DEF RequestType, Same
<1> HIDE DEF p
<1>5. p.allowed = <<>> /\ p.allowed \o p.todo = todo
  <2>1. p.allowed = <<>>
    BY <1>1, <1>2, <1>4 DEF RequestOK, Same
  <2> QED
    BY <1>3, <1>4, <2>1, ConcatEmptySeq
<1>6. Concerned(p, "BEFORE") = Concerned(q, "BEFORE") /\ Concerned(p, "AFTER") = Concerned(q, "AFTER")
  BY <1>4 DEF Concerned, Same
<1>7. RequestOK(p)
  BY <1>1, <1>2, <1>3, <1>4, <1>5, <1>6 DEF RequestOK, Same, Untouched, Outside, Gated, Inside
<1> QED
  BY <1>2, <1>4, <1>7, RequestFacts, StepInv DEF Same

\* ... lets the request pass, one definition at a time ...
LEMMA PassBeforeInv ==
  ASSUME Inv, NEW r \in Requests, PassBefore(r)
  PROVE  Inv'
<1> DEFINE q == req[r]
           todo == Tail(q.todo)
           allowed == Append(q.allowed, Head(q.todo))
           p == [q EXCEPT !.todo = todo, !.allowed = allowed]
<1>1. q \in RequestType /\ RequestOK(q) /\ q.todo \in Seq(Definition) /\ q.allowed \in Seq(Definition)
  BY RequestFacts DEF RequestType
<1>2. q.at = "before" /\ q.todo # <<>> /\ Step(r, p)
  BY DEF PassBefore
<1>3. todo \in Seq(Definition) /\ allowed \in Seq(Definition) /\ allowed \o todo = q.allowed \o q.todo
  BY <1>1, <1>2, Advance, ZenonT(60)
<1> HIDE DEF todo, allowed
<1>4. /\ p \in RequestType /\ p.at = q.at /\ p.todo = todo /\ p.allowed = allowed /\ p.auth = q.auth /\ p.past = q.past
      /\ p.hook = q.hook /\ p.logs = q.logs /\ p.sql = q.sql /\ p.steady = q.steady /\ p.group = q.group
      /\ p.ran = q.ran /\ p.cut = q.cut
  BY <1>1, <1>3 DEF RequestType
<1> HIDE DEF p
<1>5. InOrder(allowed \o todo, "BEFORE") /\ Concerned(q, "BEFORE") \subseteq ToSet(allowed \o todo)
  BY <1>1, <1>2, <1>3 DEF RequestOK
<1>6. InOrder(allowed, "BEFORE")
  BY <1>3, <1>5, InOrderPrefix
<1>7. Concerned(p, "BEFORE") = Concerned(q, "BEFORE") /\ Concerned(p, "AFTER") = Concerned(q, "AFTER")
  BY <1>4 DEF Concerned
<1>8. p.at = "before" /\ p.at \notin Outside \cup Gated \cup Inside
  BY <1>2, <1>4 DEF Outside, Gated, Inside
<1>9. RequestOK(p)
  BY <1>1, <1>2, <1>4, <1>5, <1>6, <1>7, <1>8 DEF RequestOK, Untouched
<1> QED
  BY <1>2, <1>4, <1>9, RequestFacts, StepInv

\* ... and ends, with the hook installed.
LEMMA EndBeforeInv ==
  ASSUME Inv, NEW r \in Requests, EndBefore(r)
  PROVE  Inv'
<1> DEFINE q == req[r]
           p == [q EXCEPT !.at = "bind", !.hook = TRUE, !.past = TRUE]
<1>1. q \in RequestType /\ RequestOK(q) /\ q.allowed \in Seq(Definition)
  BY RequestFacts DEF RequestType
<1>2. q.at = "before" /\ q.todo = <<>> /\ Step(r, p) /\ "bind" \in Labels
  BY DEF EndBefore, Labels, Inside
<1>3. /\ p \in RequestType /\ p.at = "bind" /\ p.todo = <<>> /\ Same(p, q) /\ p.auth = q.auth /\ p.past
      /\ p.hook /\ p.logs = q.logs /\ p.sql = q.sql
  BY <1>1, <1>2 DEF RequestType, Same
<1> HIDE DEF p
<1>4. q.allowed \o q.todo = q.allowed
  BY <1>1, <1>2, ConcatEmptySeq
<1>5. Concerned(q, "BEFORE") \subseteq ToSet(q.allowed) /\ q.auth /\ Untouched(q)
  BY <1>1, <1>2, <1>4 DEF RequestOK
<1>6. Concerned(p, "BEFORE") = Concerned(q, "BEFORE") /\ Concerned(p, "AFTER") = Concerned(q, "AFTER")
  BY <1>3 DEF Concerned, Same
<1>7. p.at \in Inside /\ p.at \notin Outside \cup Gated
  BY <1>3 DEF Outside, Gated, Inside
<1>8. RequestOK(p)
  BY <1>1, <1>2, <1>3, <1>5, <1>6, <1>7 DEF RequestOK, Same, Untouched
<1> QED
  BY <1>2, <1>3, <1>8, RequestFacts, StepInv DEF Same

\* finish() takes the hook out and the AFTER phase its snapshot ...
LEMMA RunHookInv ==
  ASSUME Inv, NEW r \in Requests, RunHook(r)
  PROVE  Inv'
<1> DEFINE q == req[r]
           todo == Snapshot("AFTER", q.group)
           p == [q EXCEPT !.at = "after", !.hook = FALSE, !.todo = todo]
<1>1. q \in RequestType /\ RequestOK(q)
  BY RequestFacts
<1>2. q.at = "finish" /\ q.hook /\ Step(r, p) /\ "after" \in Labels
  BY DEF RunHook, Labels
<1>3. todo \in Seq(Definition) /\ InOrder(todo, "AFTER") /\ Concerned(q, "AFTER") \subseteq ToSet(todo)
  BY SnapshotCovers
<1> HIDE DEF todo
<1>4. /\ p \in RequestType /\ p.at = "after" /\ p.todo = todo /\ Same(p, q) /\ p.auth = q.auth /\ p.past = q.past
      /\ ~p.hook /\ p.logs = q.logs /\ p.sql = q.sql
  BY <1>1, <1>2, <1>3 DEF RequestType, Same
<1> HIDE DEF p
<1>5. p.ran = <<>> /\ p.ran \o p.todo = todo /\ p.past
  <2>1. p.ran = <<>> /\ p.past
    BY <1>1, <1>2, <1>4 DEF RequestOK, Same
  <2> QED
    BY <1>3, <1>4, <2>1, ConcatEmptySeq
<1>6. Concerned(p, "BEFORE") = Concerned(q, "BEFORE") /\ Concerned(p, "AFTER") = Concerned(q, "AFTER")
  BY <1>4 DEF Concerned, Same
<1>7. p.at \notin Outside \cup Gated \cup Inside
  BY <1>4 DEF Outside, Gated, Inside
<1>8. RequestOK(p)
  BY <1>1, <1>2, <1>3, <1>4, <1>5, <1>6, <1>7 DEF RequestOK, Same
<1> QED
  BY <1>2, <1>4, <1>8, RequestFacts, StepInv DEF Same

\* ... which runs one definition at a time, or is cut short by one.
LEMMA AfterStepInv ==
  ASSUME Inv, NEW r \in Requests, PassAfter(r) \/ BlockAfter(r)
  PROVE  Inv'
<1> DEFINE q == req[r]
           rest == Tail(q.todo)
           ran == Append(q.ran, Head(q.todo))
<1>1. q \in RequestType /\ RequestOK(q) /\ q.todo \in Seq(Definition) /\ q.ran \in Seq(Definition)
      /\ q.cut \in BOOLEAN /\ q.status \in Statuses
  BY RequestFacts DEF RequestType
<1>2. q.at = "after" /\ q.todo # <<>>
  BY DEF PassAfter, BlockAfter
<1>3. rest \in Seq(Definition) /\ ran \in Seq(Definition) /\ ran \o rest = q.ran \o q.todo
  <2>1. q.ran \in Seq(Definition) /\ q.todo \in Seq(Definition) /\ q.todo # <<>>
    BY <1>1, <1>2
  <2> HIDE DEF q
  <2> QED
    BY <2>1, Advance
<1>4. PICK todo \in Seq(Definition), cut \in BOOLEAN, status \in Statuses :
        /\ Step(r, [q EXCEPT !.todo = todo, !.ran = ran, !.cut = cut, !.status = status])
        /\ (todo = rest /\ cut = q.cut) \/ (todo = <<>> /\ cut)
  <2>1. CASE PassAfter(r)
    <3>1. Step(r, [q EXCEPT !.todo = rest, !.ran = ran])
      BY <2>1 DEF PassAfter
    <3> HIDE DEF rest, ran
    <3>2. [q EXCEPT !.todo = rest, !.ran = ran]
            = [q EXCEPT !.todo = rest, !.ran = ran, !.cut = q.cut, !.status = q.status]
      BY <1>1 DEF RequestType
    <3>3. Step(r, [q EXCEPT !.todo = rest, !.ran = ran, !.cut = q.cut, !.status = q.status])
      BY <3>1, <3>2
    <3> QED
      BY <1>1, <1>3, <3>3, ZenonT(40)
  <2>2. CASE BlockAfter(r)
    <3>1. Step(r, [q EXCEPT !.todo = <<>>, !.ran = ran, !.cut = TRUE, !.status = "error"])
      BY <2>2 DEF BlockAfter
    <3>2. <<>> \in Seq(Definition) /\ "error" \in Statuses
      BY DEF Statuses
    <3> HIDE DEF rest, ran
    <3> QED
      BY <3>1, <3>2
  <2> QED
    BY <2>1, <2>2, ZenonT(40)
<1> DEFINE p == [q EXCEPT !.todo = todo, !.ran = ran, !.cut = cut, !.status = status]
<1> HIDE DEF rest, ran
<1>5. /\ p \in RequestType /\ p.at = q.at /\ p.todo = todo /\ p.ran = ran /\ p.cut = cut /\ p.auth = q.auth
      /\ p.past = q.past /\ p.hook = q.hook /\ p.logs = q.logs /\ p.sql = q.sql /\ p.steady = q.steady
      /\ p.group = q.group /\ p.allowed = q.allowed /\ Step(r, p)
  BY <1>1, <1>3, <1>4 DEF RequestType
<1> HIDE DEF p
<1>6. InOrder(ran \o rest, "AFTER") /\ (q.cut \/ Concerned(q, "AFTER") \subseteq ToSet(ran \o rest))
      /\ q.past /\ ~q.hook
  BY <1>1, <1>2, <1>3 DEF RequestOK
<1>7. InOrder(ran, "AFTER")
  BY <1>3, <1>6, InOrderPrefix
<1>8. InOrder(ran \o todo, "AFTER") /\ (cut \/ Concerned(q, "AFTER") \subseteq ToSet(ran \o todo))
  <2>1. CASE todo = rest /\ cut = q.cut
    BY <1>6, <2>1
  <2>2. CASE todo = <<>> /\ cut
    <3>1. ran \o todo = ran
      BY <1>3, <2>2, ConcatEmptySeq
    <3> QED
      BY <1>7, <2>2, <3>1
  <2> QED
    BY <1>4, <2>1, <2>2
<1>9. Concerned(p, "BEFORE") = Concerned(q, "BEFORE") /\ Concerned(p, "AFTER") = Concerned(q, "AFTER")
  BY <1>5 DEF Concerned
<1>10. p.at = "after" /\ p.at \notin Outside \cup Gated \cup Inside
  BY <1>2, <1>5 DEF Outside, Gated, Inside
<1>11. RequestOK(p)
  BY <1>1, <1>2, <1>5, <1>6, <1>7, <1>8, <1>9, <1>10 DEF RequestOK
<1> QED
  BY <1>5, <1>11, RequestFacts, StepInv

LEMMA EndAfterInv ==
  ASSUME Inv, NEW r \in Requests, EndAfter(r)
  PROVE  Inv'
<1> DEFINE q == req[r]
           p == [q EXCEPT !.at = "finish"]
<1>1. q \in RequestType /\ RequestOK(q) /\ q.ran \in Seq(Definition)
  BY RequestFacts DEF RequestType
<1>2. q.at = "after" /\ q.todo = <<>> /\ Step(r, p) /\ "finish" \in Labels
  BY DEF EndAfter, Goto, Labels
<1>3. /\ p \in RequestType /\ p.at = "finish" /\ p.todo = <<>> /\ Same(p, q) /\ p.auth = q.auth /\ p.past = q.past
      /\ p.hook = q.hook /\ p.logs = q.logs /\ p.sql = q.sql
  BY <1>1, <1>2 DEF RequestType, Same
<1> HIDE DEF p
<1>4. q.ran \o q.todo = q.ran
  BY <1>1, <1>2, ConcatEmptySeq
<1>5. q.past /\ ~q.hook /\ (q.cut \/ Concerned(q, "AFTER") \subseteq ToSet(q.ran))
  BY <1>1, <1>2, <1>4 DEF RequestOK
<1>6. Concerned(p, "BEFORE") = Concerned(q, "BEFORE") /\ Concerned(p, "AFTER") = Concerned(q, "AFTER")
  BY <1>3 DEF Concerned, Same
<1>7. p.at \notin Outside \cup Gated \cup Inside
  BY <1>3 DEF Outside, Gated, Inside
<1>8. RequestOK(p)
  BY <1>1, <1>2, <1>3, <1>5, <1>6, <1>7 DEF RequestOK, Same
<1> QED
  BY <1>2, <1>3, <1>8, RequestFacts, StepInv DEF Same

LEMMA SealInv ==
  ASSUME Inv, NEW r \in Requests, Seal(r)
  PROVE  Inv'
<1> DEFINE q == req[r]
<1>1. q \in RequestType /\ RequestOK(q) /\ q.status \in Statuses /\ q.logs \in Nat
  BY RequestFacts DEF RequestType
<1>2. PICK status \in IF clock - q.t0 >= Budget THEN {"504"} ELSE {q.status, "507"} :
        Step(r, [q EXCEPT !.at = "done", !.status = status, !.logs = @ + 1])
  BY DEF Seal
<1> DEFINE n == q.logs + 1
           p == [q EXCEPT !.at = "done", !.status = status, !.logs = n]
<1>3. q.at = "finish" /\ ~q.hook /\ Step(r, p) /\ "done" \in Labels /\ status \in Statuses /\ n \in Nat
  BY <1>1, <1>2 DEF Seal, Labels, Statuses
<1>4. n = 1
  BY <1>1, <1>3 DEF RequestOK
<1> HIDE DEF n
<1>5. /\ p \in RequestType /\ p.at = "done" /\ p.todo = q.todo /\ Same(p, q) /\ p.auth = q.auth /\ p.past = q.past
      /\ p.hook = q.hook /\ p.logs = n /\ p.sql = q.sql
  BY <1>1, <1>3 DEF RequestType, Same
<1> HIDE DEF p
<1>6. Concerned(p, "BEFORE") = Concerned(q, "BEFORE") /\ Concerned(p, "AFTER") = Concerned(q, "AFTER")
  BY <1>5 DEF Concerned, Same
<1>7. p.at \notin Outside \cup Gated \cup Inside
  BY <1>5 DEF Outside, Gated, Inside
<1>8. RequestOK(p)
  BY <1>1, <1>3, <1>4, <1>5, <1>6, <1>7 DEF RequestOK, Same
<1> QED
  BY <1>3, <1>5, <1>8, RequestFacts, StepInv DEF Same

LEMMA LeaveInv ==
  ASSUME Inv, NEW r \in Requests, Leave(r)
  PROVE  Inv'
<1>1. Step(r, Idle) /\ Idle.steady = {}
  BY DEF Leave, Idle
<1> QED
  BY <1>1, IdleOK, StepInv

-----------------------------------------------------------------------------
(* Changes of the registry.                                                *)

\* The registry changes under the requests: what they hold of it is still there.
LEMMA RegistryStep ==
  ASSUME Inv, NEW name, Unsettle(name), RegistryOK', clock' = clock,
         \A d \in ToSet(middlewares) : d.name # name => d \in ToSet(middlewares')
  PROVE  Inv'
<1>1. ASSUME NEW r \in Requests
      PROVE  req'[r] \in RequestType /\ RequestOK(req'[r]) /\ req'[r].steady \subseteq ToSet(middlewares')
  <2> DEFINE T == {d \in req[r].steady : d.name # name}
  <2>1. req[r] \in RequestType /\ RequestOK(req[r]) /\ req[r].steady \subseteq ToSet(middlewares)
    BY RequestFacts
  <2>2. req'[r] = [req[r] EXCEPT !.steady = T]
    BY DEF Unsettle
  <2>3. T \in SUBSET req[r].steady
    OBVIOUS
  <2>4. RequestOK(req'[r])
    <3> HIDE DEF T
    <3> QED
      BY <2>1, <2>2, <2>3, ForgetOK
  <2>5. req'[r].steady = T
    BY <2>1, <2>2 DEF RequestType
  <2>6. T \subseteq ToSet(middlewares')
    BY <2>1
  <2> QED
    BY <2>4, <2>5, <2>6 DEF RequestOK
<1>2. req' \in [Requests -> RequestType]
  <2>1. req' = [r \in Requests |-> req'[r]]
    BY DEF Unsettle
  <2> QED
    BY <1>1, <2>1
<1> QED
  BY <1>1, <1>2 DEF Inv

LEMMA AddInv ==
  ASSUME Inv, NEW name \in Names, NEW phase \in {"BEFORE", "AFTER"}, NEW group \in Scopes,
         NEW or_replace \in BOOLEAN, Add(name, phase, group, or_replace)
  PROVE  Inv'
<1> DEFINE d(order) == [name |-> name, phase |-> phase, group |-> group, order |-> order]
<1>1. /\ middlewares \in Seq(Definition) /\ registered \in 0..MaxOrder /\ MaxOrder \in Nat
      /\ \A i \in 1..Len(middlewares) : middlewares[i] \in Definition
      /\ \A i \in 1..Len(middlewares) : middlewares[i].order \in 1..MaxOrder /\ middlewares[i].order <= registered
      /\ \A i, j \in 1..Len(middlewares) : i < j => middlewares[i].order < middlewares[j].order
  <2>1. middlewares \in Seq(Definition)
    BY DEF Inv, RegistryOK
  <2>2. \A i \in 1..Len(middlewares) : middlewares[i] \in Definition
    BY <2>1
  <2>3. \A i \in 1..Len(middlewares) : middlewares[i].order \in 1..MaxOrder
    BY <2>2 DEF Definition
  <2> QED
    BY <2>1, <2>2, <2>3, PipelineAssumption DEF Inv, RegistryOK
<1>2. Unsettle(name) /\ clock' = clock
  BY DEF Add
<1>3. \A order \in 1..MaxOrder : d(order) \in Definition /\ d(order).order = order
  BY DEF Definition
<1>4. CASE /\ registered < MaxOrder /\ registered' = registered + 1
           /\ middlewares' = Append(middlewares, d(registered'))
  <2> DEFINE new == d(registered')
             n == Len(middlewares)
  <2>1. registered' \in 1..MaxOrder /\ registered' = registered + 1 /\ registered \in Nat
    BY <1>1, <1>4
  <2>2. new \in Definition /\ new.order = registered'
    BY <1>3, <2>1
  <2> HIDE DEF new
  <2>3. middlewares' = Append(middlewares, new)
    BY <1>4 DEF new
  <2>4. /\ middlewares' \in Seq(Definition) /\ Len(middlewares') = n + 1 /\ n \in Nat
        /\ \A i \in 1..n : middlewares'[i] = middlewares[i]
        /\ middlewares'[n + 1] = new
    BY <1>1, <2>2, <2>3
  <2>5. RegistryOK'
    <3>1. \A i \in 1..Len(middlewares') : middlewares'[i].order <= registered'
      BY <1>1, <2>1, <2>2, <2>4
    <3>2. ASSUME NEW i \in 1..Len(middlewares'), NEW j \in 1..Len(middlewares'), i < j
          PROVE  middlewares'[i].order < middlewares'[j].order
      <4>1. i \in 1..n /\ (j \in 1..n \/ j = n + 1)
        BY <3>2, <2>4
      <4>2. CASE j \in 1..n
        BY <1>1, <2>4, <3>2, <4>1, <4>2
      <4>3. CASE j = n + 1
        BY <1>1, <2>1, <2>2, <2>4, <4>1, <4>3
      <4> QED
        BY <4>1, <4>2, <4>3
    <3> QED
      BY <2>1, <2>4, <3>1, <3>2, <1>1 DEF RegistryOK
  <2>6. \A x \in ToSet(middlewares) : x \in ToSet(middlewares')
    BY <1>1, <2>4 DEF ToSet
  <2> QED
    BY <1>2, <2>5, <2>6, RegistryStep
<1>5. CASE /\ \E i \in Position(name) : middlewares' = Replace(i, d(middlewares[i].order))
           /\ registered' = registered
  <2>1. PICK i \in Position(name) : middlewares' = Replace(i, d(middlewares[i].order))
    BY <1>5
  <2> DEFINE new == d(middlewares[i].order)
             n == Len(middlewares)
  <2>2. i \in 1..n /\ middlewares[i].name = name
    BY <1>1 DEF Position
  <2>3. new \in Definition /\ new.order = middlewares[i].order
    BY <1>1, <1>3, <2>2
  <2> HIDE DEF new
  <2>4. middlewares' = [middlewares EXCEPT ![i] = new]
    BY <2>1 DEF Replace, new
  <2>5. /\ middlewares' \in Seq(Definition) /\ Len(middlewares') = n
        /\ \A j \in 1..n : middlewares'[j] = IF j = i THEN new ELSE middlewares[j]
    BY <1>1, <2>2, <2>3, <2>4, ExceptSeq
  <2>6. \A j \in 1..n : middlewares'[j].order = middlewares[j].order
    BY <2>3, <2>5
  <2>7. RegistryOK'
    BY <1>1, <1>5, <2>5, <2>6 DEF RegistryOK
  <2>8. ASSUME NEW x \in ToSet(middlewares), x.name # name PROVE x \in ToSet(middlewares')
    <3>1. PICK j \in 1..n : x = middlewares[j]
      BY <1>1 DEF ToSet
    <3>2. j # i
      BY <2>2, <2>8, <3>1
    <3>3. middlewares'[j] = x /\ j \in DOMAIN middlewares'
      BY <2>5, <3>1, <3>2
    <3> QED
      BY <3>3 DEF ToSet
  <2> QED
    BY <1>2, <2>7, <2>8, RegistryStep
<1> QED
  BY <1>4, <1>5 DEF Add

\* erase(it): the elements but one, in their order.
LEMMA RemoveAtElements ==
  ASSUME NEW S, NEW s \in Seq(S), NEW i \in 1..Len(s)
  PROVE  /\ RemoveAt(s, i) \in Seq(S) /\ Len(RemoveAt(s, i)) = Len(s) - 1
         /\ \A k \in 1..(Len(s) - 1) : RemoveAt(s, i)[k] = IF k < i THEN s[k] ELSE s[k + 1]
<1> DEFINE n == Len(s)
           a == SubSeq(s, 1, i - 1)
           b == SubSeq(s, i + 1, n)
<1>1. n \in Nat /\ i \in Int /\ i >= 1 /\ i <= n /\ i - 1 \in Int /\ i + 1 \in Int /\ n \in Int
      /\ \A k \in 1..n : s[k] \in S
  OBVIOUS
<1>2. RemoveAt(s, i) = a \o b
  BY DEF RemoveAt
<1> HIDE DEF n
<1>3. /\ a \in Seq(S) /\ Len(a) = i - 1
      /\ \A k \in 1..(i - 1) : a[k] = s[k]
  <2> DEFINE m == i - 1
  <2>1. m \in Int /\ \A k \in 1..m : s[k] \in S
    BY <1>1
  <2>2. a = SubSeq(s, 1, m)
    OBVIOUS
  <2> HIDE DEF m, a
  <2>3. /\ a \in Seq(S) /\ Len(a) = IF 1 <= m THEN m - 1 + 1 ELSE 0
        /\ \A k \in 1..(m - 1 + 1) : a[k] = s[1 + k - 1]
    BY <2>1, <2>2, SubSeqProperties
  <2>4. m \in Nat /\ m - 1 + 1 = m
    BY <1>1, <2>1 DEF m
  <2>5. Len(a) = m /\ \A k \in 1..m : a[k] = s[k]
    <3>1. \A k \in 1..m : 1 + k - 1 = k
      BY <2>4
    <3> QED
      BY <2>3, <2>4, <3>1
  <2> QED
    BY <2>3, <2>5 DEF m
<1>4. /\ b \in Seq(S) /\ Len(b) = n - i
      /\ \A k \in 1..(n - i) : b[k] = s[i + k]
  <2> DEFINE m == i + 1
  <2>1. m \in Int /\ n \in Int /\ \A k \in m..n : s[k] \in S
    BY <1>1
  <2>2. b = SubSeq(s, m, n)
    OBVIOUS
  <2> HIDE DEF m, b
  <2>3. /\ b \in Seq(S) /\ Len(b) = IF m <= n THEN n - m + 1 ELSE 0
        /\ \A k \in 1..(n - m + 1) : b[k] = s[m + k - 1]
    BY <2>1, <2>2, SubSeqProperties
  <2>4. n - m + 1 = n - i /\ n - i \in Nat /\ (m <= n \/ n - i = 0)
    BY <1>1 DEF m
  <2>5. \A k \in 1..(n - i) : m + k - 1 = i + k
    BY <1>1 DEF m
  <2> QED
    BY <2>3, <2>4, <2>5
<1> HIDE DEF a, b
<1>5. /\ a \o b \in Seq(S) /\ Len(a \o b) = Len(a) + Len(b)
      /\ \A k \in 1..(Len(a) + Len(b)) : (a \o b)[k] = IF k <= Len(a) THEN a[k] ELSE b[k - Len(a)]
  BY <1>3, <1>4, ConcatProperties
<1>6. Len(a) + Len(b) = n - 1
  BY <1>1, <1>3, <1>4
<1>7. ASSUME NEW k \in 1..(n - 1) PROVE (a \o b)[k] = IF k < i THEN s[k] ELSE s[k + 1]
  <2>1. (a \o b)[k] = IF k <= i - 1 THEN a[k] ELSE b[k - (i - 1)]
    BY <1>3, <1>5, <1>6
  <2>2. CASE k < i
    <3>1. k <= i - 1 /\ k \in 1..(i - 1)
      BY <1>1, <2>2
    <3> QED
      BY <1>3, <2>1, <2>2, <3>1
  <2>3. CASE ~(k < i)
    <3>1. k - (i - 1) \in 1..(n - i) /\ i + (k - (i - 1)) = k + 1 /\ ~(k <= i - 1)
      BY <1>1, <2>3
    <3>2. b[k - (i - 1)] = s[i + (k - (i - 1))]
      BY <1>4, <3>1
    <3> QED
      BY <2>1, <2>3, <3>1, <3>2
  <2> QED
    BY <2>2, <2>3
<1> QED
  BY <1>2, <1>5, <1>6, <1>7 DEF n

LEMMA DropInv ==
  ASSUME Inv, NEW name \in Names, Drop(name)
  PROVE  Inv'
<1> DEFINE n == Len(middlewares)
<1>1. PICK i \in Position(name) : middlewares' = RemoveAt(middlewares, i)
  BY DEF Drop
<1>2. /\ middlewares \in Seq(Definition) /\ n \in Nat /\ i \in 1..n /\ middlewares[i].name = name
      /\ Unsettle(name) /\ registered' = registered /\ clock' = clock
  BY DEF Inv, RegistryOK, Position, Drop
<1>3. /\ middlewares' \in Seq(Definition) /\ Len(middlewares') = n - 1
      /\ \A k \in 1..(n - 1) : middlewares'[k] = IF k < i THEN middlewares[k] ELSE middlewares[k + 1]
  BY <1>1, <1>2, RemoveAtElements
<1>4. RegistryOK'
  <2>1. \A k \in 1..(n - 1) : middlewares'[k].order <= registered'
    BY <1>2, <1>3 DEF Inv, RegistryOK
  <2>2. \A k, l \in 1..(n - 1) : k < l => middlewares'[k].order < middlewares'[l].order
    <3> SUFFICES ASSUME NEW k \in 1..(n - 1), NEW l \in 1..(n - 1), k < l
                 PROVE  middlewares'[k].order < middlewares'[l].order
      OBVIOUS
    <3> DEFINE a == IF k < i THEN k ELSE k + 1
               b == IF l < i THEN l ELSE l + 1
    <3>1. a \in 1..n /\ b \in 1..n /\ a < b /\ middlewares'[k] = middlewares[a] /\ middlewares'[l] = middlewares[b]
      BY <1>2, <1>3
    <3> HIDE DEF a, b
    <3> QED
      BY <3>1 DEF Inv, RegistryOK
  <2> QED
    BY <1>2, <1>3, <2>1, <2>2 DEF Inv, RegistryOK
<1>5. ASSUME NEW x \in ToSet(middlewares), x.name # name PROVE x \in ToSet(middlewares')
  <2>1. PICK j \in 1..n : x = middlewares[j]
    BY <1>2 DEF ToSet
  <2>2. j # i
    BY <1>2, <1>5, <2>1
  <2> DEFINE k == IF j < i THEN j ELSE j - 1
  <2>3. k \in 1..(n - 1) /\ middlewares'[k] = x
    BY <1>2, <1>3, <2>1, <2>2
  <2>4. k \in DOMAIN middlewares'
    BY <1>2, <1>3, <2>3
  <2> QED
    BY <2>3, <2>4 DEF ToSet
<1> QED
  BY <1>2, <1>4, <1>5, RegistryStep

-----------------------------------------------------------------------------
LEMMA InitInv == Init => Inv
<1> SUFFICES ASSUME Init PROVE Inv
  OBVIOUS
<1>1. RegistryOK
  BY PipelineAssumption DEF Init, RegistryOK
<1>2. \A r \in Requests : req[r] = Idle
  BY DEF Init
<1>3. Idle.steady = {}
  BY DEF Idle
<1>4. req \in [Requests -> RequestType]
  BY IdleOK DEF Init, RequestOK
<1> QED
  BY <1>1, <1>2, <1>3, <1>4, IdleOK DEF Inv, Init

LEMMA NextInv == Inv /\ [Next]_vars => Inv'
<1> SUFFICES ASSUME Inv, [Next]_vars PROVE Inv'
  OBVIOUS
<1>1. CASE Registry
  BY <1>1, AddInv, DropInv DEF Registry
<1>2. ASSUME NEW r \in Requests, Handle(r) PROVE Inv'
  <2>1. CASE \E group \in Scopes : Receive(r, group)
    BY <2>1, ReceiveInv
  <2>2. CASE \/ ShuttingDown(r) \/ Builtin(r) \/ NoRoute(r) \/ StreamRefused(r) \/ RateLimited(r) \/ Refused(r)
             \/ PolicyDenied(r) \/ BlockBefore(r) \/ BindRefused(r) \/ Serialized(r)
    BY <2>2, AnsweredInv
  <2>3. CASE StreamOpened(r) \/ StreamClosed(r)
    BY <2>3, StreamInv
  <2>4. CASE (\E ok \in BOOLEAN : Authenticate(r, ok)) \/ Admitted(r) \/ PolicyApplied(r) \/ Open(r) \/ LookBefore(r)
    BY <2>4, GatesInv
  <2>5. CASE LookAfter(r)
    BY <2>5, GatesInv, NoMiddlewareInv
  <2>6. CASE Throw(r)
    BY <2>6, ThrowInv
  <2>7. CASE Bound(r) \/ (\E ok \in BOOLEAN : Execute(r, ok)) \/ SerializedLast(r)
    BY <2>7, BlockInv
  <2>8. CASE BeginBefore(r) \/ PassBefore(r) \/ EndBefore(r)
    BY <2>8, BeginBeforeInv, PassBeforeInv, EndBeforeInv
  <2>9. CASE RunHook(r) \/ PassAfter(r) \/ BlockAfter(r) \/ EndAfter(r)
    BY <2>9, RunHookInv, AfterStepInv, EndAfterInv
  <2>10. CASE Seal(r) \/ Leave(r)
    BY <2>10, SealInv, LeaveInv
  <2> QED
    BY <1>2, <2>1, <2>2, <2>3, <2>4, <2>5, <2>6, <2>7, <2>8, <2>9, <2>10 DEF Handle
<1>3. CASE Tick
  <2>1. clock' \in Nat /\ middlewares' = middlewares /\ registered' = registered /\ req' = req
    BY <1>3 DEF Tick, Inv
  <2> QED
    BY <2>1 DEF Inv, RegistryOK
<1>4. CASE UNCHANGED vars
  BY <1>4 DEF vars, Inv, RegistryOK
<1> QED
  BY <1>1, <1>2, <1>3, <1>4 DEF Next

\* Every reachable state of the registry and of the requests keeps Inv.
THEOREM PipelineInv == Spec => []Inv
<1> QED
  BY InitInv, NextInv, PTL DEF Spec

\* finish() and the stream's release callback: one access-log record per
\* request, made when its answer is settled.
THEOREM PipelineLogsOnce == Spec => []OneRecordPerRequest
<1>1. Inv => OneRecordPerRequest
  BY DEF Inv, RequestOK, OneRecordPerRequest
<1> QED
  BY <1>1, PipelineInv, PTL

\* HandleRequest and ExecuteQuackapiMiddleware(BEFORE): no route SQL without
\* authentication and without every BEFORE middleware that was in force all
\* the time, however the registry changes between its readings.
THEOREM PipelineGatesSql == Spec => []GatesBeforeSql
<1>1. Inv => GatesBeforeSql
  <2> SUFFICES ASSUME Inv, NEW r \in Requests, req[r].sql > 0
               PROVE  req[r].auth /\ Steady(r, "BEFORE") \subseteq ToSet(req[r].allowed)
    BY DEF GatesBeforeSql
  <2>1. RequestOK(req[r]) /\ req[r].past
    <3>1. RequestOK(req[r]) /\ req[r].sql # 0
      BY RequestFacts
    <3> QED
      BY <3>1 DEF RequestOK
  <2>2. Steady(r, "BEFORE") = Concerned(req[r], "BEFORE")
    BY DEF Steady, Concerned
  <2> QED
    BY <2>1, <2>2 DEF RequestOK
<1> QED
  BY <1>1, PipelineInv, PTL

\* finish() with after_middleware: on every exit path past the BEFORE phase each
\* AFTER middleware that was in force all the time runs, and runs once.
THEOREM PipelineAfterRuns == Spec => []AfterAlwaysRuns
<1>1. Inv => AfterAlwaysRuns
  <2> SUFFICES ASSUME Inv, NEW r \in Requests
               PROVE  /\ IsInjective(req[r].ran)
                      /\ (req[r].at = "done" /\ req[r].past /\ ~req[r].cut)
                           => Steady(r, "AFTER") \subseteq ToSet(req[r].ran)
    BY DEF AfterAlwaysRuns
  <2>1. RequestOK(req[r]) /\ req[r].ran \in Seq(Definition)
    BY RequestFacts DEF RequestType
  <2>2. Steady(r, "AFTER") = Concerned(req[r], "AFTER")
    BY DEF Steady, Concerned
  <2>3. IsInjective(req[r].ran)
    BY <2>1, InOrderInjective DEF RequestOK
  <2>4. req[r].at = "done" => ~req[r].hook
    BY <2>1 DEF RequestOK, Inside
  <2>5. (req[r].at = "done" /\ req[r].past /\ ~req[r].cut) => Concerned(req[r], "AFTER") \subseteq ToSet(req[r].ran)
    BY <2>1, <2>4 DEF RequestOK
  <2> QED
    BY <2>2, <2>3, <2>5
<1> QED
  BY <1>1, PipelineInv, PTL

\* Registry::Add and Registry::Snapshot: middleware runs in registration order,
\* global ones outermost, also when definitions are replaced meanwhile.
THEOREM PipelineRunsInOrder == Spec => []RunsInOrder
<1>1. Inv => RunsInOrder
  BY DEF Inv, RequestOK, RunsInOrder
<1> QED
  BY <1>1, PipelineInv, PTL

-----------------------------------------------------------------------------
(* Who answers: every server, every path, every method.                    *)

\* What a server may be asked, whatever is registered.
Questions ==
  [method : Verbs, size : Nat, path : [segments : Seq(Words), slashes : Nat],
   routes : Seq(RouteEntry), streams : Seq(StreamEntry), cors : BOOLEAN, health : BOOLEAN,
   mounts : SUBSET Seq(Words), limit : Nat, hard : Nat]

LEMMA AskedOf == \A s \in Servers, r \in RouteRequests : RouteQuestion(s, r) \in Questions
<1> DEFINE R == Seq(RouteEntry)
           S == Seq(StreamEntry)
<1> SUFFICES ASSUME NEW s \in Servers, NEW r \in RouteRequests PROVE RouteQuestion(s, r) \in Questions
  OBVIOUS
<1>1. /\ s \in [routes : R, streams : S, cors : BOOLEAN, health : BOOLEAN,
                mounts : SUBSET Seq(Words), limit : Nat, hard : Nat]
      /\ r \in [method : Verbs, size : Nat, path : [segments : Seq(Words), slashes : Nat]]
  BY DecisionsAssumption
<1> HIDE DEF R, S
<1> QED
  BY <1>1 DEF RouteQuestion, Questions, R, S

\* What the proofs use of a question.
Sound(q) ==
  /\ \A i \in DOMAIN q.routes : q.routes[i].method # "OPTIONS" /\ q.routes[i].method # "WS" /\ q.routes[i].limit \in Nat
  /\ \A i \in DOMAIN q.streams : q.streams[i].method \in {"GET", "WS"} /\ q.streams[i].limit = 0
  /\ \E n \in Nat : DOMAIN q.routes = 1..n
  /\ \E n \in Nat : DOMAIN q.streams = 1..n
  /\ q.size \in Nat /\ q.limit \in Nat /\ q.hard \in Nat /\ q.cors \in BOOLEAN

\* A path and the patterns registered for it are sequences of segments.
IsSequence(t) == Len(t) \in Nat /\ DOMAIN t = 1..Len(t)

Spelled(q) ==
  /\ IsSequence(q.path.segments)
  /\ \A i \in DOMAIN q.routes : IsSequence(q.routes[i].pattern.segments)
  /\ \A i \in DOMAIN q.streams : IsSequence(q.streams[i].pattern.segments)

\* Every question is of that form.
LEMMA QuestionsSound ==
  ASSUME NEW q \in Questions
  PROVE  Sound(q) /\ Spelled(q) /\ q.method # "WS"
<1> DEFINE R == RouteEntry
           S == StreamEntry
<1>1. /\ q.routes \in Seq(R) /\ q.streams \in Seq(S) /\ q.size \in Nat /\ q.limit \in Nat /\ q.hard \in Nat
      /\ q.cors \in BOOLEAN /\ q.method \in Verbs /\ q.path.segments \in Seq(Words)
  <2> HIDE DEF R, S
  <2> QED
    BY DEF Questions, R, S
<1>2. \A e \in R : e.method # "OPTIONS" /\ e.method # "WS" /\ e.limit \in Nat /\ e.pattern \in Patterns
  BY DEF Routing!Methods, RouteEntry
<1>3. \A e \in S : e.method \in {"GET", "WS"} /\ e.limit = 0 /\ e.pattern \in Patterns
  BY DEF StreamEntry
<1>4. \A p \in Patterns : IsSequence(p.segments)
  <2> DEFINE T == [capture : BOOLEAN, text : Words]
  <2>1. \A p \in Patterns : p.segments \in Seq(T)
    BY DEF Patterns
  <2> HIDE DEF T
  <2> QED
    BY <2>1 DEF IsSequence
<1>5. q.method # "WS"
  BY <1>1 DEF Verbs, Routing!Methods
<1> HIDE DEF R, S
<1>6. /\ IsSequence(q.routes) /\ IsSequence(q.streams) /\ IsSequence(q.path.segments)
      /\ \A i \in DOMAIN q.routes : q.routes[i] \in R
      /\ \A i \in DOMAIN q.streams : q.streams[i] \in S
  BY <1>1 DEF IsSequence
<1>7. Sound(q)
  BY <1>1, <1>2, <1>3, <1>6 DEF Sound, IsSequence
<1>8. Spelled(q)
  BY <1>2, <1>3, <1>4, <1>6 DEF Spelled
<1> QED
  BY <1>5, <1>7, <1>8

\* A set of positions has a first one.
LEMMA LeastIndex ==
  ASSUME NEW at, at \subseteq Nat, at # {}
  PROVE  \E n \in at : \A k \in at : n <= k
<1> DEFINE R == OpToRel(<, Nat)
<1>1. IsWellFoundedOn(R, Nat)
  BY NatLessThanWellFounded
<1>2. \A x, y \in Nat : <<y, x>> \notin R => x <= y
  BY DEF OpToRel
<1> HIDE DEF R
<1>3. PICK x \in at : \A y \in at : ~(<<y, x>> \in R)
  BY <1>1, WFMin
<1> QED
  BY <1>2, <1>3

\* And, in a registry, a last one.
LEMMA GreatestIndex ==
  ASSUME NEW m \in Nat, NEW at, at \subseteq 1..m, at # {}
  PROVE  \E n \in at : \A k \in at : k <= n
<1> DEFINE below == {m - k : k \in at}
<1>1. below \subseteq Nat /\ below # {}
  <2>1. \A k \in 1..m : m - k \in Nat
    OBVIOUS
  <2> QED
    BY <2>1
<1>2. PICK b \in below : \A d \in below : b <= d
  BY <1>1, LeastIndex
<1>3. PICK n \in at : b = m - n
  OBVIOUS
<1>4. ASSUME NEW k \in at PROVE k <= n
  <2>1. m - n <= m - k
    BY <1>2, <1>3
  <2> QED
    BY <2>1
<1> QED
  BY <1>4

\* A registry answers if one of its entries may; then it is one entry that answers.
LEMMA LastAnswers ==
  ASSUME NEW entries, NEW m \in Nat, NEW at, at \subseteq 1..m
  PROVE  /\ at = {} => Routing!LastOf(entries, at) = {}
         /\ at # {} => \E i \in at : Routing!LastOf(entries, at) = {entries[i]}
<1>1. ASSUME at # {} PROVE \E i \in at : Routing!LastOf(entries, at) = {entries[i]}
  <2>1. PICK n \in at : \A k \in at : k <= n
    BY <1>1, GreatestIndex
  <2>2. ASSUME NEW i \in at, \A k \in at : k <= i PROVE i = n
    <3>1. i <= n /\ n <= i /\ i \in Int /\ n \in Int
      BY <2>1, <2>2
    <3> QED
      BY <3>1
  <2>3. {i \in at : \A k \in at : k <= i} = {n}
    BY <2>1, <2>2
  <2> QED
    BY <2>1, <2>3 DEF Routing!LastOf
<1> QED
  BY <1>1 DEF Routing!LastOf

\* The same of FindStream, where the first match answers.
LEMMA FirstAnswers ==
  ASSUME NEW entries, NEW m \in Nat, NEW at, at \subseteq 1..m
  PROVE  /\ at = {} => Routing!FirstOf(entries, at) = {}
         /\ at # {} => \E i \in at : Routing!FirstOf(entries, at) = {entries[i]}
<1>1. ASSUME at # {} PROVE \E i \in at : Routing!FirstOf(entries, at) = {entries[i]}
  <2>1. PICK n \in at : \A k \in at : n <= k
    <3>1. at \subseteq Nat
      OBVIOUS
    <3> QED
      BY <1>1, <3>1, LeastIndex
  <2>2. ASSUME NEW i \in at, \A k \in at : i <= k PROVE i = n
    <3>1. i <= n /\ n <= i /\ i \in Int /\ n \in Int
      BY <2>1, <2>2
    <3> QED
      BY <3>1
  <2>3. {i \in at : \A k \in at : i <= k} = {n}
    BY <2>1, <2>2
  <2> QED
    BY <2>1, <2>3 DEF Routing!FirstOf
<1> QED
  BY <1>1 DEF Routing!FirstOf

-----------------------------------------------------------------------------

\* The routes and the streams that answer a method, by what is registered for the path.
ByRoute(q, method) == Routing!OfMethod(q.routes, q.path, method)
ByStream(q, method) == Routing!OfMethod(q.streams, q.path, method)

\* What is registered for a method of a path: streams answer GET alone, nothing OPTIONS.
LEMMA Registered ==
  ASSUME NEW q, Sound(q), NEW method, method # "WS"
  PROVE  /\ method \in Routing!MethodsForPath(q) <=> ByRoute(q, method) # {} \/ ByStream(q, method) # {}
         /\ ByStream(q, method) \subseteq Routing!ServerSent(q)
         /\ method # "GET" => ByStream(q, method) = {}
         /\ ByRoute(q, "OPTIONS") = {}
  BY DEF Sound, ByRoute, ByStream, Routing!OfMethod, Routing!Matching, Routing!MethodsForPath, Routing!ServerSent

\* FindRoute finds a route if there is one.
LEMMA RouteAnswers ==
  ASSUME NEW q, Sound(q), NEW method
  PROVE  /\ ByRoute(q, method) = {} => Routing!RouteFor(q, method) = {}
         /\ ByRoute(q, method) # {} => \E i \in DOMAIN q.routes : Routing!RouteFor(q, method) = {q.routes[i]}
<1>1. PICK m \in Nat : DOMAIN q.routes = 1..m
  BY DEF Sound
<1>2. ByRoute(q, method) \subseteq 1..m
  BY <1>1 DEF ByRoute, Routing!OfMethod, Routing!Matching
<1> QED
  BY <1>1, <1>2, LastAnswers DEF ByRoute, Routing!RouteFor

StreamFor(q, method) == Routing!FirstOf(q.streams, ByStream(q, method))

\* FindStream finds a stream if there is one.
LEMMA StreamAnswers ==
  ASSUME NEW q, Sound(q), NEW method
  PROVE  /\ ByStream(q, method) = {} => StreamFor(q, method) = {}
         /\ ByStream(q, method) # {} => \E i \in DOMAIN q.streams : StreamFor(q, method) = {q.streams[i]}
<1>1. PICK m \in Nat : DOMAIN q.streams = 1..m
  BY DEF Sound
<1>2. ByStream(q, method) \subseteq 1..m
  BY <1>1 DEF ByStream, Routing!OfMethod, Routing!Matching
<1> QED
  BY <1>1, <1>2, FirstAnswers DEF StreamFor

\* The two passes of HandleRequest, as one.
LEMMA ChosenIs ==
  ASSUME NEW q, Sound(q), q.method # "WS"
  PROVE  Routing!Chosen(q) =
           IF ByRoute(q, q.method) # {} THEN Routing!RouteFor(q, q.method)
           ELSE IF ByStream(q, q.method) # {} THEN StreamFor(q, q.method)
           ELSE IF q.method # "HEAD" THEN {}
           ELSE IF ByRoute(q, "GET") # {} THEN Routing!RouteFor(q, "GET")
           ELSE StreamFor(q, "GET")
<1>1. Routing!ServerSent(q) \intersect ByStream(q, q.method) = ByStream(q, q.method)
  BY Registered
<1>2. Routing!Explicit(q) = IF Routing!RouteFor(q, q.method) # {} THEN Routing!RouteFor(q, q.method)
                            ELSE StreamFor(q, q.method)
  BY <1>1 DEF Routing!Explicit, Routing!FirstNonEmpty, StreamFor, ByStream
<1>3. Routing!AutoHead(q) = IF q.method # "HEAD" THEN {}
                            ELSE IF Routing!RouteFor(q, "GET") # {} THEN Routing!RouteFor(q, "GET")
                            ELSE StreamFor(q, "GET")
  BY DEF Routing!AutoHead, Routing!FirstNonEmpty, StreamFor, ByStream
<1>4. \A m : Routing!RouteFor(q, m) # {} <=> ByRoute(q, m) # {}
  BY RouteAnswers
<1>5. \A m : StreamFor(q, m) # {} <=> ByStream(q, m) # {}
  BY StreamAnswers
<1> QED
  BY <1>2, <1>3, <1>4, <1>5 DEF Routing!Chosen, Routing!FirstNonEmpty

\* What is chosen is one entry, and there is one if the method is registered, or GET is
\* for a HEAD.
LEMMA ChosenFacts ==
  ASSUME NEW q, Sound(q), q.method # "WS"
  PROVE  /\ \/ Routing!Chosen(q) = {}
            \/ \E i \in DOMAIN q.routes : Routing!Chosen(q) = {q.routes[i]}
            \/ \E i \in DOMAIN q.streams : Routing!Chosen(q) = {q.streams[i]}
         /\ Routing!Chosen(q) # {} <=>
              \/ q.method \in Routing!MethodsForPath(q)
              \/ q.method = "HEAD" /\ "GET" \in Routing!MethodsForPath(q)
<1>1. \A m : m # "WS" => (m \in Routing!MethodsForPath(q) <=> ByRoute(q, m) # {} \/ ByStream(q, m) # {})
  BY Registered
<1>2. \A m : /\ ByRoute(q, m) = {} => Routing!RouteFor(q, m) = {}
             /\ ByRoute(q, m) # {} => \E i \in DOMAIN q.routes : Routing!RouteFor(q, m) = {q.routes[i]}
  BY RouteAnswers
<1>3. \A m : /\ ByStream(q, m) = {} => StreamFor(q, m) = {}
             /\ ByStream(q, m) # {} => \E i \in DOMAIN q.streams : StreamFor(q, m) = {q.streams[i]}
  BY StreamAnswers
<1>4. "GET" # "WS"
  OBVIOUS
<1>5. CASE ByRoute(q, q.method) # {}
  BY <1>1, <1>2, <1>5, ChosenIs
<1>6. CASE ByRoute(q, q.method) = {} /\ ByStream(q, q.method) # {}
  BY <1>1, <1>3, <1>6, ChosenIs
<1>7. CASE ByRoute(q, q.method) = {} /\ ByStream(q, q.method) = {} /\ q.method # "HEAD"
  BY <1>1, <1>7, ChosenIs
<1>8. CASE ByRoute(q, q.method) = {} /\ ByStream(q, q.method) = {} /\ q.method = "HEAD" /\ ByRoute(q, "GET") # {}
  BY <1>1, <1>2, <1>4, <1>8, ChosenIs
<1>9. CASE ByRoute(q, q.method) = {} /\ ByStream(q, q.method) = {} /\ q.method = "HEAD" /\ ByRoute(q, "GET") = {}
  BY <1>1, <1>3, <1>4, <1>9, ChosenIs
<1> QED
  BY <1>5, <1>6, <1>7, <1>8, <1>9
-----------------------------------------------------------------------------
\* Questions about one path of one server.
Alike(q, r) ==
  /\ r.path = q.path /\ r.routes = q.routes /\ r.streams = q.streams /\ r.cors = q.cors
  /\ r.health = q.health /\ r.mounts = q.mounts /\ r.limit = q.limit /\ r.hard = q.hard

\* What is found for a path depends on the method alone.
LEMMA AlikeFacts ==
  ASSUME NEW q, Sound(q), NEW r, Alike(q, r), r.size \in Nat
  PROVE  /\ Sound(r)
         /\ Routing!MethodsForPath(r) = Routing!MethodsForPath(q)
         /\ Routing!Allowed(r) = Routing!Allowed(q)
         /\ Routing!Redirects(r) = Routing!Redirects(q)
         /\ \A m : Routing!RouteFor(r, m) = Routing!RouteFor(q, m) /\ ByRoute(r, m) = ByRoute(q, m)
         /\ \A m : StreamFor(r, m) = StreamFor(q, m) /\ ByStream(r, m) = ByStream(q, m)
         /\ \A entries : Routing!BodyLimit(r, entries) = Routing!BodyLimit(q, entries)
<1>1. Sound(r)
  BY DEF Sound, Alike
<1>2. Routing!MethodsForPath(r) = Routing!MethodsForPath(q)
  BY DEF Alike, Routing!MethodsForPath, Routing!ServerSent
<1>3. Routing!Allowed(r) = Routing!Allowed(q)
  BY <1>2 DEF Alike, Routing!Allowed
<1>4. Routing!Redirects(r) = Routing!Redirects(q)
  BY <1>2 DEF Alike, Routing!Redirects
<1>5. \A m : Routing!RouteFor(r, m) = Routing!RouteFor(q, m) /\ ByRoute(r, m) = ByRoute(q, m)
  BY DEF Alike, Routing!RouteFor, ByRoute
<1>6. \A m : StreamFor(r, m) = StreamFor(q, m) /\ ByStream(r, m) = ByStream(q, m)
  BY DEF Alike, StreamFor, ByStream
<1>7. \A entries : Routing!BodyLimit(r, entries) = Routing!BodyLimit(q, entries)
  BY DEF Alike, Routing!BodyLimit
<1> QED
  BY <1>1, <1>2, <1>3, <1>4, <1>5, <1>6, <1>7

\* The limit on the body is a number, and the server's own for streams.
LEMMA LimitFacts ==
  ASSUME NEW q, Sound(q), NEW e, e.limit \in Nat
  PROVE  /\ Routing!BodyLimit(q, {}) \in Nat /\ Routing!BodyLimit(q, {e}) \in Nat
         /\ e.limit = 0 => Routing!BodyLimit(q, {e}) = Routing!BodyLimit(q, {})
<1>1. ASSUME NEW a \in Nat, NEW b \in Nat PROVE Routing!Min({a} \cup {b}) \in Nat
  <2>1. \E x \in {a} \cup {b} : \A y \in {a} \cup {b} : x <= y
    OBVIOUS
  <2> QED
    BY <2>1 DEF Routing!Min
<1>2. {x.limit : x \in {}} \ {0} = {} /\ {x.limit : x \in {e}} \ {0} = {e.limit} \ {0}
  OBVIOUS
<1>3. Routing!BodyLimit(q, {}) = Routing!Min({q.hard} \cup {q.limit})
  BY <1>2 DEF Routing!BodyLimit
<1>4. Routing!BodyLimit(q, {e}) = IF e.limit = 0 THEN Routing!Min({q.hard} \cup {q.limit})
                                  ELSE Routing!Min({q.hard} \cup {e.limit})
  <2>1. e.limit = 0 => {e.limit} \ {0} = {}
    OBVIOUS
  <2>2. e.limit # 0 => {e.limit} \ {0} = {e.limit} /\ {e.limit} \ {0} # {}
    OBVIOUS
  <2> QED
    BY <1>2, <2>1, <2>2 DEF Routing!BodyLimit
<1> QED
  BY <1>1, <1>3, <1>4 DEF Sound

\* The limit of what is chosen is a number.
LEMMA ChosenLimit ==
  ASSUME NEW q, Sound(q), q.method # "WS"
  PROVE  Routing!BodyLimit(q, Routing!Chosen(q)) \in Nat
<1>1. Routing!Chosen(q) = {} \/ \E e : e.limit \in Nat /\ Routing!Chosen(q) = {e}
  BY ChosenFacts DEF Sound
<1>2. Routing!BodyLimit(q, {}) \in Nat
  <2>1. [limit |-> 0].limit \in Nat
    OBVIOUS
  <2> QED
    BY <2>1, LimitFacts
<1> QED
  BY <1>1, <1>2, LimitFacts

\* The passes of HandleRequest after the built-in endpoints.
TooLarge(q) == q.size > Routing!BodyLimit(q, Routing!Chosen(q))

\* Which pass answers, and with what.
LEMMA SearchFacts ==
  ASSUME NEW q
  PROVE  LET s == Routing!Search(q)
             known == Routing!MethodsForPath(q) # {}
         IN /\ s.status = 413 <=> TooLarge(q)
            /\ ~TooLarge(q) /\ q.method = "OPTIONS" =>
                 s.status = IF ~known THEN 404 ELSE IF q.cors THEN 204 ELSE 405
            /\ ~TooLarge(q) /\ q.method # "OPTIONS" /\ Routing!Chosen(q) # {} =>
                 s.status = 200 /\ s.by \in Routing!Chosen(q)
            /\ ~TooLarge(q) /\ q.method # "OPTIONS" /\ Routing!Chosen(q) = {} =>
                 /\ s.by = Routing!Nobody
                 /\ s.status = IF Routing!OfMethod(q.streams, q.path, "WS") # {} THEN 426
                               ELSE IF Routing!Redirects(q) THEN 307
                               ELSE IF known THEN 405 ELSE 404
            /\ TooLarge(q) => s.by = Routing!Nobody
            /\ s.status = 307 => q.method # "OPTIONS" /\ s.location = Routing!Alternate(q.path)
            /\ s.allow # {} => known /\ s.allow = Routing!Allowed(q)
            /\ s.status = 405 => known /\ s.allow = Routing!Allowed(q)
<1> DEFINE s == Routing!Search(q)
           known == Routing!MethodsForPath(q) # {}
<1>1. CASE TooLarge(q)
  <2>1. s = Routing!Refusal(413)
    BY <1>1 DEF TooLarge, Routing!Search
  <2> QED
    BY <1>1, <2>1 DEF Routing!Refusal
<1>2. CASE ~TooLarge(q) /\ q.method = "OPTIONS"
  <2>1. s = Routing!Options(q)
    BY <1>2 DEF TooLarge, Routing!Search
  <2>2. s.status = IF ~known THEN 404 ELSE IF q.cors THEN 204 ELSE 405
    BY <2>1 DEF Routing!Options, Routing!Refusal, Routing!MethodNotAllowed
  <2>3. s.allow = IF known THEN Routing!Allowed(q) ELSE {}
    BY <2>1 DEF Routing!Options, Routing!Refusal, Routing!MethodNotAllowed
  <2> QED
    BY <1>2, <2>2, <2>3
<1>3. CASE ~TooLarge(q) /\ q.method # "OPTIONS" /\ Routing!Chosen(q) # {}
  <2>1. PICK e \in Routing!Chosen(q) : s = Routing!Handled(q, e)
    BY <1>3 DEF TooLarge, Routing!Search
  <2> QED
    BY <1>3, <2>1 DEF Routing!Handled
<1>4. CASE ~TooLarge(q) /\ q.method # "OPTIONS" /\ Routing!Chosen(q) = {}
  <2>1. s = IF Routing!OfMethod(q.streams, q.path, "WS") # {} THEN Routing!Refusal(426)
            ELSE IF Routing!Redirects(q)
                 THEN [status |-> 307, location |-> Routing!Alternate(q.path), allow |-> {}, by |-> Routing!Nobody]
            ELSE IF known THEN Routing!MethodNotAllowed(q) ELSE Routing!Refusal(404)
    BY <1>4 DEF TooLarge, Routing!Search
  <2> QED
    BY <1>4, <2>1 DEF Routing!Refusal, Routing!MethodNotAllowed
<1> QED
  BY <1>1, <1>2, <1>3, <1>4

\* A built-in endpoint gives one answer, and none of these statuses.
LEMMA BuiltInFacts ==
  ASSUME NEW q
  PROVE  /\ Routing!BuiltIn(q) = {} => Routing!HandleRequest(q) = Routing!Search(q)
         /\ Routing!BuiltIn(q) # {} => /\ Routing!HandleRequest(q) \in Routing!BuiltIn(q)
                                       /\ Routing!HandleRequest(q).status \in {200, 204, 405}
<1>1. \A a \in Routing!BuiltIn(q) : a.status \in {200, 204, 405}
  BY DEF Routing!BuiltIn, Routing!Answer, Routing!Preflight
<1> QED
  BY <1>1 DEF Routing!HandleRequest

-----------------------------------------------------------------------------
\* The limit httplib enforces is the one the search enforces: the route that answers is
\* the same in both, and a stream has no limit of its own.
LEMMA LimitsAgreeHolds ==
  ASSUME NEW q, Sound(q), q.method # "WS"
  PROVE  Routing!LimitsAgree(q, Routing!HandleRequest(q))
<1> DEFINE own == IF q.method = "HEAD"
                  THEN Routing!FirstNonEmpty(Routing!RouteFor(q, "HEAD"), Routing!RouteFor(q, "GET"))
                  ELSE Routing!RouteFor(q, q.method)
<1>1. \A m : Routing!RouteFor(q, m) # {} <=> ByRoute(q, m) # {}
  BY RouteAnswers
<1>2. \A m : StreamFor(q, m) # {} => \E e : StreamFor(q, m) = {e} /\ e.limit = 0
  BY StreamAnswers DEF Sound
<1>3. \A m : StreamFor(q, m) # {} <=> ByStream(q, m) # {}
  BY StreamAnswers
<1>4. q.method = "HEAD" => ByStream(q, q.method) = {}
  BY Registered
<1>5. Routing!Chosen(q) = own \/ (own = {} /\ \E e : Routing!Chosen(q) = {e} /\ e.limit = 0)
  <2>1. CASE q.method = "HEAD"
    BY <1>1, <1>2, <1>3, <1>4, <2>1, ChosenIs DEF Routing!FirstNonEmpty
  <2>2. CASE q.method # "HEAD"
    BY <1>1, <1>2, <1>3, <2>2, ChosenIs
  <2> QED
    BY <2>1, <2>2
<1>6. Routing!BodyLimit(q, Routing!Chosen(q)) = Routing!BodyLimit(q, own)
  <2>1. \A e : e.limit = 0 => Routing!BodyLimit(q, {e}) = Routing!BodyLimit(q, {})
    BY LimitFacts
  <2> HIDE DEF own
  <2> QED
    BY <1>5, <2>1
<1>7. Routing!SetRequestPayloadLimit(q) = Routing!BodyLimit(q, own)
  BY DEF Routing!SetRequestPayloadLimit
<1> HIDE DEF own
<1> QED
  BY <1>6, <1>7, BuiltInFacts, SearchFacts DEF TooLarge, Routing!LimitsAgree

\* The built-in endpoints with several answers: /graphql and the documentation.
Graphql(path) == Routing!WithOrWithoutSlash(path, <<"graphql">>)
Docs(path) == Routing!DocsEndpoint(path)

\* Their answers, and the methods they name.
LEMMA EndpointFacts ==
  ASSUME NEW q, q.cors \in BOOLEAN
  PROVE  /\ Graphql(q.path) => Routing!BuiltIn(q) # {}
         /\ Graphql(q.path) /\ (q.method = "POST" \/ (q.method = "OPTIONS" /\ q.cors)) =>
              \A a \in Routing!BuiltIn(q) : a.status \in {200, 204}
         /\ ~Graphql(q.path) /\ Docs(q.path) /\ (q.method \in {"GET", "HEAD"} \/ (q.method = "OPTIONS" /\ q.cors)) =>
              Routing!BuiltIn(q) # {} /\ \A a \in Routing!BuiltIn(q) : a.status \in {200, 204}
         /\ ~Graphql(q.path) /\ (q.method # "OPTIONS" \/ q.cors) =>
              \A a \in Routing!BuiltIn(q) : a.status \in {200, 204}
         /\ \A a \in Routing!BuiltIn(q) : \A m \in a.allow :
              \/ Graphql(q.path) /\ (m = "POST" \/ (m = "OPTIONS" /\ q.cors))
              \/ ~Graphql(q.path) /\ Docs(q.path) /\ (m \in {"GET", "HEAD"} \/ (m = "OPTIONS" /\ q.cors))
         /\ q.method \notin Routing!Methods /\ Routing!BuiltIn(q) # {} => Graphql(q.path)
<1> DEFINE alone == Routing!HealthEndpoint(q, q.path) \/ Routing!MountEndpoint(q, q.path)
           schema == Routing!WithOrWithoutSlash(q.path, <<"graphql", "schema">>)
<1>1. Routing!BuiltIn(q) =
        IF alone THEN {Routing!Answer(200, {})}
        ELSE IF Graphql(q.path) THEN
          {IF q.method = "POST" THEN Routing!Answer(200, {})
           ELSE IF q.method = "OPTIONS" THEN Routing!Preflight({"POST"}, q.cors)
           ELSE Routing!Answer(405, {"POST"})}
        ELSE IF Routing!Reading(q.method) /\ (schema \/ Docs(q.path)) THEN {Routing!Answer(200, {})}
        ELSE IF q.method = "OPTIONS" /\ Docs(q.path) THEN {Routing!Preflight({"GET", "HEAD"}, q.cors)}
        ELSE {}
  BY DEF Routing!BuiltIn, Graphql, Docs
<1>2. alone => q.method \in Routing!Methods
  BY DEF Routing!HealthEndpoint, Routing!MountEndpoint, Routing!Reading, Routing!Methods
<1>3. Routing!Reading(q.method) <=> q.method \in {"GET", "HEAD"}
  BY DEF Routing!Reading
<1> HIDE DEF alone, schema
<1>4. \A status, allow : Routing!Answer(status, allow).status = status /\ Routing!Answer(status, allow).allow = allow
  BY DEF Routing!Answer
<1>5. ASSUME NEW allow
      PROVE  /\ q.cors => Routing!Preflight(allow, q.cors).status = 204
             /\ \A n \in Routing!Preflight(allow, q.cors).allow : n \in allow \/ (n = "OPTIONS" /\ q.cors)
  <2>1. CASE q.cors
    <3>1. Routing!Preflight(allow, q.cors) = Routing!Answer(204, allow \cup {"OPTIONS"})
      BY <2>1 DEF Routing!Preflight
    <3>2. /\ Routing!Preflight(allow, q.cors).status = 204
          /\ Routing!Preflight(allow, q.cors).allow = allow \cup {"OPTIONS"}
      BY <1>4, <3>1
    <3> QED
      BY <2>1, <3>2
  <2>2. CASE ~q.cors
    <3>1. Routing!Preflight(allow, q.cors) = Routing!Answer(405, allow)
      BY <2>2 DEF Routing!Preflight
    <3> QED
      BY <1>4, <2>2, <3>1
  <2> QED
    BY <2>1, <2>2
<1>6. CASE alone
  BY <1>1, <1>2, <1>4, <1>6
<1>7. CASE ~alone /\ Graphql(q.path)
  <2>1. CASE q.method = "POST"
    BY <1>1, <1>4, <1>7, <2>1
  <2>2. CASE q.method = "OPTIONS"
    <3>1. Routing!BuiltIn(q) = {Routing!Preflight({"POST"}, q.cors)}
      BY <1>1, <1>7, <2>2
    <3>2. /\ Routing!BuiltIn(q) # {}
          /\ \A a \in Routing!BuiltIn(q) : /\ q.cors => a.status = 204
                                           /\ \A n \in a.allow : n \in {"POST"} \/ (n = "OPTIONS" /\ q.cors)
      BY <1>5, <3>1
    <3>3. \A a \in Routing!BuiltIn(q) : \A m \in a.allow : m = "POST" \/ (m = "OPTIONS" /\ q.cors)
      BY <3>2
    <3> QED
      BY <1>7, <2>2, <3>2, <3>3
  <2>3. CASE q.method \notin {"POST", "OPTIONS"}
    <3>1. Routing!BuiltIn(q) = {Routing!Answer(405, {"POST"})}
      BY <1>1, <1>7, <2>3
    <3>2. /\ Routing!BuiltIn(q) # {}
          /\ \A a \in Routing!BuiltIn(q) : \A n \in a.allow : n = "POST"
      BY <1>4, <3>1
    <3> QED
      BY <1>7, <2>3, <3>2
  <2> QED
    BY <2>1, <2>2, <2>3
<1>8. CASE ~alone /\ ~Graphql(q.path) /\ Routing!Reading(q.method)
  BY <1>1, <1>3, <1>4, <1>8 DEF Routing!Methods
<1>9. CASE ~alone /\ ~Graphql(q.path) /\ ~Routing!Reading(q.method)
  <2>1. CASE q.method = "OPTIONS" /\ Docs(q.path)
    <3>1. Routing!BuiltIn(q) = {Routing!Preflight({"GET", "HEAD"}, q.cors)}
      BY <1>1, <1>9, <2>1
    <3>2. /\ Routing!BuiltIn(q) # {}
          /\ \A a \in Routing!BuiltIn(q) : /\ q.cors => a.status = 204
                                           /\ \A n \in a.allow : n \in {"GET", "HEAD"} \/ (n = "OPTIONS" /\ q.cors)
      BY <1>5, <3>1
    <3> QED
      BY <1>9, <2>1, <3>2 DEF Routing!Methods
  <2>2. CASE ~(q.method = "OPTIONS" /\ Docs(q.path))
    <3>1. Routing!BuiltIn(q) = {}
      BY <1>1, <1>9, <2>2
    <3> QED
      BY <1>3, <1>9, <2>2, <3>1
  <2> QED
    BY <2>1, <2>2
<1> QED
  BY <1>6, <1>7, <1>8, <1>9

\* A method of the Allow header is served when it is tried.
LEMMA AllowIsHonestHolds ==
  ASSUME NEW q \in Questions
  PROVE  Routing!AllowIsHonest(q, Routing!HandleRequest(q))
<1>1. Sound(q) /\ q.method # "WS"
  BY QuestionsSound
<1> SUFFICES ASSUME NEW m \in Routing!HandleRequest(q).allow
             PROVE  Routing!Retry(q, m).status \notin {404, 405, 307}
  BY DEF Routing!AllowIsHonest
<1> DEFINE r == [q EXCEPT !.method = m, !.size = 0]
<1>2. Routing!Retry(q, m) = Routing!HandleRequest(r)
  BY DEF Routing!Retry
<1>3. r.method = m /\ r.size = 0 /\ Alike(q, r) /\ Routing!Retry(q, m) = Routing!HandleRequest(r)
  BY <1>2 DEF Questions, Alike
<1> HIDE DEF r
<1>4. Sound(r)
  BY <1>1, <1>3, AlikeFacts
\* A built-in endpoint names POST of /graphql, or GET and HEAD of the documentation.
<1>5. CASE Routing!BuiltIn(q) # {}
  <2>1. Routing!HandleRequest(q) \in Routing!BuiltIn(q)
    BY <1>5, BuiltInFacts
  <2>2. Routing!BuiltIn(r) # {} /\ \A a \in Routing!BuiltIn(r) : a.status \in {200, 204}
    BY <1>1, <1>3, <1>4, <2>1, EndpointFacts DEF Alike, Sound
  <2> QED
    BY <1>3, <2>2, BuiltInFacts
<1>6. CASE Routing!BuiltIn(q) = {}
  <2>1. Routing!HandleRequest(q) = Routing!Search(q)
    BY <1>6, BuiltInFacts
  <2>2. Routing!MethodsForPath(q) # {} /\ m \in Routing!Allowed(q)
    BY <2>1, SearchFacts
  <2>3. /\ m = "OPTIONS" => q.cors
        /\ m # "OPTIONS" => \/ m \in Routing!MethodsForPath(q)
                            \/ m = "HEAD" /\ "GET" \in Routing!MethodsForPath(q)
        /\ m # "WS"
    <3>1. "OPTIONS" \notin Routing!MethodsForPath(q) /\ "WS" \notin Routing!MethodsForPath(q)
      BY <1>1 DEF Sound, Routing!MethodsForPath, Routing!ServerSent, Routing!Matching, Routing!OfMethod
    <3> QED
      BY <2>2, <3>1 DEF Routing!Allowed
  <2>4. CASE Routing!BuiltIn(r) # {}
    <3>1. \A a \in Routing!BuiltIn(r) : a.status \in {200, 204}
      BY <1>1, <1>3, <1>4, <1>6, <2>3, EndpointFacts DEF Alike, Sound
    <3> QED
      BY <1>3, <2>4, <3>1, BuiltInFacts
  <2>5. CASE Routing!BuiltIn(r) = {}
    <3>1. Routing!HandleRequest(r) = Routing!Search(r)
      BY <2>5, BuiltInFacts
    <3>2. ~TooLarge(r)
      <4>1. Routing!BodyLimit(r, Routing!Chosen(r)) \in Nat
        BY <1>3, <1>4, <2>3, ChosenLimit
      <4> QED
        BY <1>3, <4>1 DEF TooLarge
    <3>3. Routing!MethodsForPath(r) = Routing!MethodsForPath(q) /\ r.cors = q.cors
      BY <1>1, <1>3, AlikeFacts DEF Alike
    <3>4. CASE m = "OPTIONS"
      BY <1>3, <2>2, <2>3, <3>1, <3>2, <3>3, <3>4, SearchFacts
    <3>5. CASE m # "OPTIONS"
      <4>1. Routing!Chosen(r) # {}
        BY <1>3, <1>4, <2>3, <3>3, <3>5, ChosenFacts
      <4> QED
        BY <1>3, <3>1, <3>2, <3>5, <4>1, SearchFacts
    <3> QED
      BY <1>3, <3>4, <3>5
  <2> QED
    BY <2>4, <2>5
<1> QED
  BY <1>5, <1>6

\* A method that is missing in it is refused.
LEMMA AllowIsCompleteHolds ==
  ASSUME NEW q \in Questions
  PROVE  Routing!AllowIsComplete(q, Routing!HandleRequest(q))
<1>1. Sound(q) /\ q.method # "WS"
  BY QuestionsSound
<1> SUFFICES ASSUME Routing!HandleRequest(q).status = 405,
                    \A method \in Routing!Methods : Routing!BuiltIn([q EXCEPT !.method = method]) = {},
                    NEW m \in Routing!Methods \ Routing!HandleRequest(q).allow
             PROVE  Routing!Retry(q, m).status \notin {200, 204}
  BY DEF Routing!AllowIsComplete
<1> DEFINE r == [q EXCEPT !.method = m, !.size = 0]
           t == [q EXCEPT !.method = m]
<1>2. r.method = m /\ r.size = 0 /\ Alike(q, r) /\ Routing!Retry(q, m) = Routing!HandleRequest(r)
  <2>1. Routing!Retry(q, m) = Routing!HandleRequest(r)
    BY DEF Routing!Retry
  <2> QED
    BY <2>1 DEF Questions, Alike
<1>3. t.method = m /\ Alike(q, t) /\ Routing!BuiltIn(t) = {}
  BY DEF Questions, Alike
<1> HIDE DEF r, t
<1>4. Routing!BuiltIn(r) = {} /\ ~Graphql(q.path)
  <2>1. Routing!BuiltIn(r) = Routing!BuiltIn(t)
    BY <1>2, <1>3 DEF Alike, Routing!BuiltIn, Routing!HealthEndpoint, Routing!MountEndpoint
  <2> QED
    BY <1>1, <1>3, <2>1, EndpointFacts DEF Alike, Sound
<1>5. Routing!BuiltIn(q) = {}
  <2>1. CASE q.method \in Routing!Methods
    <3>1. [q EXCEPT !.method = q.method] = q
      BY DEF Questions
    <3> QED
      BY <2>1, <3>1
  <2>2. CASE q.method \notin Routing!Methods
    BY <1>1, <1>4, <2>2, EndpointFacts DEF Sound
  <2> QED
    BY <2>1, <2>2
<1>6. Routing!HandleRequest(r) = Routing!Search(r) /\ Routing!HandleRequest(q) = Routing!Search(q)
  BY <1>4, <1>5, BuiltInFacts
<1>7. m \notin Routing!Allowed(q) /\ Routing!MethodsForPath(r) = Routing!MethodsForPath(q) /\ Sound(r) /\ r.cors = q.cors
  BY <1>1, <1>2, <1>6, SearchFacts, AlikeFacts DEF Alike
<1>8. /\ m \notin Routing!MethodsForPath(r) /\ (m = "HEAD" => "GET" \notin Routing!MethodsForPath(r))
      /\ (m = "OPTIONS" => ~r.cors) /\ m # "WS"
  BY <1>7 DEF Routing!Allowed, Routing!Methods
<1>9. Routing!Chosen(r) = {}
  BY <1>2, <1>7, <1>8, ChosenFacts
<1>10. CASE TooLarge(r)
  BY <1>2, <1>6, <1>10, SearchFacts
<1>11. CASE ~TooLarge(r) /\ m = "OPTIONS"
  BY <1>2, <1>6, <1>8, <1>11, SearchFacts
<1>12. CASE ~TooLarge(r) /\ m # "OPTIONS"
  BY <1>2, <1>6, <1>9, <1>12, SearchFacts
<1> QED
  BY <1>10, <1>11, <1>12

\* HEAD is answered by what answers GET: both passes end at the same entry.
LEMMA HeadMirrorsGetHolds ==
  ASSUME NEW q \in Questions
  PROVE  Routing!HeadMirrorsGet(q, Routing!HandleRequest(q))
<1>1. Sound(q) /\ q.method # "WS"
  BY QuestionsSound
<1> SUFFICES ASSUME q.method = "HEAD", Routing!RouteFor(q, "HEAD") = {}
             PROVE  LET get == Routing!HandleRequest([q EXCEPT !.method = "GET"])
                    IN  Routing!HandleRequest(q).status = get.status /\ Routing!HandleRequest(q).by = get.by
  <2>1. Routing!OfMethod(q.routes, q.path, "HEAD") = {} => Routing!RouteFor(q, "HEAD") = {}
    BY <1>1, RouteAnswers DEF ByRoute
  <2> QED
    BY <2>1 DEF Routing!HeadMirrorsGet
<1> DEFINE g == [q EXCEPT !.method = "GET"]
<1>2. g.method = "GET" /\ g.size = q.size /\ Alike(q, g)
  BY DEF Questions, Alike
<1> HIDE DEF g
<1>3. Sound(g) /\ (TooLarge(g) <=> TooLarge(q)) /\ Routing!Chosen(g) = Routing!Chosen(q)
  <2>1. q.size \in Nat
    BY <1>1 DEF Sound
  <2>2. /\ Sound(g)
        /\ \A m : Routing!RouteFor(g, m) = Routing!RouteFor(q, m) /\ ByRoute(g, m) = ByRoute(q, m)
        /\ \A m : StreamFor(g, m) = StreamFor(q, m) /\ ByStream(g, m) = ByStream(q, m)
        /\ \A entries : Routing!BodyLimit(g, entries) = Routing!BodyLimit(q, entries)
    BY <1>1, <1>2, <2>1, AlikeFacts
  <2>3. ByRoute(q, "HEAD") = {} /\ ByStream(q, "HEAD") = {}
    BY <1>1, RouteAnswers, Registered
  <2>4. ByStream(q, "GET") = {} => StreamFor(q, "GET") = {}
    BY <1>1, StreamAnswers
  <2>5. Routing!Chosen(q) = IF ByRoute(q, "GET") # {} THEN Routing!RouteFor(q, "GET") ELSE StreamFor(q, "GET")
    BY <1>1, <2>3, ChosenIs
  <2>6. Routing!Chosen(g) = IF ByRoute(q, "GET") # {} THEN Routing!RouteFor(q, "GET")
                            ELSE IF ByStream(q, "GET") # {} THEN StreamFor(q, "GET") ELSE {}
    BY <1>2, <2>2, ChosenIs
  <2>7. Routing!Chosen(g) = Routing!Chosen(q)
    BY <2>4, <2>5, <2>6
  <2> QED
    BY <1>2, <2>2, <2>7 DEF TooLarge
<1>4. Routing!BuiltIn(g) = Routing!BuiltIn(q)
  BY <1>2 DEF Alike, Routing!BuiltIn, Routing!HealthEndpoint, Routing!MountEndpoint, Routing!Reading
<1>5. CASE Routing!BuiltIn(q) # {}
  <2>1. Routing!HandleRequest(g) = Routing!HandleRequest(q)
    BY <1>4, <1>5 DEF Routing!HandleRequest
  <2> QED
    BY <2>1 DEF g
<1>6. CASE Routing!BuiltIn(q) = {}
  <2>1. Routing!HandleRequest(q) = Routing!Search(q) /\ Routing!HandleRequest(g) = Routing!Search(g)
    BY <1>4, <1>6, BuiltInFacts
  <2>2. Routing!Search(q).status = Routing!Search(g).status /\ Routing!Search(q).by = Routing!Search(g).by
    <3>1. /\ Routing!MethodsForPath(g) = Routing!MethodsForPath(q) /\ Routing!Redirects(g) = Routing!Redirects(q)
          /\ g.streams = q.streams /\ g.path = q.path
      <4>1. g.size \in Nat
        BY <1>1, <1>2 DEF Sound
      <4> QED
        BY <1>1, <1>2, <4>1, AlikeFacts DEF Alike
    <3>2. CASE TooLarge(q)
      BY <1>3, <3>2, SearchFacts
    <3>3. CASE ~TooLarge(q) /\ Routing!Chosen(q) = {}
      <4> DEFINE status == IF Routing!OfMethod(q.streams, q.path, "WS") # {} THEN 426
                           ELSE IF Routing!Redirects(q) THEN 307
                           ELSE IF Routing!MethodsForPath(q) # {} THEN 405 ELSE 404
      <4>1. Routing!Search(q).status = status /\ Routing!Search(q).by = Routing!Nobody
        BY <3>3, SearchFacts, SMTT(40)
      <4>2. ~TooLarge(g) /\ Routing!Chosen(g) = {} /\ g.method # "OPTIONS"
        BY <1>2, <1>3, <3>3
      <4>3. /\ Routing!Search(g).by = Routing!Nobody
            /\ Routing!Search(g).status = IF Routing!OfMethod(g.streams, g.path, "WS") # {} THEN 426
                                          ELSE IF Routing!Redirects(g) THEN 307
                                          ELSE IF Routing!MethodsForPath(g) # {} THEN 405 ELSE 404
        BY <4>2, SearchFacts, ZenonT(40)
      <4> QED
        BY <3>1, <4>1, <4>3
    <3>4. CASE ~TooLarge(q) /\ Routing!Chosen(q) # {}
      <4>1. \E e : Routing!Chosen(q) = {e}
        BY <1>1, <3>4, ChosenFacts
      <4>2. Routing!Search(q).status = 200 /\ Routing!Search(q).by \in Routing!Chosen(q)
        BY <3>4, SearchFacts
      <4>3. Routing!Search(g).status = 200 /\ Routing!Search(g).by \in Routing!Chosen(g)
        <5>1. ~TooLarge(g) /\ Routing!Chosen(g) # {} /\ g.method # "OPTIONS"
          BY <1>2, <1>3, <3>4
        <5> QED
          BY <5>1, SearchFacts
      <4> QED
        BY <1>3, <4>1, <4>2, <4>3
    <3> QED
      BY <3>2, <3>3, <3>4
  <2> QED
    BY <2>1, <2>2 DEF g
<1> QED
  BY <1>5, <1>6

\* A redirect leads to a path that somebody knows, and not back.
LEMMA RedirectArrivesHolds ==
  ASSUME NEW q \in Questions
  PROVE  Routing!RedirectArrives(q, Routing!HandleRequest(q))
<1>1. Sound(q) /\ q.method # "WS"
  BY QuestionsSound
<1> SUFFICES ASSUME Routing!HandleRequest(q).status = 307
             PROVE  Routing!HandleRequest([q EXCEPT !.path = Routing!HandleRequest(q).location]).status \notin {307, 404}
  BY DEF Routing!RedirectArrives
<1>2. Routing!HandleRequest(q) = Routing!Search(q)
  BY BuiltInFacts
<1>3. /\ q.method # "OPTIONS" /\ Routing!HandleRequest(q).location = Routing!Alternate(q.path)
      /\ Routing!Redirects(q)
  <2>1. ~TooLarge(q) /\ q.method # "OPTIONS" /\ Routing!Chosen(q) = {}
    BY <1>2, SearchFacts
  <2> QED
    BY <1>2, <2>1, SearchFacts
<1> DEFINE r == [q EXCEPT !.path = Routing!HandleRequest(q).location]
<1>4. /\ r.path = Routing!Alternate(q.path) /\ r.method = q.method /\ r.size = q.size /\ r.routes = q.routes
      /\ r.streams = q.streams /\ r.limit = q.limit /\ r.hard = q.hard /\ r.cors = q.cors
  BY <1>3 DEF Questions
<1>5. Routing!Matching(r.routes, r.path) # {} \/ Routing!Matching(r.streams, r.path) # {}
  BY <1>3, <1>4 DEF Routing!Redirects
<1> HIDE DEF r
<1>6. CASE Routing!BuiltIn(r) # {}
  BY <1>6, BuiltInFacts DEF r
<1>7. CASE Routing!BuiltIn(r) = {}
  <2>1. Routing!HandleRequest(r) = Routing!Search(r)
    BY <1>7, BuiltInFacts
  <2>2. CASE TooLarge(r)
    BY <2>1, <2>2, SearchFacts DEF r
  <2>3. CASE ~TooLarge(r) /\ Routing!Chosen(r) # {}
    <3>1. Routing!Search(r).status = 200
      BY <1>3, <1>4, <2>3, SearchFacts
    <3> QED
      BY <2>1, <3>1 DEF r
  <2>4. CASE ~TooLarge(r) /\ Routing!Chosen(r) = {}
    <3>1. Routing!OfMethod(r.streams, r.path, "WS") = {} => Routing!MethodsForPath(r) # {}
      <4>1. CASE Routing!Matching(r.routes, r.path) # {}
        <5>1. PICK i \in Routing!Matching(r.routes, r.path) : TRUE
          BY <4>1
        <5>2. r.routes[i].method \in Routing!MethodsForPath(r)
          BY DEF Routing!MethodsForPath
        <5> QED
          BY <5>2
      <4>2. CASE Routing!Matching(r.streams, r.path) # {} /\ Routing!OfMethod(r.streams, r.path, "WS") = {}
        <5>1. PICK i \in Routing!ServerSent(r) : TRUE
          BY <4>2 DEF Routing!ServerSent
        <5>2. r.streams[i].method \in Routing!MethodsForPath(r)
          BY DEF Routing!MethodsForPath
        <5> QED
          BY <5>2
      <4> QED
        BY <1>5, <4>1, <4>2
    <3>2. Routing!MethodsForPath(r) # {} => ~Routing!Redirects(r)
      BY DEF Routing!Redirects
    <3>3. Routing!Search(r).status \in {426, 405}
      BY <1>3, <1>4, <2>4, <3>1, <3>2, SearchFacts, ZenonT(40)
    <3> QED
      BY <2>1, <3>3 DEF r
  <2> QED
    BY <2>2, <2>3, <2>4
<1> QED
  BY <1>6, <1>7

\* The k-th position, of the position that is the k-th.
LEMMA NthRank ==
  ASSUME NEW I, IsFiniteSet(I), I \subseteq Nat, NEW i \in I
  PROVE  Nth(I, Rank(I, i)) = i
<1>1. ASSUME NEW j \in I, Rank(I, j) = Rank(I, i) PROVE j = i
  <2>1. i \in Nat /\ j \in Nat
    OBVIOUS
  <2>2. ~(Rank(I, i) < Rank(I, i))
    <3>1. Rank(I, i) \in 1..Cardinality(I) /\ Cardinality(I) \in Nat
      BY RankRange, FS_CardinalityType
    <3> QED
      BY <3>1
  <2>3. ~(i < j) /\ ~(j < i)
    BY <1>1, <2>2, RankMonotone
  <2> QED
    BY <2>1, <2>3
<1>2. Nth(I, Rank(I, i)) \in I /\ Rank(I, Nth(I, Rank(I, i))) = Rank(I, i)
  BY DEF Nth, Rank
<1> QED
  BY <1>1, <1>2

\* Whoever is chosen is registered for the path.
LEMMA ChosenMatches ==
  ASSUME NEW q, Spelled(q), NEW e \in Routing!Chosen(q)
  PROVE  Routing!MatchPattern(e.pattern, q.path) /\ IsSequence(e.pattern.segments)
<1>1. ASSUME NEW entries, NEW at, at \subseteq Routing!Matching(entries, q.path),
             e \in Routing!LastOf(entries, at) \/ e \in Routing!FirstOf(entries, at)
      PROVE  \E i \in DOMAIN entries : e = entries[i] /\ Routing!MatchPattern(e.pattern, q.path)
  BY <1>1 DEF Routing!LastOf, Routing!FirstOf, Routing!Matching
<1>2. \/ \E m : e \in Routing!LastOf(q.routes, Routing!OfMethod(q.routes, q.path, m))
      \/ \E at : at \subseteq Routing!Matching(q.streams, q.path) /\ e \in Routing!FirstOf(q.streams, at)
  <2>1. \A entries, m : Routing!OfMethod(entries, q.path, m) \subseteq Routing!Matching(entries, q.path)
    BY DEF Routing!OfMethod
  <2>2. \/ \E m : e \in Routing!RouteFor(q, m)
        \/ \E m, at : at \subseteq Routing!OfMethod(q.streams, q.path, m) /\ e \in Routing!FirstOf(q.streams, at)
    BY DEF Routing!Chosen, Routing!FirstNonEmpty, Routing!Explicit, Routing!AutoHead
  <2> QED
    BY <2>1, <2>2 DEF Routing!RouteFor
<1>3. \A m : Routing!OfMethod(q.routes, q.path, m) \subseteq Routing!Matching(q.routes, q.path)
  BY DEF Routing!OfMethod
<1>4. \/ \E i \in DOMAIN q.routes : e = q.routes[i] /\ Routing!MatchPattern(e.pattern, q.path)
      \/ \E i \in DOMAIN q.streams : e = q.streams[i] /\ Routing!MatchPattern(e.pattern, q.path)
  BY <1>1, <1>2, <1>3
<1> QED
  BY <1>4 DEF Spelled

\* RouteMatching counts and enumerates as this module does.
LEMMA SameCount == \A S : Routing!Cardinality(S) = Cardinality(S)
  BY DEF Routing!Cardinality, Cardinality

LEMMA CapturesRebuildPathHolds ==
  ASSUME NEW q, Spelled(q)
  PROVE  Routing!CapturesRebuildPath(q, Routing!HandleRequest(q))
<1> DEFINE reply == Routing!HandleRequest(q)
           e == CHOOSE x \in Routing!Chosen(q) : TRUE
           pattern == e.pattern.segments
           path == q.path.segments
           n == Len(pattern)
           I == {i \in 1..n : pattern[i].capture}
           holes(i) == Cardinality({j \in 1..i : pattern[j].capture})
           at(i) == [name |-> pattern[i].text, value |-> path[i]]
           named == [i \in DOMAIN path |-> at(i)]
<1>1. SUFFICES ASSUME reply.status = 200, Routing!BuiltIn(q) = {}
               PROVE  Routing!CapturesRebuildPath(q, reply)
  <2> HIDE DEF reply
  <2>1. ~(reply.status = 200 /\ Routing!BuiltIn(q) = {}) => Routing!CapturesRebuildPath(q, reply)
    BY SMTT(40) DEF Routing!CapturesRebuildPath
  <2> QED
    BY <2>1 DEF reply
<1>2. reply = Routing!Handled(q, e) /\ e \in Routing!Chosen(q)
  <2>1. reply = Routing!Search(q)
    BY <1>1, BuiltInFacts
  <2> HIDE DEF reply
  <2>2. ~TooLarge(q) /\ q.method # "OPTIONS" /\ Routing!Chosen(q) # {}
    <3>1. ~TooLarge(q)
      BY <1>1, <2>1, SearchFacts
    <3>2. q.method # "OPTIONS"
      BY <1>1, <2>1, <3>1, SearchFacts
    <3>3. Routing!Chosen(q) # {}
      BY <1>1, <2>1, <3>1, <3>2, SearchFacts
    <3> QED
      BY <3>1, <3>2, <3>3
  <2> QED
    BY <2>1, <2>2 DEF Routing!Search, TooLarge
<1>3. reply.by = e /\ reply.captures = Routing!Captures(e.pattern, q.path)
  BY <1>2 DEF Routing!Handled
<1>4. Routing!MatchPattern(e.pattern, q.path) /\ IsSequence(pattern) /\ IsSequence(path)
  BY <1>2, ChosenMatches DEF Spelled
<1> HIDE DEF reply, e
<1>5. /\ n \in Nat /\ DOMAIN pattern = 1..n /\ DOMAIN path = 1..n /\ Len(path) = n
      /\ \A i \in 1..n : pattern[i].capture \/ pattern[i].text = path[i]
  BY <1>4 DEF IsSequence, Routing!MatchPattern
<1>6. reply.captures = [k \in 1..Cardinality(I) |-> named[Nth(I, k)]]
  <2> HIDE DEF reply, e
  <2>1. {i \in DOMAIN path : pattern[i].capture} = I
    BY <1>5
  <2>2. reply.captures = Routing!Kept(named, {i \in DOMAIN path : pattern[i].capture})
    BY <1>3 DEF Routing!Captures
  <2>3. reply.captures = Routing!Kept(named, I)
    BY <2>1, <2>2
  <2> HIDE DEF named, I
  <2>4. ASSUME NEW k PROVE Routing!Nth(I, k) = Nth(I, k)
    BY SameCount DEF Routing!Nth, Nth
  <2>5. Routing!Kept(named, I) = [k \in 1..Cardinality(I) |-> named[Routing!Nth(I, k)]]
    BY SameCount DEF Routing!Kept
  <2>6. [k \in 1..Cardinality(I) |-> named[Routing!Nth(I, k)]] = [k \in 1..Cardinality(I) |-> named[Nth(I, k)]]
    BY <2>4
  <2> QED
    BY <2>3, <2>5, <2>6
<1>7. IsFiniteSet(I) /\ I \subseteq Nat /\ Cardinality(I) \in Nat
  <2>1. n \in Nat /\ I \subseteq 1..n
    BY <1>5
  <2> HIDE DEF n, I
  <2>2. IsFiniteSet(1..n)
    BY <2>1, FS_Interval
  <2>3. 1..n \subseteq Nat
    OBVIOUS
  <2> QED
    BY <2>1, <2>2, <2>3, FS_Subset, FS_CardinalityType
<1>8. holes(n) = Cardinality(I)
  OBVIOUS
<1>9. Len(reply.captures) = holes(n)
  <2> HIDE DEF I
  <2> DEFINE c == Cardinality(I)
             g == [k \in 1..c |-> named[Nth(I, k)]]
  <2>1. DOMAIN g = 1..c /\ c \in Nat
    BY <1>7
  <2> HIDE DEF c
  <2>2. Len(g) = c
    BY <2>1
  <2> QED
    BY <1>6, <1>8, <2>2 DEF c
<1>10. ASSUME NEW i \in 1..n, pattern[i].capture
       PROVE  reply.captures[holes(i)] = at(i)
  <2>1. i \in I
    BY <1>10
  <2>2. {j \in 1..i : pattern[j].capture} = {j \in I : j <= i}
    BY <1>5
  <2>3. holes(i) = Rank(I, i)
    BY <2>2 DEF Rank
  <2>4. Rank(I, i) \in 1..Cardinality(I) /\ Nth(I, Rank(I, i)) = i
    BY <1>7, <2>1, RankRange, NthRank
  <2>5. named[i] = at(i)
    BY <1>5
  <2> HIDE DEF I, holes, named, at
  <2> QED
    BY <1>6, <2>3, <2>4, <2>5
<1>11. /\ Len(path) = Len(pattern) /\ Len(reply.captures) = holes(Len(pattern))
       /\ \A i \in DOMAIN pattern : IF pattern[i].capture THEN reply.captures[holes(i)] = at(i) ELSE path[i] = pattern[i].text
  <2>1. Len(path) = Len(pattern) /\ Len(reply.captures) = holes(Len(pattern))
    BY <1>5, <1>9
  <2>2. ASSUME NEW i \in DOMAIN pattern
        PROVE  IF pattern[i].capture THEN reply.captures[holes(i)] = at(i) ELSE path[i] = pattern[i].text
    <3> HIDE DEF holes, at
    <3> QED
      BY <1>5, <1>10
  <2> QED
    BY <2>1, <2>2
<1>12. LET own == reply.by.pattern.segments
           gaps(i) == Cardinality({j \in 1..i : own[j].capture})
       IN  /\ Len(path) = Len(own) /\ Len(reply.captures) = gaps(Len(own))
           /\ \A i \in DOMAIN own :
                IF own[i].capture THEN reply.captures[gaps(i)] = [name |-> own[i].text, value |-> path[i]]
                ELSE path[i] = own[i].text
  BY <1>3, <1>11
<1> HIDE DEF reply
<1> QED
  BY <1>12, SameCount, ZenonT(40) DEF Routing!CapturesRebuildPath

\* HandleRequest's passes agree for every server: whatever is registered, for whatever
\* paths and patterns, the Allow header names what is served and nothing else, HEAD
\* mirrors GET, a redirect arrives, the limit put on a body before it is read is the
\* one the route that answers has, and the captures are the path's.
LEMMA AnswersAgree ==
  ASSUME NEW q \in Questions
  PROVE  Routing!Routed(q, Routing!HandleRequest(q))
<1> DEFINE reply == Routing!HandleRequest(q)
<1>1. Sound(q) /\ Spelled(q) /\ q.method # "WS"
  BY QuestionsSound
<1>2. /\ Routing!AllowIsHonest(q, reply) /\ Routing!AllowIsComplete(q, reply)
      /\ Routing!HeadMirrorsGet(q, reply)
      /\ Routing!RedirectArrives(q, reply)
  BY AllowIsHonestHolds, AllowIsCompleteHolds, HeadMirrorsGetHolds, RedirectArrivesHolds
<1>3. Routing!LimitsAgree(q, reply) /\ Routing!CapturesRebuildPath(q, reply)
  BY <1>1, LimitsAgreeHolds, CapturesRebuildPathHolds
<1> HIDE DEF reply
<1> QED
  BY <1>2, <1>3 DEF Routing!Routed, reply

-----------------------------------------------------------------------------
(* In which coding: every header, every response.                          *)

\* The weight of a coding is a number, whatever the header says.
LEMMA QualityIsNat == \A header, name : Wire!Quality(header, name) \in Nat
<1> SUFFICES ASSUME NEW header, NEW name PROVE Wire!Quality(header, name) \in Nat
  OBVIOUS
<1>1. \A weight : Wire!ParseEncodingQ(weight) \in Nat
  BY DEF Wire!ParseEncodingQ
<1>2. Wire!Stated(header, name) \subseteq Nat /\ Wire!Stated(header, "*") \subseteq Nat
  BY <1>1 DEF Wire!Stated
<1> DEFINE W == IF Wire!Stated(header, name) # {} THEN Wire!Stated(header, name)
                ELSE IF Wire!Stated(header, "*") # {} THEN Wire!Stated(header, "*") ELSE {0}
<1>3. W \subseteq Nat /\ W # {}
  BY <1>2
<1>4. Wire!Quality(header, name) = CHOOSE w \in W : TRUE
  BY DEF Wire!Quality
<1> HIDE DEF W
<1> QED
  BY <1>3, <1>4

\* Whatever the Accept-Encoding header says, a response is sent in the coding its client
\* weighs most among those the server may use, zstd first, and uncompressed only when
\* there is none, nothing is gained, or the response is not eligible
\* (NegotiateContentEncoding, MaybeCompressResponse).
LEMMA CodingAlwaysBest ==
  ASSUME NEW q, q.response.packed \in Int, q.response.size \in Int
  PROVE  Wire!CodingIsBest(q, Wire!MaybeCompressResponse(q.header, q.response, q.options))
<1> DEFINE mode == q.options.mode
           header == q.header
           wanted == {c \in {"zstd", "gzip"} : Wire!Available(mode, c) /\ Wire!Quality(header, c) > 0}
           coding == Wire!NegotiateContentEncoding(header, mode)
           reply == Wire!MaybeCompressResponse(header, q.response, q.options)
           zstd == IF Wire!Available(mode, "zstd") THEN Wire!Quality(header, "zstd") ELSE 0
           gzip == IF Wire!Available(mode, "gzip") THEN Wire!Quality(header, "gzip") ELSE 0
<1>1. Wire!Quality(header, "zstd") \in Nat /\ Wire!Quality(header, "gzip") \in Nat /\ zstd \in Nat /\ gzip \in Nat
  BY QualityIsNat
<1>2. coding = IF zstd > 0 /\ zstd >= gzip THEN "zstd" ELSE IF gzip > 0 THEN "gzip" ELSE "identity"
  BY DEF Wire!NegotiateContentEncoding
<1>3. /\ "zstd" \in wanted <=> zstd > 0
      /\ "gzip" \in wanted <=> gzip > 0
      /\ "zstd" \in wanted => zstd = Wire!Quality(header, "zstd")
      /\ "gzip" \in wanted => gzip = Wire!Quality(header, "gzip")
      /\ wanted \subseteq {"zstd", "gzip"}
  BY <1>1
<1>4. reply.coding = IF Wire!Eligible(q.response, q.options) /\ coding # "identity" /\ q.response.packed < q.response.size
                      THEN coding ELSE "identity"
  BY DEF Wire!MaybeCompressResponse
<1> HIDE DEF wanted, coding, reply, zstd, gzip
<1>5. coding = "identity" => wanted = {}
  BY <1>1, <1>2, <1>3
<1>6. coding # "identity" =>
        coding \in wanted /\ \A c \in wanted : Wire!Quality(header, c) <= Wire!Quality(header, coding)
  BY <1>1, <1>2, <1>3
<1>7. reply.coding = "identity" =>
        wanted = {} \/ q.response.packed >= q.response.size \/ ~Wire!Eligible(q.response, q.options)
  BY <1>4, <1>5
<1>8. reply.coding # "identity" =>
        reply.coding \in wanted /\ \A c \in wanted : Wire!Quality(header, c) <= Wire!Quality(header, reply.coding)
  BY <1>4, <1>6
<1> QED
  BY <1>7, <1>8 DEF wanted, reply, Wire!CodingIsBest

\* Two clients that get one response in different codings are told apart by every cache
\* between: both responses carry Vary (MaybeCompressResponse).
LEMMA CachesTellApart ==
  ASSUME NEW q
  PROVE  Wire!CacheSafe(q, Wire!MaybeCompressResponse(q.header, q.response, q.options))
<1>1. ASSUME NEW header
      PROVE  LET reply == Wire!MaybeCompressResponse(header, q.response, q.options)
             IN  /\ reply.vary = Wire!Eligible(q.response, q.options)
                 /\ reply.coding # "identity" => Wire!Eligible(q.response, q.options)
  BY DEF Wire!MaybeCompressResponse
<1>2. Wire!Eligible(q.response, q.options) \in BOOLEAN
  BY DEF Wire!Eligible
<1> QED
  BY <1>1, <1>2 DEF Wire!CacheSafe

-----------------------------------------------------------------------------
(* In which format: every header.  The header is read token after token;   *)
(* what was best before a token tells what is best after it.               *)

NoFormat == [seen |-> FALSE, q |-> -1, format |-> "json"]

\* The loop over the tokens does what its body says, token after token.
LEMMA FormatLoop ==
  ASSUME NEW header, Len(header) \in Nat
  PROVE  /\ Wire!BestFormat(header)[0] = NoFormat
         /\ \A n \in 1..Len(header) :
              Wire!BestFormat(header)[n] = Wire!Consider(Wire!BestFormat(header)[n - 1], header[n])
<1> DEFINE Runs(g, m) == g = [n \in 0..m |-> IF n = 0 THEN NoFormat ELSE Wire!Consider(g[n - 1], header[n])]
<1>1. \A m \in Nat : \E g : Runs(g, m)
  <2> DEFINE bad == {m \in Nat : ~ \E g : Runs(g, m)}
  <2> SUFFICES ASSUME bad # {} PROVE FALSE
    OBVIOUS
  <2>1. PICK m \in bad : \A k \in bad : m <= k
    BY LeastIndex
  <2>2. m # 0
    <3>1. Runs([n \in 0..0 |-> NoFormat], 0)
      OBVIOUS
    <3> QED
      BY <3>1
  <2>3. m - 1 \in Nat /\ m - 1 \notin bad
    BY <2>1, <2>2
  <2>4. PICK g : Runs(g, m - 1)
    BY <2>3
  <2> DEFINE h == [n \in 0..m |-> IF n = m THEN Wire!Consider(g[m - 1], header[m]) ELSE g[n]]
  <2>5. Runs(h, m)
    <3>1. \A n \in 0..(m - 1) : g[n] = IF n = 0 THEN NoFormat ELSE Wire!Consider(g[n - 1], header[n])
      BY <2>4
    <3>2. \A n \in 0..m : h[n] = IF n = 0 THEN NoFormat ELSE Wire!Consider(h[n - 1], header[n])
      BY <2>2, <2>3, <3>1
    <3> QED
      BY <3>2
  <2> QED
    BY <2>1, <2>5
<1>2. Wire!BestFormat(header) = CHOOSE g : Runs(g, Len(header))
  BY DEF Wire!BestFormat, NoFormat
<1>3. Runs(Wire!BestFormat(header), Len(header))
  BY <1>1, <1>2
<1> QED
  BY <1>3

Known(t) == Wire!MediaTypeToBodyFormat(t.name) # {} /\ Wire!ParseAcceptQ(t.weight) > 0
Plain(t) == Wire!MediaTypeToBodyFormat(t.name) = {"json"}

\* What the loop holds after n tokens: the greatest weight of a format that is known, and
\* the first format of that weight that is not JSON.
BestOf(header, n, b) ==
  LET weight(i) == Wire!ParseAcceptQ(header[i].weight)
      top(i) == Known(header[i]) /\ weight(i) = b.q
  IN  /\ b.seen \in BOOLEAN /\ b.q \in Int
      /\ \A i \in 1..n : Known(header[i]) => b.seen /\ weight(i) <= b.q
      /\ b.seen => \E i \in 1..n : top(i)
      /\ b.format = "json" => \A i \in 1..n : top(i) => Plain(header[i])
      /\ b.format # "json" =>
           b.seen /\ \E i \in 1..n : /\ top(i) /\ ~Plain(header[i]) /\ b.format = header[i].name
                                     /\ \A j \in 1..n : top(j) /\ ~Plain(header[j]) => i <= j

\* A media type stands for one format, its own or JSON.
LEMMA MediaTypes ==
  ASSUME NEW name
  PROVE  \/ Wire!MediaTypeToBodyFormat(name) = {} \/ Wire!MediaTypeToBodyFormat(name) = {"json"}
         \/ Wire!MediaTypeToBodyFormat(name) = {name} /\ name # "json"
BY DEF Wire!MediaTypeToBodyFormat

\* One more token.
LEMMA FormatStep ==
  ASSUME NEW header, NEW n \in Nat, n # 0, \A i \in 1..n : header[i].weight \in Int,
         NEW b, BestOf(header, n - 1, b)
  PROVE  BestOf(header, n, Wire!Consider(b, header[n]))
<1> DEFINE t == header[n]
           w == Wire!ParseAcceptQ(t.weight)
           media == Wire!MediaTypeToBodyFormat(t.name)
           weight(i) == Wire!ParseAcceptQ(header[i].weight)
           better(f) == \/ ~b.seen \/ w > b.q
                        \/ w = b.q /\ b.format = "json" /\ f # "json"
           formats == {f \in media : w > 0 /\ better(f)}
           c == Wire!Consider(b, t)
<1>1. \A i \in 1..n : weight(i) \in Int
  BY DEF Wire!ParseAcceptQ
<1>2. \A i \in 1..n : i \in 1..(n - 1) \/ i = n
  OBVIOUS
<1>3. \A i \in 1..(n - 1) : i \in 1..n /\ i < n
  OBVIOUS
<1>4. c = IF formats = {} THEN b ELSE [seen |-> TRUE, q |-> w, format |-> CHOOSE f \in formats : TRUE]
  BY DEF Wire!Consider
<1>5. Known(t) <=> media # {} /\ w > 0
  BY DEF Known
<1>6. media = {} \/ media = {"json"} \/ (media = {t.name} /\ t.name # "json")
  BY MediaTypes
<1>7. Plain(t) <=> media = {"json"}
  BY DEF Plain
<1>8. weight(n) = w /\ n \in 1..n /\ header[n] = t
  OBVIOUS
<1>9. /\ b.seen \in BOOLEAN /\ b.q \in Int
      /\ \A i \in 1..(n - 1) : Known(header[i]) => b.seen /\ weight(i) <= b.q
      /\ b.seen => \E i \in 1..(n - 1) : Known(header[i]) /\ weight(i) = b.q
      /\ b.format = "json" => \A i \in 1..(n - 1) : Known(header[i]) /\ weight(i) = b.q => Plain(header[i])
      /\ b.format # "json" =>
           b.seen /\ \E i \in 1..(n - 1) :
              /\ Known(header[i]) /\ weight(i) = b.q /\ ~Plain(header[i]) /\ b.format = header[i].name
              /\ \A j \in 1..(n - 1) : Known(header[j]) /\ weight(j) = b.q /\ ~Plain(header[j]) => i <= j
  BY DEF BestOf
<1> HIDE DEF t, w, media, weight, c
<1> SUFFICES
      /\ c.seen \in BOOLEAN /\ c.q \in Int
      /\ \A i \in 1..n : Known(header[i]) => c.seen /\ weight(i) <= c.q
      /\ c.seen => \E i \in 1..n : Known(header[i]) /\ weight(i) = c.q
      /\ c.format = "json" => \A i \in 1..n : Known(header[i]) /\ weight(i) = c.q => Plain(header[i])
      /\ c.format # "json" =>
           c.seen /\ \E i \in 1..n :
              /\ Known(header[i]) /\ weight(i) = c.q /\ ~Plain(header[i]) /\ c.format = header[i].name
              /\ \A j \in 1..n : Known(header[j]) /\ weight(j) = c.q /\ ~Plain(header[j]) => i <= j
  BY DEF BestOf, c, t, weight
<1>10. w \in Int
  BY <1>1, <1>8
\* The token changes nothing.
<1>11. CASE /\ c = b
            /\ Known(t) => b.seen /\ w <= b.q
            /\ Known(t) /\ w = b.q => b.format # "json" \/ Plain(t)
  <2>1. ASSUME NEW i \in 1..n, Known(header[i]) PROVE b.seen /\ weight(i) <= b.q
    <3>1. CASE i = n
      BY <1>8, <1>11, <2>1, <3>1
    <3>2. CASE i \in 1..(n - 1)
      BY <1>9, <2>1, <3>2
    <3> QED
      BY <1>2, <3>1, <3>2
  <2>2. b.seen => \E i \in 1..n : Known(header[i]) /\ weight(i) = b.q
    BY <1>3, <1>9
  <2>3. b.format = "json" => \A i \in 1..n : Known(header[i]) /\ weight(i) = b.q => Plain(header[i])
    BY <1>2, <1>8, <1>9, <1>11
  <2>4. ASSUME b.format # "json"
        PROVE  b.seen /\ \E i \in 1..n :
                  /\ Known(header[i]) /\ weight(i) = b.q /\ ~Plain(header[i]) /\ b.format = header[i].name
                  /\ \A j \in 1..n : Known(header[j]) /\ weight(j) = b.q /\ ~Plain(header[j]) => i <= j
    <3>1. PICK i \in 1..(n - 1) :
            /\ Known(header[i]) /\ weight(i) = b.q /\ ~Plain(header[i]) /\ b.format = header[i].name
            /\ \A j \in 1..(n - 1) : Known(header[j]) /\ weight(j) = b.q /\ ~Plain(header[j]) => i <= j
      BY <1>9, <2>4
    <3>2. i \in 1..n /\ i <= n
      OBVIOUS
    <3>3. \A j \in 1..n : Known(header[j]) /\ weight(j) = b.q /\ ~Plain(header[j]) => i <= j
      BY <1>2, <3>1, <3>2
    <3> QED
      BY <1>9, <2>4, <3>1, <3>2, <3>3
  <2>5. c = b /\ b.seen \in BOOLEAN /\ b.q \in Int
    BY <1>9, <1>11
  <2> QED
    BY <2>1, <2>2, <2>3, <2>4, <2>5
<1>12. CASE ~Known(t) \/ (b.seen /\ w < b.q)
  <2>1. c = b
    BY <1>4, <1>5, <1>9, <1>10, <1>12
  <2> QED
    BY <1>9, <1>10, <1>11, <1>12, <2>1
\* It counts more than all before.
<1>13. CASE Known(t) /\ (~b.seen \/ w > b.q)
  <2>1. formats = media /\ media # {}
    BY <1>5, <1>13
  <2>2. PICK f : media = {f} /\ (f = "json" <=> Plain(t)) /\ (f # "json" => f = t.name)
    BY <1>6, <1>7, <2>1
  <2>3. c.seen = TRUE /\ c.q = w /\ c.format = f
    BY <1>4, <2>1, <2>2
  <2>4. \A i \in 1..(n - 1) : Known(header[i]) => weight(i) < w
    BY <1>1, <1>3, <1>9, <1>10, <1>13
  <2>5. \A i \in 1..n : Known(header[i]) => weight(i) <= w /\ (weight(i) = w => i = n)
    BY <1>2, <1>8, <1>10, <2>4, <1>1, <1>3
  <2>6. n \in 1..n /\ Known(header[n]) /\ weight(n) = w
    BY <1>8, <1>13
  <2>7. f = "json" => \A i \in 1..n : Known(header[i]) /\ weight(i) = w => Plain(header[i])
    BY <1>8, <2>2, <2>5
  <2>8. f # "json" => /\ ~Plain(header[n]) /\ f = header[n].name
                      /\ \A j \in 1..n : Known(header[j]) /\ weight(j) = w /\ ~Plain(header[j]) => n <= j
    BY <1>8, <2>2, <2>5
  <2> QED
    BY <1>10, <2>3, <2>5, <2>6, <2>7, <2>8
\* It counts as much as the best.
<1>14. CASE Known(t) /\ b.seen /\ w = b.q
  <2>1. CASE b.format = "json" /\ ~Plain(t)
    <3>1. media = {t.name} /\ t.name # "json"
      BY <1>5, <1>6, <1>7, <1>14, <2>1
    <3>2. formats = {t.name}
      BY <1>5, <1>14, <2>1, <3>1
    <3>3. c.seen = TRUE /\ c.q = b.q /\ c.format = t.name
      BY <1>4, <1>14, <3>2
    <3>4. \A i \in 1..n : Known(header[i]) /\ weight(i) = b.q /\ ~Plain(header[i]) => i = n
      BY <1>2, <1>9, <2>1
    <3>5. \A i \in 1..n : Known(header[i]) => weight(i) <= b.q
      BY <1>2, <1>8, <1>9, <1>14
    <3>6. n \in 1..n /\ Known(header[n]) /\ weight(n) = b.q /\ ~Plain(header[n]) /\ header[n].name = t.name
      BY <1>8, <1>14, <2>1
    <3>7. \A j \in 1..n : Known(header[j]) /\ weight(j) = b.q /\ ~Plain(header[j]) => n <= j
      BY <3>4
    <3> QED
      BY <1>9, <3>1, <3>3, <3>5, <3>6, <3>7
  <2>2. CASE b.format # "json" \/ Plain(t)
    <3>1. formats = {}
      BY <1>6, <1>7, <1>9, <1>14, <2>2
    <3>2. c = b
      BY <1>4, <3>1
    <3> QED
      BY <1>9, <1>11, <1>14, <2>2, <3>2
  <2> QED
    BY <2>1, <2>2
<1> QED
  BY <1>9, <1>10, <1>11, <1>12, <1>13, <1>14

Tokens(header) == Len(header) \in Nat /\ DOMAIN header = 1..Len(header) /\ \A i \in DOMAIN header : header[i].weight \in Int

LEMMA HeaderTokens == ASSUME NEW header \in Header PROVE Tokens(header)
<1> DEFINE T == [name : Words, weight : Int]
<1>1. header \in Seq(T) /\ \A t \in T : t.weight \in Int
  BY DEF Header
<1> HIDE DEF T
<1>2. Len(header) \in Nat /\ DOMAIN header = 1..Len(header) /\ \A i \in DOMAIN header : header[i] \in T
  BY <1>1
<1> QED
  BY <1>1, <1>2 DEF Tokens

LEMMA FormatFound ==
  ASSUME NEW header, Tokens(header)
  PROVE  BestOf(header, Len(header), Wire!BestFormat(header)[Len(header)])
<1> DEFINE best == Wire!BestFormat(header)
           bad == {n \in Nat : n <= Len(header) /\ ~BestOf(header, n, best[n])}
<1>1. Len(header) \in Nat /\ \A i \in 1..Len(header) : header[i].weight \in Int
  BY DEF Tokens
<1>2. best[0] = NoFormat /\ \A n \in 1..Len(header) : best[n] = Wire!Consider(best[n - 1], header[n])
  BY <1>1, FormatLoop
<1> HIDE DEF best
<1> SUFFICES ASSUME bad # {} PROVE FALSE
  BY <1>1 DEF best
<1>3. PICK n \in bad : \A k \in bad : n <= k
  BY LeastIndex
<1>4. n # 0
  <2>1. BestOf(header, 0, NoFormat)
    <3>1. \A i : i \notin 1..0
      OBVIOUS
    <3>2. ~NoFormat.seen /\ NoFormat.seen \in BOOLEAN
      BY DEF NoFormat
    <3>3. NoFormat.q \in Int /\ NoFormat.format = "json"
      BY DEF NoFormat
    <3> QED
      BY <3>1, <3>2, <3>3 DEF BestOf
  <2> QED
    BY <1>2, <1>3, <2>1
<1>5. n - 1 \in Nat /\ n - 1 <= Len(header) /\ n - 1 \notin bad /\ n \in 1..Len(header) /\ n \in Nat
  BY <1>1, <1>3, <1>4
<1>6. BestOf(header, n - 1, best[n - 1])
  BY <1>5
<1>7. \A i \in 1..n : header[i].weight \in Int
  BY <1>1, <1>5
<1>8. BestOf(header, n, Wire!Consider(best[n - 1], header[n]))
  BY <1>4, <1>5, <1>6, <1>7, FormatStep
<1>9. BestOf(header, n, best[n])
  BY <1>2, <1>5, <1>8
<1> QED
  BY <1>3, <1>9

\* The format of the rows is the first of those the client weighs most that is not JSON.
LEMMA FormatBest ==
  ASSUME NEW q, Tokens(q.header)
  PROVE  Wire!FormatIsBest(q, Wire!ResolveBodyFormat(q.route, q.header))
<1> DEFINE header == q.header
           reply == Wire!ResolveBodyFormat(q.route, q.header)
           b == Wire!BestFormat(header)[Len(header)]
           weight(i) == Wire!ParseAcceptQ(header[i].weight)
           known == {i \in DOMAIN header : Wire!MediaTypeToBodyFormat(header[i].name) # {} /\ weight(i) > 0}
           top == {i \in known : \A j \in known : weight(j) <= weight(i)}
           other == {i \in top : Wire!MediaTypeToBodyFormat(header[i].name) # {"json"}}
<1>1. CASE q.route # "json"
  BY <1>1 DEF Wire!FormatIsBest, Wire!ResolveBodyFormat
<1>2. CASE q.route = "json"
  <2>1. reply = b.format
    BY <1>2 DEF Wire!ResolveBodyFormat
  <2>2. Len(header) \in Nat /\ DOMAIN header = 1..Len(header) /\ \A i \in DOMAIN header : weight(i) \in Int
    BY DEF Tokens, Wire!ParseAcceptQ
  <2>3. \A i : /\ i \in known <=> i \in 1..Len(header) /\ Known(header[i])
               /\ i \in other <=> i \in top /\ ~Plain(header[i])
    BY <2>2 DEF Known, Plain
  <2>4. BestOf(header, Len(header), b)
    BY FormatFound
  <2> HIDE DEF b, reply
  <2>5. /\ b.seen \in BOOLEAN /\ b.q \in Int
        /\ \A i \in known : b.seen /\ weight(i) <= b.q
        /\ b.seen => \E i \in known : weight(i) = b.q
    BY <2>3, <2>4 DEF BestOf
  <2>6. \A i \in known : i \in top <=> weight(i) = b.q
    <3>1. \A i \in known : weight(i) \in Int
      BY <2>2
    <3> HIDE DEF known, weight
    <3> QED
      BY <2>5, <3>1
  <2>7. CASE b.format = "json"
    <3>1. other = {}
      BY <2>3, <2>4, <2>6, <2>7 DEF BestOf
    <3> QED
      BY <1>2, <2>1, <2>7, <3>1 DEF Wire!FormatIsBest, reply
  <2>8. CASE b.format # "json"
    <3>1. PICK i \in 1..Len(header) :
            /\ Known(header[i]) /\ weight(i) = b.q /\ ~Plain(header[i]) /\ b.format = header[i].name
            /\ \A j \in 1..Len(header) : Known(header[j]) /\ weight(j) = b.q /\ ~Plain(header[j]) => i <= j
      BY <2>4, <2>8 DEF BestOf
    <3>2. i \in other
      BY <2>3, <2>6, <3>1
    <3>3. \A j \in other : i <= j
      BY <2>3, <2>6, <3>1
    <3>4. other # {} /\ \E k \in other : reply = header[k].name /\ \A j \in other : k <= j
      BY <2>1, <3>1, <3>2, <3>3
    <3> QED
      BY <1>2, <3>4 DEF Wire!FormatIsBest, reply
  <2> QED
    BY <2>7, <2>8
<1> QED
  BY <1>1, <1>2

-----------------------------------------------------------------------------
NoMatch == [closeness |-> -1, quality |-> 0]

\* The loop over the media ranges, token after token.
LEMMA MatchLoop ==
  ASSUME NEW header, Len(header) \in Nat
  PROVE  /\ Wire!BestMatch(header)[0] = NoMatch
         /\ \A n \in 1..Len(header) :
              Wire!BestMatch(header)[n] = Wire!Weigh(Wire!BestMatch(header)[n - 1], header[n])
<1> DEFINE Runs(g, m) == g = [n \in 0..m |-> IF n = 0 THEN NoMatch ELSE Wire!Weigh(g[n - 1], header[n])]
<1>1. \A m \in Nat : \E g : Runs(g, m)
  <2> DEFINE bad == {m \in Nat : ~ \E g : Runs(g, m)}
  <2> SUFFICES ASSUME bad # {} PROVE FALSE
    OBVIOUS
  <2>1. PICK m \in bad : \A k \in bad : m <= k
    BY LeastIndex
  <2>2. m # 0
    <3>1. Runs([n \in 0..0 |-> NoMatch], 0)
      OBVIOUS
    <3> QED
      BY <3>1
  <2>3. m - 1 \in Nat /\ m - 1 \notin bad
    BY <2>1, <2>2
  <2>4. PICK g : Runs(g, m - 1)
    BY <2>3
  <2> DEFINE h == [n \in 0..m |-> IF n = m THEN Wire!Weigh(g[m - 1], header[m]) ELSE g[n]]
  <2>5. Runs(h, m)
    <3>1. \A n \in 0..(m - 1) : g[n] = IF n = 0 THEN NoMatch ELSE Wire!Weigh(g[n - 1], header[n])
      BY <2>4
    <3>2. \A n \in 0..m : h[n] = IF n = 0 THEN NoMatch ELSE Wire!Weigh(h[n - 1], header[n])
      BY <2>2, <2>3, <3>1
    <3> QED
      BY <3>2
  <2> QED
    BY <2>1, <2>5
<1>2. Wire!BestMatch(header) = CHOOSE g : Runs(g, Len(header))
  BY DEF Wire!BestMatch, NoMatch
<1>3. Runs(Wire!BestMatch(header), Len(header))
  BY <1>1, <1>2
<1> QED
  BY <1>3

\* What that loop holds after n tokens: the closest range, and the greatest weight of
\* those as close.
MatchOf(header, n, b) ==
  LET close(i) == Wire!Closeness(header[i].name)
      weight(i) == Wire!ParseEncodingQ(header[i].weight)
  IN  /\ b.closeness \in Int /\ b.quality \in Nat
      /\ b.closeness >= -1
      /\ b.closeness = -1 => b.quality = 0
      /\ \A i \in 1..n : close(i) <= b.closeness /\ (close(i) = b.closeness /\ b.closeness >= 0 => weight(i) <= b.quality)
      /\ b.closeness >= 0 => \E i \in 1..n : close(i) = b.closeness /\ weight(i) = b.quality

\* One more range.
LEMMA MatchStep ==
  ASSUME NEW header, NEW n \in Nat, n # 0, NEW b, MatchOf(header, n - 1, b)
  PROVE  MatchOf(header, n, Wire!Weigh(b, header[n]))
<1> DEFINE close(i) == Wire!Closeness(header[i].name)
           weight(i) == Wire!ParseEncodingQ(header[i].weight)
           c == Wire!Weigh(b, header[n])
           most == Wire!Max({b.quality, weight(n)})
<1>1. \A i : close(i) \in {-1, 0, 1, 2} /\ weight(i) \in Nat
  BY DEF Wire!Closeness, Wire!ParseEncodingQ
<1>2. \A i \in 1..n : i \in 1..(n - 1) \/ i = n
  OBVIOUS
<1>3. n \in 1..n /\ \A i \in 1..(n - 1) : i \in 1..n
  OBVIOUS
<1>4. c = IF close(n) < 0 \/ close(n) < b.closeness THEN b
          ELSE [closeness |-> close(n),
                quality |-> IF close(n) > b.closeness THEN weight(n) ELSE most]
  BY DEF Wire!Weigh
<1>5. /\ b.closeness \in Int /\ b.quality \in Nat
      /\ b.closeness >= -1
      /\ b.closeness = -1 => b.quality = 0
      /\ \A i \in 1..(n - 1) : /\ close(i) <= b.closeness
                               /\ close(i) = b.closeness /\ b.closeness >= 0 => weight(i) <= b.quality
      /\ b.closeness >= 0 => \E i \in 1..(n - 1) : close(i) = b.closeness /\ weight(i) = b.quality
  BY DEF MatchOf
<1>6. most \in {b.quality, weight(n)} /\ most >= b.quality /\ most >= weight(n)
  <2>1. \A x, y \in Nat : LET m == Wire!Max({x, y}) IN m \in {x, y} /\ m >= x /\ m >= y
    <3> SUFFICES ASSUME NEW x \in Nat, NEW y \in Nat
                 PROVE  LET m == Wire!Max({x, y}) IN m \in {x, y} /\ m >= x /\ m >= y
      OBVIOUS
    <3>1. \E m \in {x, y} : \A k \in {x, y} : m >= k
      OBVIOUS
    <3> QED
      BY <3>1 DEF Wire!Max
  <2>2. b.quality \in Nat /\ weight(n) \in Nat
    BY <1>1, <1>5
  <2> HIDE DEF weight
  <2> QED
    BY <2>1, <2>2
<1> HIDE DEF close, weight, c, most
<1> SUFFICES
      /\ c.closeness \in Int /\ c.quality \in Nat
      /\ c.closeness >= -1
      /\ c.closeness = -1 => c.quality = 0
      /\ \A i \in 1..n : /\ close(i) <= c.closeness
                         /\ close(i) = c.closeness /\ c.closeness >= 0 => weight(i) <= c.quality
      /\ c.closeness >= 0 => \E i \in 1..n : close(i) = c.closeness /\ weight(i) = c.quality
  BY DEF MatchOf, close, weight, c
<1>7. close(n) \in Int /\ weight(n) \in Nat
  BY <1>1
<1>8. CASE close(n) < 0 \/ close(n) < b.closeness
  <2>1. c = b
    BY <1>4, <1>8
  <2>2. \A i \in 1..n : /\ close(i) <= b.closeness
                        /\ close(i) = b.closeness /\ b.closeness >= 0 => weight(i) <= b.quality
    BY <1>1, <1>2, <1>5, <1>8
  <2>3. b.closeness >= 0 => \E i \in 1..n : close(i) = b.closeness /\ weight(i) = b.quality
    BY <1>3, <1>5
  <2> QED
    BY <1>5, <2>1, <2>2, <2>3
<1>9. CASE close(n) >= 0 /\ close(n) > b.closeness
  <2>1. c.closeness = close(n) /\ c.quality = weight(n)
    BY <1>4, <1>5, <1>7, <1>9
  <2>2. \A i \in 1..n : close(i) <= close(n) /\ (close(i) = close(n) => i = n)
    BY <1>1, <1>2, <1>5, <1>9
  <2> QED
    BY <1>3, <1>7, <1>9, <2>1, <2>2
<1>10. CASE close(n) >= 0 /\ close(n) = b.closeness
  <2>1. c.closeness = b.closeness /\ c.quality = most
    BY <1>4, <1>5, <1>7, <1>10
  <2>2. most \in Nat
    BY <1>5, <1>6, <1>7
  <2>3. \A i \in 1..n : close(i) <= b.closeness /\ (close(i) = b.closeness => weight(i) <= most)
    BY <1>1, <1>2, <1>5, <1>6, <1>10, <2>2
  <2>4. \E i \in 1..n : close(i) = b.closeness /\ weight(i) = most
    BY <1>3, <1>5, <1>6, <1>10
  <2> QED
    BY <1>5, <1>10, <2>1, <2>2, <2>3, <2>4
<1> QED
  BY <1>5, <1>7, <1>8, <1>9, <1>10

LEMMA MatchFound ==
  ASSUME NEW header, Len(header) \in Nat
  PROVE  MatchOf(header, Len(header), Wire!BestMatch(header)[Len(header)])
<1> DEFINE best == Wire!BestMatch(header)
           bad == {n \in Nat : n <= Len(header) /\ ~MatchOf(header, n, best[n])}
<1>1. best[0] = NoMatch /\ \A n \in 1..Len(header) : best[n] = Wire!Weigh(best[n - 1], header[n])
  BY MatchLoop
<1> HIDE DEF best
<1> SUFFICES ASSUME bad # {} PROVE FALSE
  BY DEF best
<1>2. PICK n \in bad : \A k \in bad : n <= k
  BY LeastIndex
<1>3. n # 0
  <2>1. NoMatch.closeness = -1 /\ NoMatch.quality = 0 /\ 1..0 = {}
    BY DEF NoMatch
  <2>2. MatchOf(header, 0, NoMatch)
    BY <2>1 DEF MatchOf
  <2> QED
    BY <1>1, <1>2, <2>2
<1>4. n - 1 \in Nat /\ n - 1 <= Len(header) /\ n - 1 \notin bad /\ n \in 1..Len(header) /\ n \in Nat
  BY <1>2, <1>3
<1>5. MatchOf(header, n - 1, best[n - 1])
  BY <1>4
<1>6. MatchOf(header, n, Wire!Weigh(best[n - 1], header[n]))
  BY <1>3, <1>4, <1>5, MatchStep
<1>7. MatchOf(header, n, best[n])
  BY <1>1, <1>4, <1>6
<1> QED
  BY <1>2, <1>7

\* The closest range decides, whatever the order of the ranges.
LEMMA ClosestWins ==
  ASSUME NEW header, Tokens(header)
  PROVE  Wire!ClosestDecides(header, Wire!ApplyResponseAccept(header))
<1> DEFINE b == Wire!BestMatch(header)[Len(header)]
           close(t) == Wire!Closeness(t.name)
           weight(t) == Wire!ParseEncodingQ(t.weight)
           matching == {t \in Wire!Range(header) : close(t) >= 0}
           closest == {t \in matching : \A u \in matching : close(u) <= close(t)}
<1>1. Len(header) \in Nat /\ Wire!Range(header) = {header[i] : i \in 1..Len(header)}
  BY DEF Tokens, Wire!Range
<1>2. MatchOf(header, Len(header), b)
  BY <1>1, MatchFound
<1>3. \A t : close(t) \in {-1, 0, 1, 2} /\ weight(t) \in Nat
  BY DEF Wire!Closeness, Wire!ParseEncodingQ
<1> HIDE DEF b
<1>4. /\ b.closeness \in Int /\ b.quality \in Nat
      /\ b.closeness >= -1
      /\ b.closeness = -1 => b.quality = 0
      /\ \A t \in Wire!Range(header) : /\ close(t) <= b.closeness
                                       /\ close(t) = b.closeness /\ b.closeness >= 0 => weight(t) <= b.quality
      /\ b.closeness >= 0 => \E t \in Wire!Range(header) : close(t) = b.closeness /\ weight(t) = b.quality
  BY <1>1, <1>2 DEF MatchOf
<1> HIDE DEF close, weight
<1>5. \A t \in closest : t \in Wire!Range(header) /\ close(t) = b.closeness /\ b.closeness >= 0
  BY <1>3, <1>4
<1>6. \A t \in Wire!Range(header) : close(t) = b.closeness /\ b.closeness >= 0 => t \in closest
  BY <1>3, <1>4
<1>7. b.quality > 0 <=> \E t \in closest : weight(t) > 0
  <2>1. ASSUME b.quality > 0 PROVE \E t \in closest : weight(t) > 0
    <3>1. b.closeness >= 0
      BY <1>4, <2>1
    <3> QED
      BY <1>4, <1>6, <2>1, <3>1
  <2>2. ASSUME NEW t \in closest, weight(t) > 0 PROVE b.quality > 0
    <3>1. weight(t) <= b.quality /\ weight(t) \in Nat
      BY <1>3, <1>4, <1>5
    <3> QED
      BY <1>4, <2>2, <3>1
  <2> QED
    BY <2>1, <2>2
<1>8. Wire!ApplyResponseAccept(header) <=> (header = <<>> \/ b.quality > 0)
  BY DEF Wire!ApplyResponseAccept, Wire!AcceptsResponseType, b
<1> QED
  BY <1>7, <1>8 DEF Wire!ClosestDecides, close, weight

-----------------------------------------------------------------------------
(* With which values: every declaration, every request.                    *)

\* A value laid in keeps its place of origin: what is marked as a header, a cookie or the
\* query is what the request has there.
Sourced(route, request, p) ==
  \A n \in DOMAIN p :
    LET wire == Binding!ParamWireName(route.specs[n], n)
        declared(source, wires) ==
          /\ n \in DOMAIN route.specs /\ route.specs[n].source = source
          /\ wire \in DOMAIN wires /\ p[n].text = wires[wire]
    IN  /\ p[n].loc = "header" => declared("header", request.headers)
        /\ p[n].loc = "cookie" => declared("cookie", request.cookies)
        /\ p[n].loc = "query" => n \in DOMAIN request.query /\ p[n].text = request.query[n]

LEMMA OverIs ==
  ASSUME NEW upper, NEW lower
  PROVE  /\ \A n : n \in DOMAIN Binding!Over(upper, lower) <=> n \in DOMAIN upper \/ n \in DOMAIN lower
         /\ \A n \in DOMAIN upper : Binding!Over(upper, lower)[n] = upper[n]
         /\ \A n \in DOMAIN lower : n \notin DOMAIN upper => Binding!Over(upper, lower)[n] = lower[n]
BY DEF Binding!Over

LEMMA EntryIs ==
  ASSUME NEW loc, NEW text
  PROVE  Binding!Entry(loc, text).loc = loc /\ Binding!Entry(loc, text).text = text
BY DEF Binding!Entry

LEMMA OverSourced ==
  ASSUME NEW route, NEW request, NEW upper, NEW lower,
         Sourced(route, request, upper), Sourced(route, request, lower)
  PROVE  Sourced(route, request, Binding!Over(upper, lower))
<1> DEFINE p == Binding!Over(upper, lower)
<1>1. ASSUME NEW n \in DOMAIN p
      PROVE  (n \in DOMAIN upper /\ p[n] = upper[n]) \/ (n \in DOMAIN lower /\ p[n] = lower[n])
  BY OverIs
<1> HIDE DEF p
<1> QED
  BY <1>1 DEF Sourced, p

\* A layer of one origin.
LEMMA LayerSourced ==
  ASSUME NEW route, NEW request, NEW p,
         \A n \in DOMAIN p : p[n].loc \in {"server", "path", "body"}
  PROVE  Sourced(route, request, p)
BY DEF Sourced

LEMMA BeforeBodyIs ==
  ASSUME NEW route, NEW request
  PROVE  LET p == Binding!BeforeBody(route, request)
         IN  /\ Sourced(route, request, p)
             /\ \A n : n \notin DOMAIN route.specs /\ n # "request_id" =>
                  /\ n \in DOMAIN p <=> n \in DOMAIN request.path \/ n \in DOMAIN request.query
                  /\ n \in DOMAIN request.path => p[n] = Binding!Entry("path", request.path[n])
                  /\ n \notin DOMAIN request.path /\ n \in DOMAIN request.query =>
                       p[n] = Binding!Entry("query", request.query[n])
<1> DEFINE path == Binding!From("path", request.path)
           query == Binding!From("query", request.query)
           base == Binding!Over(Binding!ServerIds, Binding!Over(path, query))
           header == Binding!DeclaredSource(route, request, base, "header", request.headers)
           cookie == Binding!DeclaredSource(route, request, base, "cookie", request.cookies)
           p == Binding!Over(header, Binding!Over(cookie, base))
<1>1. Binding!BeforeBody(route, request) = p
  BY DEF Binding!BeforeBody
<1>2. /\ DOMAIN path = DOMAIN request.path /\ \A n \in DOMAIN path : path[n] = Binding!Entry("path", request.path[n])
      /\ DOMAIN query = DOMAIN request.query
      /\ \A n \in DOMAIN query : query[n] = Binding!Entry("query", request.query[n])
      /\ DOMAIN Binding!ServerIds = {"request_id"}
      /\ \A n \in DOMAIN Binding!ServerIds : Binding!ServerIds[n] = Binding!Entry("server", "id")
  BY DEF Binding!From, Binding!ServerIds
<1>3. ASSUME NEW source, NEW wires
      PROVE  LET d == Binding!DeclaredSource(route, request, base, source, wires)
             IN  /\ DOMAIN d \subseteq DOMAIN route.specs
                 /\ \A n \in DOMAIN d :
                      /\ route.specs[n].source = source
                      /\ Binding!ParamWireName(route.specs[n], n) \in DOMAIN wires
                      /\ d[n] = Binding!Entry(source, wires[Binding!ParamWireName(route.specs[n], n)])
  <2> HIDE DEF base
  <2> QED
    BY DEF Binding!DeclaredSource
<1>4. Sourced(route, request, base)
  <2>1. Sourced(route, request, path) /\ Sourced(route, request, Binding!ServerIds)
    BY <1>2, EntryIs, LayerSourced
  <2>2. Sourced(route, request, query)
    BY <1>2, EntryIs DEF Sourced
  <2> HIDE DEF path, query
  <2> QED
    BY <2>1, <2>2, OverSourced
<1>5. /\ \A n \in DOMAIN header : header[n].loc = "header" /\ header[n].text = request.headers[Binding!ParamWireName(route.specs[n], n)]
      /\ \A n \in DOMAIN cookie : cookie[n].loc = "cookie" /\ cookie[n].text = request.cookies[Binding!ParamWireName(route.specs[n], n)]
  BY <1>3, EntryIs
<1>6. Sourced(route, request, header) /\ Sourced(route, request, cookie)
  <2>1. /\ \A n \in DOMAIN header : /\ n \in DOMAIN route.specs /\ route.specs[n].source = "header"
                                    /\ Binding!ParamWireName(route.specs[n], n) \in DOMAIN request.headers
        /\ \A n \in DOMAIN cookie : /\ n \in DOMAIN route.specs /\ route.specs[n].source = "cookie"
                                    /\ Binding!ParamWireName(route.specs[n], n) \in DOMAIN request.cookies
    BY <1>3
  <2> HIDE DEF header, cookie
  <2> QED
    BY <1>5, <2>1 DEF Sourced
<1>7. Sourced(route, request, p)
  <2> HIDE DEF header, cookie, base
  <2> QED
    BY <1>4, <1>6, OverSourced
<1>8. ASSUME NEW n, n \notin DOMAIN route.specs, n # "request_id"
      PROVE  /\ n \in DOMAIN p <=> n \in DOMAIN request.path \/ n \in DOMAIN request.query
             /\ n \in DOMAIN request.path => p[n] = Binding!Entry("path", request.path[n])
             /\ n \notin DOMAIN request.path /\ n \in DOMAIN request.query =>
                  p[n] = Binding!Entry("query", request.query[n])
  <2>1. n \notin DOMAIN header /\ n \notin DOMAIN cookie
    BY <1>3, <1>8
  <2>2. n \notin DOMAIN Binding!ServerIds
    BY <1>2, <1>8
  <2> HIDE DEF header, cookie, path, query
  <2> DEFINE sent == Binding!Over(path, query)
             inner == Binding!Over(Binding!ServerIds, sent)
             middle == Binding!Over(cookie, inner)
  <2>6. /\ n \in DOMAIN p <=> n \in DOMAIN header \/ n \in DOMAIN middle
        /\ n \in DOMAIN middle /\ n \notin DOMAIN header => p[n] = middle[n]
    BY OverIs
  <2>7. /\ n \in DOMAIN middle <=> n \in DOMAIN cookie \/ n \in DOMAIN inner
        /\ n \in DOMAIN inner /\ n \notin DOMAIN cookie => middle[n] = inner[n]
    BY OverIs
  <2>8. /\ n \in DOMAIN inner <=> n \in DOMAIN Binding!ServerIds \/ n \in DOMAIN sent
        /\ n \in DOMAIN sent /\ n \notin DOMAIN Binding!ServerIds => inner[n] = sent[n]
    BY OverIs
  <2>9. /\ n \in DOMAIN sent <=> n \in DOMAIN path \/ n \in DOMAIN query
        /\ n \in DOMAIN path => sent[n] = path[n]
        /\ n \in DOMAIN query /\ n \notin DOMAIN path => sent[n] = query[n]
    BY OverIs
  <2> HIDE DEF sent, inner, middle
  <2>3. n \in DOMAIN p <=> n \in DOMAIN path \/ n \in DOMAIN query
    BY <2>1, <2>2, <2>6, <2>7, <2>8, <2>9
  <2>4. n \in DOMAIN path => p[n] = path[n]
    BY <2>1, <2>2, <2>6, <2>7, <2>8, <2>9
  <2>5. n \notin DOMAIN path /\ n \in DOMAIN query => p[n] = query[n]
    BY <2>1, <2>2, <2>6, <2>7, <2>8, <2>9
  <2> QED
    BY <1>2, <2>3, <2>4, <2>5
<1> QED
  BY <1>1, <1>7, <1>8

\* What the client sent under a name, the best source first; the layers put it in front.
Ranked(request, p, n) ==
  LET sources == Binding!Candidates(request, n)
  IN  n \in DOMAIN p =>
        \E i \in 1..3 : sources[i] # {} /\ (\A j \in 1..(i - 1) : sources[j] = {}) /\ p[n].text \in sources[i]

\* Names that stand for something else than a value of the client's.
Reserved == {"body", "request_id", "up", "up_filename", "filename"}

LEMMA PayloadIs ==
  ASSUME NEW route, NEW request, NEW p, Sourced(route, request, p)
  PROVE  LET w == Binding!WithPayload(route, request, p)
         IN  /\ Sourced(route, request, w)
             /\ \A n : n # "body" => (n \in DOMAIN w <=> n \in DOMAIN p) /\ (n \in DOMAIN p => w[n] = p[n])
<1> DEFINE payload == [n \in {"body"} |-> Binding!Entry("body", request.body.text)]
<1>1. DOMAIN payload = {"body"} /\ \A n \in DOMAIN payload : payload[n].loc = "body"
  BY EntryIs
<1>2. Sourced(route, request, payload)
  BY <1>1, LayerSourced
<1>3. Binding!WithPayload(route, request, p) = IF "body" \in route.params THEN Binding!Over(p, payload) ELSE p
  BY DEF Binding!WithPayload
<1> HIDE DEF payload
<1> QED
  BY <1>1, <1>2, <1>3, OverSourced, OverIs

LEMMA FieldsAre ==
  ASSUME NEW request
  PROVE  LET f == Binding!Fields(request)
         IN  /\ DOMAIN f = DOMAIN request.body.fields
             /\ \A n \in DOMAIN f : f[n].loc = "body" /\ f[n].text = request.body.fields[n].text
BY EntryIs DEF Binding!Fields

\* The sources of a name, by its text in them.
LEMMA CandidatesAre ==
  ASSUME NEW request, NEW n
  PROVE  LET c == Binding!Candidates(request, n)
             body == IF Binding!IsBodyMethod(request.method) /\ n \in DOMAIN request.body.fields
                     THEN {request.body.fields[n].text} ELSE {}
             query == IF n \in DOMAIN request.query THEN {request.query[n]} ELSE {}
         IN  /\ c[1] = IF n \in DOMAIN request.path THEN {request.path[n]} ELSE {}
             /\ c[2] = IF request.media = "form" THEN body ELSE query
             /\ c[3] = IF request.media = "form" THEN query ELSE body
<1> DEFINE field == [m \in DOMAIN request.body.fields |-> request.body.fields[m].text]
<1>1. Binding!Lookup(field, n) = IF n \in DOMAIN request.body.fields THEN {request.body.fields[n].text} ELSE {}
  BY DEF Binding!Lookup
<1>2. \A f : Binding!Lookup(f, n) = IF n \in DOMAIN f THEN {f[n]} ELSE {}
  BY DEF Binding!Lookup
<1> DEFINE body == IF Binding!IsBodyMethod(request.method) THEN Binding!Lookup(field, n) ELSE {}
<1>3. Binding!Candidates(request, n) =
        IF request.media = "form"
        THEN <<Binding!Lookup(request.path, n), body, Binding!Lookup(request.query, n)>>
        ELSE <<Binding!Lookup(request.path, n), Binding!Lookup(request.query, n), body>>
  BY DEF Binding!Candidates
<1>4. Binding!Lookup(request.path, n) = IF n \in DOMAIN request.path THEN {request.path[n]} ELSE {}
  BY <1>2
<1>5. Binding!Lookup(request.query, n) = IF n \in DOMAIN request.query THEN {request.query[n]} ELSE {}
  BY <1>2
<1>6. body = IF Binding!IsBodyMethod(request.method) /\ n \in DOMAIN request.body.fields
             THEN {request.body.fields[n].text} ELSE {}
  BY <1>1
<1> HIDE DEF body
<1>7. CASE request.media = "form"
  BY <1>3, <1>4, <1>5, <1>6, <1>7
<1>8. CASE request.media # "form"
  BY <1>3, <1>4, <1>5, <1>6, <1>8
<1> QED
  BY <1>7, <1>8

Undeclared(route, n) == n \notin DOMAIN route.specs \union Reserved

Layered(route, request, p) ==
  Sourced(route, request, p) /\ \A n : Undeclared(route, n) => Ranked(request, p, n)

\* Before the body is read, and when it adds nothing.
LEMMA BeforeRanked ==
  ASSUME NEW route, NEW request, ~Binding!IsBodyMethod(request.method) \/ request.media # "form"
  PROVE  Layered(route, request, Binding!BeforeBody(route, request))
<1> DEFINE p == Binding!BeforeBody(route, request)
<1>1. Sourced(route, request, p)
  BY BeforeBodyIs
<1>2. ASSUME NEW n, Undeclared(route, n), n \in DOMAIN p
      PROVE  LET c == Binding!Candidates(request, n)
             IN  \E i \in 1..3 : c[i] # {} /\ (\A j \in 1..(i - 1) : c[j] = {}) /\ p[n].text \in c[i]
  <2> DEFINE c == Binding!Candidates(request, n)
             query == IF n \in DOMAIN request.query THEN {request.query[n]} ELSE {}
  <2>1. /\ n \in DOMAIN request.path \/ n \in DOMAIN request.query
        /\ n \in DOMAIN request.path => p[n].text = request.path[n]
        /\ n \notin DOMAIN request.path /\ n \in DOMAIN request.query => p[n].text = request.query[n]
    BY <1>2, BeforeBodyIs, EntryIs DEF Undeclared, Reserved
  <2>2. c[1] = IF n \in DOMAIN request.path THEN {request.path[n]} ELSE {}
    BY CandidatesAre
  <2>3. c[2] = query \/ (c[2] = {} /\ c[3] = query)
    BY CandidatesAre
  <2> HIDE DEF c, p
  <2>4. CASE n \in DOMAIN request.path
    <3>1. c[1] # {} /\ p[n].text \in c[1]
      BY <2>1, <2>2, <2>4
    <3>2. \A j \in 1..(1 - 1) : c[j] = {}
      OBVIOUS
    <3> QED
      BY <3>1, <3>2 DEF c
  <2>5. CASE n \notin DOMAIN request.path /\ c[2] = query
    <3>1. c[1] = {} /\ c[2] # {} /\ p[n].text \in c[2]
      BY <2>1, <2>2, <2>5
    <3>2. \A j \in 1..(2 - 1) : c[j] = {}
      BY <3>1
    <3> QED
      BY <3>1, <3>2 DEF c
  <2>6. CASE n \notin DOMAIN request.path /\ c[2] = {} /\ c[3] = query
    <3>1. c[1] = {} /\ c[2] = {} /\ c[3] # {} /\ p[n].text \in c[3]
      BY <2>1, <2>2, <2>6
    <3>2. \A j \in 1..(3 - 1) : c[j] = {}
      BY <3>1
    <3> QED
      BY <3>1, <3>2 DEF c
  <2> QED
    BY <2>3, <2>4, <2>5, <2>6 DEF c
<1> HIDE DEF p
<1>3. \A n : Undeclared(route, n) => Ranked(request, p, n)
  BY <1>2 DEF Ranked
<1> QED
  BY <1>1, <1>3 DEF Layered, p

LEMMA PayloadLayered ==
  ASSUME NEW route, NEW request, NEW p, Layered(route, request, p)
  PROVE  Layered(route, request, Binding!WithPayload(route, request, p))
<1> DEFINE w == Binding!WithPayload(route, request, p)
<1>1. Sourced(route, request, w)
  BY PayloadIs DEF Layered
<1>2. ASSUME NEW n, Undeclared(route, n)
      PROVE  Ranked(request, w, n)
  <2>1. (n \in DOMAIN w <=> n \in DOMAIN p) /\ (n \in DOMAIN p => w[n] = p[n])
    BY <1>2, PayloadIs DEF Layered, Undeclared, Reserved
  <2>2. Ranked(request, p, n)
    BY <1>2 DEF Layered
  <2> HIDE DEF w
  <2> QED
    BY <2>1, <2>2 DEF Ranked
<1> HIDE DEF w
<1> QED
  BY <1>1, <1>2 DEF Layered, w

\* A body that fills only the names that are missing.
LEMMA FilledLayered ==
  ASSUME NEW route, NEW request, Binding!IsBodyMethod(request.method), request.media # "form"
  PROVE  Layered(route, request, Binding!Over(Binding!BeforeBody(route, request), Binding!Fields(request)))
<1> DEFINE b == Binding!BeforeBody(route, request)
           f == Binding!Fields(request)
           p == Binding!Over(b, f)
<1>1. Layered(route, request, b)
  BY BeforeRanked
<1>2. DOMAIN f = DOMAIN request.body.fields /\ \A n \in DOMAIN f : f[n].loc = "body" /\ f[n].text = request.body.fields[n].text
  BY FieldsAre
<1>3. Sourced(route, request, f)
  <2> HIDE DEF f
  <2> QED
    BY <1>2, LayerSourced
<1>4. Sourced(route, request, p)
  BY <1>1, <1>3, OverSourced DEF Layered
<1>5. ASSUME NEW n, Undeclared(route, n)
      PROVE  Ranked(request, p, n)
  <2> DEFINE c == Binding!Candidates(request, n)
  <2>1. n \in DOMAIN b <=> n \in DOMAIN request.path \/ n \in DOMAIN request.query
    BY <1>5, BeforeBodyIs DEF Undeclared, Reserved
  <2>2. /\ n \in DOMAIN p <=> n \in DOMAIN b \/ n \in DOMAIN f
        /\ n \in DOMAIN b => p[n] = b[n]
        /\ n \notin DOMAIN b /\ n \in DOMAIN f => p[n] = f[n]
    BY OverIs
  <2>3. Ranked(request, b, n)
    BY <1>1, <1>5 DEF Layered
  <2>4. /\ c[1] = IF n \in DOMAIN request.path THEN {request.path[n]} ELSE {}
        /\ c[2] = IF n \in DOMAIN request.query THEN {request.query[n]} ELSE {}
        /\ n \in DOMAIN request.body.fields => c[3] = {request.body.fields[n].text}
    BY CandidatesAre
  <2> HIDE DEF p, b, f, c
  <2>5. CASE n \in DOMAIN b
    BY <2>2, <2>3, <2>5 DEF Ranked
  <2>6. CASE n \notin DOMAIN b /\ n \in DOMAIN f
    <3>1. c[1] = {} /\ c[2] = {} /\ c[3] # {} /\ p[n].text \in c[3]
      BY <1>2, <2>1, <2>2, <2>4, <2>6
    <3>2. \A j \in 1..(3 - 1) : c[j] = {}
      BY <3>1
    <3> QED
      BY <3>1, <3>2 DEF c, Ranked
  <2>7. CASE n \notin DOMAIN p
    BY <2>7 DEF Ranked
  <2> QED
    BY <2>2, <2>5, <2>6, <2>7
<1> HIDE DEF p
<1> QED
  BY <1>4, <1>5 DEF Layered, p

LEMMA JsonLayered ==
  ASSUME NEW route, NEW request, Binding!IsBodyMethod(request.method), Binding!IsJsonBody(request),
         NEW p \in Binding!JsonBody(route, request, Binding!BeforeBody(route, request))
  PROVE  Layered(route, request, p)
<1> DEFINE b == Binding!BeforeBody(route, request)
           f == Binding!Fields(request)
<1>0. request.media # "form"
  BY DEF Binding!IsJsonBody
<1>1. Layered(route, request, b) /\ Layered(route, request, Binding!Over(b, f))
  BY <1>0, BeforeRanked, FilledLayered
<1>2. Layered(route, request, Binding!Over(b, <<>>))
  <2>1. Binding!Over(b, <<>>) = [n \in DOMAIN b |-> b[n]]
    <3>1. DOMAIN <<>> = {}
      OBVIOUS
    <3> HIDE DEF b
    <3> QED
      BY <3>1 DEF Binding!Over
  <2>2. /\ DOMAIN Binding!Over(b, <<>>) = DOMAIN b
        /\ \A n \in DOMAIN b : Binding!Over(b, <<>>)[n] = b[n]
    BY <2>1
  <2> DEFINE o == Binding!Over(b, <<>>)
  <2> HIDE DEF b, o
  <2>3. Sourced(route, request, o)
    BY <1>1, <2>2 DEF Layered, Sourced, o
  <2>4. \A n : Undeclared(route, n) => Ranked(request, o, n)
    BY <1>1, <2>2 DEF Layered, Ranked, o
  <2> QED
    BY <2>3, <2>4 DEF Layered, o
<1>3. \/ p = b
      \/ p = Binding!WithPayload(route, request, Binding!Over(b, f))
      \/ p = Binding!WithPayload(route, request, Binding!Over(b, <<>>))
  <2> HIDE DEF b
  <2> QED
    BY DEF Binding!JsonBody, Binding!ExtractJsonBodyFields, b
<1> QED
  BY <1>1, <1>2, <1>3, PayloadLayered

\* A form also replaces the query.
LEMMA FormLayered ==
  ASSUME NEW route, NEW request, Binding!IsBodyMethod(request.method), request.media = "form"
  PROVE  Layered(route, request, Binding!FormBody(route, request, Binding!BeforeBody(route, request)))
<1> DEFINE b == Binding!BeforeBody(route, request)
           f == Binding!Fields(request)
           kept == {n \in DOMAIN b : b[n].loc = "query" => n \notin DOMAIN request.body.fields}
           k == [n \in kept |-> b[n]]
           p == Binding!Over(k, f)
<1>1. Sourced(route, request, b)
  BY BeforeBodyIs
<1>2. DOMAIN f = DOMAIN request.body.fields /\ \A n \in DOMAIN f : f[n].loc = "body" /\ f[n].text = request.body.fields[n].text
  BY FieldsAre
<1>3. DOMAIN k = kept /\ \A n \in kept : k[n] = b[n]
  OBVIOUS
<1>4. Sourced(route, request, p)
  <2>1. Sourced(route, request, f)
    <3> HIDE DEF f
    <3> QED
      BY <1>2, LayerSourced
  <2>2. \A n \in DOMAIN k : n \in DOMAIN b /\ k[n] = b[n]
    OBVIOUS
  <2>3. Sourced(route, request, k)
    <3> HIDE DEF k, b
    <3> QED
      BY <1>1, <2>2 DEF Sourced
  <2> HIDE DEF k, f
  <2> QED
    BY <2>1, <2>3, OverSourced
<1>5. ASSUME NEW n, Undeclared(route, n)
      PROVE  Ranked(request, p, n)
  <2> DEFINE c == Binding!Candidates(request, n)
  <2>1. /\ n \in DOMAIN b <=> n \in DOMAIN request.path \/ n \in DOMAIN request.query
        /\ n \in DOMAIN request.path => b[n].loc = "path" /\ b[n].text = request.path[n]
        /\ n \notin DOMAIN request.path /\ n \in DOMAIN request.query =>
             b[n].loc = "query" /\ b[n].text = request.query[n]
    BY <1>5, BeforeBodyIs, EntryIs DEF Undeclared, Reserved
  <2>2. /\ n \in DOMAIN p <=> n \in DOMAIN k \/ n \in DOMAIN f
        /\ n \in DOMAIN k => p[n] = k[n]
        /\ n \notin DOMAIN k /\ n \in DOMAIN f => p[n] = f[n]
    BY OverIs
  <2>3. /\ n \in DOMAIN k <=> n \in DOMAIN b /\ (b[n].loc = "query" => n \notin DOMAIN f)
        /\ n \in DOMAIN k => k[n] = b[n]
    BY <1>2, <1>3
  <2>4. /\ c[1] = IF n \in DOMAIN request.path THEN {request.path[n]} ELSE {}
        /\ c[2] = IF n \in DOMAIN request.body.fields THEN {request.body.fields[n].text} ELSE {}
        /\ c[3] = IF n \in DOMAIN request.query THEN {request.query[n]} ELSE {}
    BY CandidatesAre
  <2> HIDE DEF p, k, b, f, c
  <2>5. CASE n \in DOMAIN request.path
    <3>1. c[1] # {} /\ p[n].text \in c[1]
      BY <2>1, <2>2, <2>3, <2>4, <2>5
    <3>2. \A j \in 1..(1 - 1) : c[j] = {}
      OBVIOUS
    <3> QED
      BY <3>1, <3>2 DEF c, Ranked
  <2>6. CASE n \notin DOMAIN request.path /\ n \in DOMAIN f
    <3>1. c[1] = {} /\ c[2] # {} /\ p[n].text \in c[2]
      BY <1>2, <2>1, <2>2, <2>3, <2>4, <2>6
    <3>2. \A j \in 1..(2 - 1) : c[j] = {}
      BY <3>1
    <3> QED
      BY <3>1, <3>2 DEF c, Ranked
  <2>7. CASE n \notin DOMAIN request.path /\ n \notin DOMAIN f /\ n \in DOMAIN request.query
    <3>1. c[1] = {} /\ c[2] = {} /\ c[3] # {} /\ p[n].text \in c[3]
      BY <1>2, <2>1, <2>2, <2>3, <2>4, <2>7
    <3>2. \A j \in 1..(3 - 1) : c[j] = {}
      BY <3>1
    <3> QED
      BY <3>1, <3>2 DEF c, Ranked
  <2>8. CASE n \notin DOMAIN p
    BY <2>8 DEF Ranked
  <2> QED
    BY <2>1, <2>2, <2>3, <2>5, <2>6, <2>7, <2>8
<1>6. Layered(route, request, p)
  <2> HIDE DEF p
  <2> QED
    BY <1>4, <1>5 DEF Layered
<1>7. Binding!FormBody(route, request, b) = Binding!WithPayload(route, request, p)
  <2> HIDE DEF b
  <2> QED
    BY DEF Binding!FormBody
<1> HIDE DEF p
<1> QED
  BY <1>6, <1>7, PayloadLayered

\* A multipart body: an upload stands under names of its own.
LEMMA MultipartLayered ==
  ASSUME NEW route, NEW request, Binding!IsBodyMethod(request.method), request.media # "form"
  PROVE  Layered(route, request, Binding!MultipartBody(route, request, Binding!BeforeBody(route, request)))
<1> DEFINE filled == Binding!Over(Binding!BeforeBody(route, request), Binding!Fields(request))
           upload(names) == [n \in names |-> Binding!Entry("body", request.body.file)]
           one == upload({"up_filename"})
           two == upload({"up", "filename"})
           under == Binding!Over(filled, two)
           stored == Binding!Over(one, under)
<1>1. Layered(route, request, filled)
  BY FilledLayered
<1>2. /\ DOMAIN one = {"up_filename"} /\ \A n \in DOMAIN one : one[n].loc = "body"
      /\ DOMAIN two = {"up", "filename"} /\ \A n \in DOMAIN two : two[n].loc = "body"
  BY EntryIs
<1>3. Layered(route, request, stored)
  <2>1. Sourced(route, request, one) /\ Sourced(route, request, two)
    BY <1>2, LayerSourced
  <2> HIDE DEF one, two, filled
  <2>2. Sourced(route, request, stored)
    BY <1>1, <2>1, OverSourced DEF Layered
  <2>3. ASSUME NEW n, Undeclared(route, n)
        PROVE  Ranked(request, stored, n)
    <3>1. n \notin DOMAIN one /\ n \notin DOMAIN two
      BY <1>2, <2>3 DEF Undeclared, Reserved
    <3>2. (n \in DOMAIN under <=> n \in DOMAIN filled \/ n \in DOMAIN two) /\ (n \in DOMAIN filled => under[n] = filled[n])
      BY OverIs
    <3> HIDE DEF under
    <3>3. /\ n \in DOMAIN stored <=> n \in DOMAIN one \/ n \in DOMAIN under
          /\ n \in DOMAIN under /\ n \notin DOMAIN one => stored[n] = under[n]
      BY OverIs
    <3>4. Ranked(request, filled, n)
      BY <1>1, <2>3 DEF Layered
    <3> HIDE DEF stored
    <3> QED
      BY <3>1, <3>2, <3>3, <3>4 DEF Ranked
  <2> HIDE DEF stored
  <2> QED
    BY <2>2, <2>3 DEF Layered
<1>4. Binding!MultipartBody(route, request, Binding!BeforeBody(route, request))
        = Binding!WithPayload(route, request, IF request.body.file = "" THEN filled ELSE stored)
  BY DEF Binding!MultipartBody
<1> HIDE DEF filled, stored
<1> QED
  BY <1>1, <1>3, <1>4, PayloadLayered

\* Every value laid out for the binder comes from where it says, and the sources of an
\* undeclared name are in their order.
LEMMA ProvidedLayered ==
  ASSUME NEW route, NEW request, NEW p \in Binding!Provided(route, request)
  PROVE  Layered(route, request, p)
<1> DEFINE b == Binding!BeforeBody(route, request)
<1>1. CASE ~Binding!IsBodyMethod(request.method)
  <2>1. p = b
    BY <1>1 DEF Binding!Provided
  <2> QED
    BY <1>1, <2>1, BeforeRanked
<1>2. CASE Binding!IsBodyMethod(request.method) /\ Binding!IsJsonBody(request)
  <2>1. p \in Binding!JsonBody(route, request, b)
    BY <1>2 DEF Binding!Provided
  <2> QED
    BY <1>2, <2>1, JsonLayered
<1>3. CASE /\ Binding!IsBodyMethod(request.method) /\ ~Binding!IsJsonBody(request)
           /\ request.media \in {"form", "multipart"}
  <2>1. IF request.media = "form" THEN p = Binding!FormBody(route, request, b)
        ELSE p = Binding!MultipartBody(route, request, b)
    <3> HIDE DEF b
    <3> QED
      BY <1>3 DEF Binding!Provided, b
  <2> QED
    BY <1>3, <2>1, FormLayered, MultipartLayered
<1>4. CASE /\ Binding!IsBodyMethod(request.method) /\ ~Binding!IsJsonBody(request)
           /\ request.media \notin {"form", "multipart"}
  <2>1. p = b
    <3> HIDE DEF b
    <3> QED
      BY <1>4 DEF Binding!Provided, b
  <2> QED
    BY <1>4, <2>1, BeforeRanked
<1> QED
  BY <1>1, <1>2, <1>3, <1>4

\* One parameter: a claim; a default, when nothing was found; else what was found, checked.
LEMMA AcceptIs ==
  ASSUME NEW spec, NEW type, NEW text, NEW native
  PROVE  LET v == Binding!Accept(spec, type, text, native)
         IN  \/ ~v.bound
             \/ /\ v.bound /\ ~v.null /\ v.text = text
                /\ Binding!WellTyped(spec, type, text) /\ Binding!CheckParamConstraints(spec, text, native)
BY DEF Binding!Accept, Binding!Value, Binding!Issue

\* Where a value that was found lies: under its name, from the source declared, or under
\* its alias, from the query.
Lies(route, p, n, e) ==
  LET spec == Binding!Spec1(route, n)
  IN  /\ spec.source \in {"header", "cookie"} => n \in DOMAIN p /\ e = p[n] /\ e.loc = spec.source
      /\ spec.source \notin {"header", "cookie"} /\ spec.external # "" /\ n \notin route.exact =>
           spec.external \in DOMAIN p /\ e = p[spec.external] /\ e.loc = "query"
      /\ spec.source \notin {"header", "cookie"} /\ (spec.external = "" \/ n \in route.exact) =>
           n \in DOMAIN p /\ e = p[n]

LEMMA FoundIs ==
  ASSUME NEW route, NEW p, NEW n, NEW e, e \in Binding!Found(route, p, n)
  PROVE  Lies(route, p, n, e)
BY DEF Lies, Binding!Found, Binding!Lookup, Binding!IsPathParam

NullsAllowed(route, request, n) ==
  LET spec == Binding!Spec1(route, n)
  IN  \/ Binding!IsClaimsParam(n) /\ request.claim = ""
      \/ spec.default = "null"
      \/ /\ n \in DOMAIN request.body.fields /\ request.body.fields[n].json = "null"
         /\ route.shape = "schema" \/ (Binding!ExpectedType(route, n) = "VARIANT" /\ ~Binding!HasBounds(spec))

\* Where the text of a bound value is from.
Origin(route, p, n, text) ==
  \/ Binding!Found(route, p, n) = {} /\ Binding!Spec1(route, n).default \notin {"none", "null"}
     /\ text = Binding!Spec1(route, n).default
  \/ \E e \in Binding!Found(route, p, n) : text = e.text

LEMMA BindParamIs ==
  ASSUME NEW route, NEW request, NEW p, NEW n,
         LET v == Binding!BindParam(route, request, p, n) IN v.bound
  PROVE  LET v == Binding!BindParam(route, request, p, n)
             spec == Binding!Spec1(route, n)
         IN  /\ v.null => NullsAllowed(route, request, n)
             /\ ~v.null /\ ~Binding!IsClaimsParam(n) =>
                  /\ Origin(route, p, n, v.text)
                  /\ Binding!WellTyped(spec, Binding!ExpectedType(route, n), v.text)
                  /\ \E native : Binding!CheckParamConstraints(spec, v.text, native)
<1> DEFINE v == Binding!BindParam(route, request, p, n)
           spec == Binding!Spec1(route, n)
           type == Binding!ExpectedType(route, n)
           found == Binding!Found(route, p, n)
           e == CHOOSE f \in found : TRUE
           given == Binding!Native(request, type, "default", n, spec.default)
           native == Binding!Native(request, type, e.loc, n, e.text)
<1> HIDE DEF spec, type, found, e, given, native
<1>1. v = IF Binding!IsClaimsParam(n)
          THEN IF request.claim = "" THEN Binding!Null ELSE Binding!Value(request.claim)
          ELSE IF found = {}
          THEN CASE spec.default = "none" -> Binding!Issue
                 [] spec.default = "null" -> Binding!Null
                 [] OTHER -> Binding!Accept(spec, type, spec.default, given)
          ELSE IF n \in Binding!ExplicitNulls(route, request)
               THEN IF Binding!NullAllowed(route, spec, type, e.loc) THEN Binding!Null ELSE Binding!Issue
               ELSE Binding!Accept(spec, type, e.text, native)
  BY DEF Binding!BindParam, spec, type, found, e, given, native
<1>2. /\ Binding!Null.bound /\ Binding!Null.null
      /\ ~Binding!Issue.bound
      /\ ~Binding!Value(request.claim).null
  BY DEF Binding!Null, Binding!Issue, Binding!Value
<1>3. found # {} => e \in found
  BY DEF e
<1> HIDE DEF v
<1>4. CASE Binding!IsClaimsParam(n)
  <2>1. v.null => request.claim = ""
    BY <1>1, <1>2, <1>4
  <2> QED
    BY <1>4, <2>1 DEF v, NullsAllowed
<1>5. CASE ~Binding!IsClaimsParam(n) /\ found = {}
  <2>1. CASE spec.default = "none"
    BY <1>1, <1>2, <1>5, <2>1 DEF v
  <2>2. CASE spec.default = "null"
    <3>1. v = Binding!Null
      BY <1>1, <1>5, <2>2
    <3> QED
      BY <1>2, <2>2, <3>1 DEF v, NullsAllowed, spec
  <2>3. CASE spec.default \notin {"none", "null"}
    <3>1. v = Binding!Accept(spec, type, spec.default, given)
      BY <1>1, <1>5, <2>3
    <3>2. /\ ~v.null /\ v.text = spec.default
          /\ Binding!WellTyped(spec, type, v.text) /\ Binding!CheckParamConstraints(spec, v.text, given)
      BY <3>1, AcceptIs DEF v
    <3>3. Origin(route, p, n, v.text)
      BY <1>5, <2>3, <3>2 DEF Origin, found, spec
    <3> QED
      BY <3>2, <3>3 DEF v, spec, type
  <2> QED
    BY <2>1, <2>2, <2>3
<1>6. CASE ~Binding!IsClaimsParam(n) /\ found # {} /\ n \in Binding!ExplicitNulls(route, request)
  <2>1. v = Binding!Null /\ Binding!NullAllowed(route, spec, type, e.loc)
    BY <1>1, <1>2, <1>6 DEF v
  <2>2. n \in DOMAIN request.body.fields /\ request.body.fields[n].json = "null"
    BY <1>6 DEF Binding!ExplicitNulls
  <2> QED
    BY <1>2, <2>1, <2>2 DEF Binding!NullAllowed, NullsAllowed, v, spec, type
<1>7. CASE ~Binding!IsClaimsParam(n) /\ found # {} /\ n \notin Binding!ExplicitNulls(route, request)
  <2>1. v = Binding!Accept(spec, type, e.text, native)
    BY <1>1, <1>7
  <2>2. /\ ~v.null /\ v.text = e.text
        /\ Binding!WellTyped(spec, type, v.text) /\ Binding!CheckParamConstraints(spec, v.text, native)
    BY <2>1, AcceptIs DEF v
  <2>3. Origin(route, p, n, v.text)
    BY <1>3, <1>7, <2>2 DEF Origin, found
  <2> QED
    BY <2>2, <2>3 DEF v, spec, type
<1> QED
  BY <1>4, <1>5, <1>6, <1>7

\* What the answer to an accepted request is made of.
LEMMA BindIs ==
  ASSUME NEW route, NEW request, Binding!Bind(route, request).status = 200
  PROVE  \E p \in Binding!Provided(route, request) :
           \A n \in route.params :
             /\ Binding!Bind(route, request).values[n] = Binding!BindParam(route, request, p, n)
             /\ Binding!BindParam(route, request, p, n).bound
<1> DEFINE layers == Binding!Provided(route, request)
           p == CHOOSE q \in layers : TRUE
           values == [n \in route.params |-> Binding!BindParam(route, request, p, n)]
           issues == {n \in route.params : ~values[n].bound}
<1> HIDE DEF layers, p, values, issues
<1>1. Binding!Bind(route, request)
        = IF layers = {} THEN [status |-> 422, issues |-> {}, values |-> <<>>]
          ELSE [status |-> IF issues = {} THEN 200 ELSE 422, issues |-> issues, values |-> values]
  BY DEF Binding!Bind, layers, p, values, issues
<1>2. layers # {} /\ issues = {} /\ Binding!Bind(route, request).values = values
  BY <1>1
<1>3. p \in layers
  BY <1>2 DEF p
<1>4. ASSUME NEW n \in route.params
      PROVE  values[n] = Binding!BindParam(route, request, p, n) /\ values[n].bound
  <2>1. values[n].bound
    BY <1>2 DEF issues
  <2> QED
    BY <2>1 DEF values
<1> QED
  BY <1>2, <1>3, <1>4 DEF layers

LEMMA TypedText ==
  ASSUME NEW spec, NEW type, NEW text, Binding!WellTyped(spec, type, text)
  PROVE  /\ type = "INTEGER" => text \in {"7", "12", "-3"}
         /\ type = "UINTEGER" => text \in {"7", "12"}
         /\ type \in {"UNKNOWN", "VARCHAR"} /\ spec.type = "" => text # "1.5"
<1>1. /\ type = "INTEGER" => text \in {"7", "12", "-3"}
      /\ type = "UINTEGER" => text \in {"7", "12"}
  BY DEF Binding!WellTyped, Binding!IsIntegralType, Binding!IsUnsignedIntegralType, Binding!IsStrictIntegerString
<1>2. Binding!Rounds("1.5")
  <2>1. "1.5" \in DOMAIN Binding!Number
    BY DEF Binding!Number
  <2>2. Binding!QuackapiTryCast("1.5", "INTEGER")
    BY <2>1 DEF Binding!QuackapiTryCast
  <2> QED
    BY <2>2 DEF Binding!Rounds, Binding!IsStrictIntegerString
<1>3. type \in {"UNKNOWN", "VARCHAR"} /\ spec.type = "" => ~Binding!Rounds(text)
  BY DEF Binding!WellTyped
<1> QED
  BY <1>1, <1>2, <1>3

LEMMA WithinBounds ==
  ASSUME NEW spec, NEW text, NEW native, Binding!CheckParamConstraints(spec, text, native)
  PROVE  /\ \A b \in Binding!Lengths(spec) : Binding!WithinLength(b, Binding!Length[text])
         /\ \A b \in spec.bounds \ Binding!Lengths(spec) : Binding!Within(b, Binding!Number[text])
<1> DEFINE ls == Binding!Lengths(spec)
<1>1. ls \subseteq spec.bounds
  BY DEF Binding!Lengths
<1> HIDE DEF ls
<1> QED
  BY <1>1 DEF Binding!CheckParamConstraints, ls

\* Every declaration, every request: values come from where they are declared to come from,
\* the best source first, and are what BinderTypes and the bounds let in.
LEMMA BindingRight ==
  ASSUME NEW route, NEW request
  PROVE  Binding!BoundRight(route, request, Binding!Bind(route, request))
<1> DEFINE bound == Binding!Bind(route, request)
<1>1. CASE bound.status # 200
  <2>1. Binding!Given(route, bound) = {}
    BY <1>1 DEF Binding!Given
  <2> HIDE DEF bound
  <2>2. Binding!DeclaredSourceOnly(route, request, bound) /\ Binding!BestSourceWins(route, request, bound)
    BY <2>1 DEF Binding!DeclaredSourceOnly, Binding!BestSourceWins
  <2>3. Binding!DeclarationKept(route, request, bound)
    BY <1>1, <2>1 DEF Binding!DeclarationKept
  <2> QED
    BY <2>2, <2>3 DEF Binding!BoundRight, bound
<1>2. CASE bound.status = 200
  <2>1. PICK p \in Binding!Provided(route, request) :
          \A n \in route.params : /\ bound.values[n] = Binding!BindParam(route, request, p, n)
                                  /\ Binding!BindParam(route, request, p, n).bound
    BY <1>2, BindIs
  <2>2. Layered(route, request, p)
    BY ProvidedLayered
  <2>3. ASSUME NEW n \in Binding!Given(route, bound)
        PROVE  LET spec == Binding!Spec1(route, n)
                   text == bound.values[n].text
               IN  /\ n \in route.params
                   /\ Origin(route, p, n, text)
                   /\ Binding!WellTyped(spec, Binding!ExpectedType(route, n), text)
                   /\ \E native : Binding!CheckParamConstraints(spec, text, native)
    <3>1. n \in route.params /\ ~Binding!IsClaimsParam(n) /\ ~bound.values[n].null
      <4> HIDE DEF bound
      <4> QED
        BY DEF Binding!Given
    <3>2. bound.values[n] = Binding!BindParam(route, request, p, n) /\ Binding!BindParam(route, request, p, n).bound
      BY <2>1, <3>1
    <3> HIDE DEF bound
    <3> QED
      BY <3>1, <3>2, BindParamIs
  <2>4. \A n \in route.params : bound.values[n].null => NullsAllowed(route, request, n)
    <3>1. TAKE n \in route.params
    <3>2. bound.values[n] = Binding!BindParam(route, request, p, n) /\ Binding!BindParam(route, request, p, n).bound
      BY <2>1
    <3> HIDE DEF bound
    <3> QED
      BY <3>2, BindParamIs
  <2> HIDE DEF bound
  <2>5. Binding!DeclaredSourceOnly(route, request, bound)
    <3>1. SUFFICES ASSUME NEW n \in Binding!Given(route, bound)
                   PROVE  LET spec == Binding!Spec1(route, n)
                              wire == Binding!ParamWireName(spec, n)
                              text == bound.values[n].text
                          IN  /\ spec.source = "header" => text \in Binding!Lookup(request.headers, wire) \union Binding!Default(spec)
                              /\ spec.source = "cookie" => text \in Binding!Lookup(request.cookies, wire) \union Binding!Default(spec)
                              /\ spec.source = "query" /\ spec.external # "" /\ n \notin route.exact =>
                                   text \in Binding!Lookup(request.query, wire) \union Binding!Default(spec)
      BY DEF Binding!DeclaredSourceOnly
    <3> DEFINE spec == Binding!Spec1(route, n)
               wire == Binding!ParamWireName(spec, n)
               text == bound.values[n].text
    <3>2. CASE Binding!Found(route, p, n) = {} /\ spec.default \notin {"none", "null"} /\ text = spec.default
      <4>1. text \in Binding!Default(spec)
        BY <3>2 DEF Binding!Default
      <4> QED
        BY <4>1
    <3>3. ASSUME NEW e \in Binding!Found(route, p, n), text = e.text
          PROVE  /\ spec.source = "header" => text \in Binding!Lookup(request.headers, wire)
                 /\ spec.source = "cookie" => text \in Binding!Lookup(request.cookies, wire)
                 /\ spec.source = "query" /\ spec.external # "" /\ n \notin route.exact =>
                      text \in Binding!Lookup(request.query, wire)
      <4>1. /\ spec.source \in {"header", "cookie"} => n \in DOMAIN p /\ e = p[n] /\ e.loc = spec.source
            /\ spec.source \notin {"header", "cookie"} /\ spec.external # "" /\ n \notin route.exact =>
                 spec.external \in DOMAIN p /\ e = p[spec.external] /\ e.loc = "query"
        <5>1. Lies(route, p, n, e)
          BY FoundIs
        <5> QED
          BY <5>1 DEF Lies
      <4>2. Sourced(route, request, p)
        BY <2>2 DEF Layered
      <4>3. n \in DOMAIN route.specs => spec = route.specs[n]
        BY DEF Binding!Spec1
      <4>4. ASSUME spec.source = "header"
            PROVE  text \in Binding!Lookup(request.headers, wire)
        <5>1. n \in DOMAIN p /\ p[n].loc = "header" /\ text = p[n].text
          BY <3>3, <4>1, <4>4
        <5>2. wire \in DOMAIN request.headers /\ text = request.headers[wire]
          <6> HIDE DEF spec, text
          <6> QED
            BY <4>2, <4>3, <5>1 DEF Sourced
        <5> QED
          BY <5>2 DEF Binding!Lookup
      <4>5. ASSUME spec.source = "cookie"
            PROVE  text \in Binding!Lookup(request.cookies, wire)
        <5>1. n \in DOMAIN p /\ p[n].loc = "cookie" /\ text = p[n].text
          BY <3>3, <4>1, <4>5
        <5>2. wire \in DOMAIN request.cookies /\ text = request.cookies[wire]
          <6> HIDE DEF spec, text
          <6> QED
            BY <4>2, <4>3, <5>1 DEF Sourced
        <5> QED
          BY <5>2 DEF Binding!Lookup
      <4>6. ASSUME spec.source = "query" /\ spec.external # "" /\ n \notin route.exact
            PROVE  text \in Binding!Lookup(request.query, wire)
        <5>1. wire = spec.external
          BY <4>6 DEF Binding!ParamWireName
        <5>2. wire \in DOMAIN p /\ p[wire].loc = "query" /\ text = p[wire].text
          BY <3>3, <4>1, <4>6, <5>1
        <5>3. wire \in DOMAIN request.query /\ text = request.query[wire]
          <6> HIDE DEF wire, text
          <6> QED
            BY <4>2, <5>2 DEF Sourced
        <5> QED
          BY <5>3 DEF Binding!Lookup
      <4> QED
        BY <4>4, <4>5, <4>6
    <3>4. Origin(route, p, n, text)
      BY <2>3
    <3> QED
      BY <3>2, <3>3, <3>4 DEF Origin
  <2>6. Binding!BestSourceWins(route, request, bound)
    <3>1. SUFFICES ASSUME NEW n \in Binding!Given(route, bound),
                          n \notin DOMAIN route.specs \union {"body", "request_id", "up", "up_filename", "filename"}
                   PROVE  LET sources == Binding!Candidates(request, n)
                          IN  \E i \in {i \in 1..3 : sources[i] # {} /\ \A j \in 1..(i - 1) : sources[j] = {}} :
                                bound.values[n].text \in sources[i]
      BY DEF Binding!BestSourceWins
    <3>2. Undeclared(route, n)
      BY <3>1 DEF Undeclared, Reserved
    <3>3. /\ Binding!Spec1(route, n).source = "query" /\ Binding!Spec1(route, n).external = ""
          /\ Binding!Spec1(route, n).default = "none"
      BY <3>1 DEF Binding!Spec1, Binding!NoSpec
    <3>4. PICK e \in Binding!Found(route, p, n) : bound.values[n].text = e.text
      BY <2>3, <3>3 DEF Origin
    <3>5. n \in DOMAIN p /\ e = p[n]
      <4>1. Lies(route, p, n, e)
        BY FoundIs
      <4> QED
        BY <3>3, <4>1 DEF Lies
    <3>6. Ranked(request, p, n)
      BY <2>2, <3>2 DEF Layered
    <3> QED
      BY <3>4, <3>5, <3>6 DEF Ranked
  <2>7. Binding!DeclarationKept(route, request, bound)
    <3>1. ASSUME NEW n \in Binding!Given(route, bound)
          PROVE  LET spec == Binding!Spec1(route, n)
                     text == bound.values[n].text
                 IN  /\ spec.type = "INTEGER" => text \in {"7", "12", "-3"}
                     /\ spec.type \notin {"INTEGER", "VARCHAR", "VARIANT"} =>
                          /\ route.planned = "INTEGER" => text \in {"7", "12", "-3"}
                          /\ route.planned = "UINTEGER" => text \in {"7", "12"}
                     /\ spec.type = "" /\ route.planned \in {"UNKNOWN", "VARCHAR"} => text # "1.5"
                     /\ \A b \in Binding!Lengths(spec) : Binding!WithinLength(b, Binding!Length[text])
                     /\ \A b \in spec.bounds \ Binding!Lengths(spec) : Binding!Within(b, Binding!Number[text])
      <4> DEFINE spec == Binding!Spec1(route, n)
                 type == Binding!ExpectedType(route, n)
                 text == bound.values[n].text
      <4>1. /\ spec.type \in {"INTEGER", "VARCHAR", "VARIANT"} => type = spec.type
            /\ spec.type \notin {"INTEGER", "VARCHAR", "VARIANT"} => type = route.planned
        BY DEF Binding!ExpectedType, Binding!BinderTypes
      <4>2. /\ type = "INTEGER" => text \in {"7", "12", "-3"}
            /\ type = "UINTEGER" => text \in {"7", "12"}
            /\ type \in {"UNKNOWN", "VARCHAR"} /\ spec.type = "" => text # "1.5"
        BY <2>3, TypedText
      <4>3. /\ \A b \in Binding!Lengths(spec) : Binding!WithinLength(b, Binding!Length[text])
            /\ \A b \in spec.bounds \ Binding!Lengths(spec) : Binding!Within(b, Binding!Number[text])
        BY <2>3, WithinBounds
      <4> HIDE DEF type, spec, text
      <4> QED
        BY <4>1, <4>2, <4>3 DEF spec, text
    <3> QED
      BY <2>4, <3>1 DEF Binding!DeclarationKept, NullsAllowed
  <2> QED
    BY <2>5, <2>6, <2>7 DEF Binding!BoundRight, bound
<1> QED
  BY <1>1, <1>2

-----------------------------------------------------------------------------
(* The decisions, asked one after the other.                               *)

\* What is asked was declared, and the answer is the code's.
DecisionsInv ==
  /\ question # Unasked =>
       \/ /\ question[1] = "route" /\ answer[2] = Routing!HandleRequest(question[2])
          /\ \E s \in Servers, r \in RouteRequests : question[2] = RouteQuestion(s, r)
       \/ /\ question[1] = "coding"
          /\ \E s \in Responses, h \in EncodingHeaders, o \in OtherHeaders : question[2] = CodingQuestion(s, h, o)
          /\ LET q == question[2] IN answer[2] = Wire!MaybeCompressResponse(q.header, q.response, q.options)
       \/ /\ question[1] = "format"
          /\ question[2].header \in AcceptHeaders
          /\ answer[2] = Wire!ResolveBodyFormat(question[2].route, question[2].header)
       \/ /\ question[1] = "ranges" /\ question[2] \in RangeHeaders
          /\ answer[2] = Wire!ApplyResponseAccept(question[2])
       \/ /\ question[1] = "binding" /\ answer[2] = Binding!Bind(setting[2], question[2])
       \/ question[1] = "policy"
  /\ setting[1] = "route" => setting[2] \in Servers
  /\ setting[1] = "coding" => setting[2] \in Responses

LEMMA ReadyInv == Ready => DecisionsInv
  BY DEF Ready, Unasked, DecisionsInv

\* A declaration leaves the question open; an answer leaves what was declared.
LEMMA DeclareInv ==
  ASSUME NEW kind, NEW settings, Declare(kind, settings),
         kind = "route" => settings = Servers, kind = "coding" => settings = Responses
  PROVE  DecisionsInv'
<1>1. question' = Unasked
  BY DEF Declare
<1>2. PICK s \in settings : setting' = <<kind, s>>
  BY DEF Declare
<1>3. setting'[1] = kind /\ setting'[2] = s
  BY <1>2
<1> QED
  BY <1>1, <1>3 DEF DecisionsInv

LEMMA ReplyIs ==
  ASSUME NEW kind, NEW q, NEW a, Reply(kind, q, a)
  PROVE  /\ question'[1] = kind /\ question'[2] = q /\ answer'[2] = a
         /\ setting' = setting
BY DEF Reply

LEMMA AskInv == DecisionsInv /\ [AskRequest]_asked => DecisionsInv'
<1> SUFFICES ASSUME DecisionsInv, [AskRequest]_asked PROVE DecisionsInv'
  OBVIOUS
<1>1. CASE DeclareServer \/ Produce \/ DeclareFormat \/ DeclareParams \/ DeclarePolicies
  BY <1>1, DeclareInv DEF DeclareServer, Produce, DeclareFormat, DeclareParams, DeclarePolicies
<1>2. CASE FindHandler
  <2>1. PICK r \in RouteRequests :
          LET q == RouteQuestion(setting[2], r) IN Reply("route", q, Routing!HandleRequest(q))
    BY <1>2 DEF FindHandler
  <2>2. setting[2] \in Servers
    BY <1>2 DEF FindHandler, Asked, DecisionsInv
  <2> DEFINE q == RouteQuestion(setting[2], r)
  <2>3. /\ question'[1] = "route" /\ question'[2] = q /\ answer'[2] = Routing!HandleRequest(q)
        /\ setting' = setting
    BY <2>1, ReplyIs
  <2>4. \E s \in Servers, x \in RouteRequests : q = RouteQuestion(s, x)
    BY <2>2
  <2> HIDE DEF q
  <2> QED
    BY <2>3, <2>4 DEF DecisionsInv
<1>3. CASE Encode
  <2>1. PICK h \in EncodingHeaders, o \in OtherHeaders :
          LET q == CodingQuestion(setting[2], h, o)
          IN  Reply("coding", q, Wire!MaybeCompressResponse(h, q.response, q.options))
    BY <1>3 DEF Encode
  <2>2. setting[2] \in Responses
    BY <1>3 DEF Encode, Asked, DecisionsInv
  <2> DEFINE q == CodingQuestion(setting[2], h, o)
  <2>3. /\ question'[1] = "coding" /\ question'[2] = q
        /\ answer'[2] = Wire!MaybeCompressResponse(h, q.response, q.options)
        /\ setting' = setting
    BY <2>1, ReplyIs
  <2>4. q.header = h /\ \E s \in Responses, k \in EncodingHeaders, l \in OtherHeaders : q = CodingQuestion(s, k, l)
    BY <2>2 DEF CodingQuestion
  <2> HIDE DEF q
  <2> QED
    BY <2>3, <2>4 DEF DecisionsInv
<1>4. CASE ChooseFormat
  <2>1. PICK h \in AcceptHeaders :
          Reply("format", [route |-> setting[2], header |-> h], Wire!ResolveBodyFormat(setting[2], h))
    BY <1>4 DEF ChooseFormat
  <2> DEFINE q == [route |-> setting[2], header |-> h]
  <2>2. q.route = setting[2] /\ q.header = h
    OBVIOUS
  <2>3. /\ question'[1] = "format" /\ question'[2] = q /\ answer'[2] = Wire!ResolveBodyFormat(setting[2], h)
        /\ setting' = setting
    BY <2>1, ReplyIs
  <2> HIDE DEF q
  <2> QED
    BY <2>2, <2>3 DEF DecisionsInv
<1>5. CASE Fetch
  <2>1. PICK h \in RangeHeaders : Reply("ranges", h, Wire!ApplyResponseAccept(h))
    BY <1>5 DEF Fetch
  <2>2. question'[1] = "ranges" /\ question'[2] = h /\ answer'[2] = Wire!ApplyResponseAccept(h) /\ setting' = setting
    BY <2>1, ReplyIs
  <2> QED
    BY <2>2 DEF DecisionsInv
<1>6. CASE BindParams
  <2>1. PICK r : Reply("binding", r, Binding!Bind(setting[2], r))
    BY <1>6 DEF BindParams
  <2>2. /\ question'[1] = "binding" /\ question'[2] = r /\ answer'[2] = Binding!Bind(setting[2], r)
        /\ setting' = setting
    BY <2>1, ReplyIs
  <2> QED
    BY <2>2 DEF DecisionsInv
<1>7. CASE Rewrite
  <2>1. question'[1] = "policy" /\ setting' = setting
    BY <1>7, ReplyIs DEF Rewrite
  <2> QED
    BY <2>1 DEF DecisionsInv
<1>8. CASE Forget
  BY <1>8 DEF Forget, Unasked, DecisionsInv
<1>9. CASE UNCHANGED asked
  BY <1>9 DEF asked, DecisionsInv
<1> QED
  BY <1>1, <1>2, <1>3, <1>4, <1>5, <1>6, <1>7, <1>8, <1>9 DEF AskRequest

LEMMA DecisionsAlways == RequestsAnswered => []DecisionsInv
<1> QED
  BY ReadyInv, AskInv, PTL DEF RequestsAnswered

\* Whatever is registered and whatever is asked, the methods of an Allow header are served
\* and no others, HEAD mirrors GET, a redirect arrives, the limit put on the body before it
\* is read is the one of the route that answers, and the captures are the path's
\* (HandleRequest, SetRequestPayloadLimit).
THEOREM RequestsRouted == RequestsAnswered => []RoutingConsistent
<1>1. DecisionsInv => RoutingConsistent
  <2> SUFFICES ASSUME DecisionsInv, question[1] = "route"
               PROVE  Routing!Routed(question[2], answer[2])
    BY DEF RoutingConsistent, About
  <2>1. question # Unasked
    BY DEF Unasked
  <2>2. answer[2] = Routing!HandleRequest(question[2]) /\ question[2] \in Questions
    BY <2>1, AskedOf DEF DecisionsInv
  <2> QED
    BY <2>2, AnswersAgree
<1> QED
  BY <1>1, DecisionsAlways, PTL

\* Whatever the headers say, a response has the coding its client weighs most, caches tell
\* two clients apart, the body has the format asked for first, and an outbound request
\* keeps an Accept header that the expected type satisfies (MaybeCompressResponse,
\* ResolveBodyFormat, ApplyResponseAccept).
THEOREM RequestsNegotiated == RequestsAnswered => []NegotiatedBest
<1>1. DecisionsInv => NegotiatedBest
  <2> SUFFICES ASSUME DecisionsInv PROVE NegotiatedBest
    OBVIOUS
  <2>1. ASSUME question[1] = "coding"
        PROVE  Wire!CodingIsBest(question[2], answer[2]) /\ Wire!CacheSafe(question[2], answer[2])
    <3>1. PICK s \in Responses, h \in EncodingHeaders, o \in OtherHeaders :
            /\ question[2] = CodingQuestion(s, h, o)
            /\ LET q == question[2] IN answer[2] = Wire!MaybeCompressResponse(q.header, q.response, q.options)
      <4>1. question # Unasked
        BY <2>1 DEF Unasked
      <4> QED
        BY <2>1, <4>1 DEF DecisionsInv
    <3>2. question[2].response.size \in Int /\ question[2].response.packed \in Int
      BY <3>1, DecisionsAssumption DEF CodingQuestion
    <3> QED
      BY <3>1, <3>2, CodingAlwaysBest, CachesTellApart
  <2>2. ASSUME question[1] = "format"
        PROVE  Wire!FormatIsBest(question[2], answer[2])
    <3>1. /\ question[2].header \in AcceptHeaders
          /\ answer[2] = Wire!ResolveBodyFormat(question[2].route, question[2].header)
      BY <2>2 DEF DecisionsInv, Unasked
    <3>2. Tokens(question[2].header)
      BY <3>1, DecisionsAssumption, HeaderTokens
    <3> QED
      BY <3>1, <3>2, FormatBest
  <2>3. ASSUME question[1] = "ranges"
        PROVE  Wire!ClosestDecides(question[2], answer[2])
    <3>1. question[2] \in RangeHeaders /\ answer[2] = Wire!ApplyResponseAccept(question[2])
      BY <2>3 DEF DecisionsInv, Unasked
    <3>2. Tokens(question[2])
      BY <3>1, DecisionsAssumption, HeaderTokens
    <3> QED
      BY <3>1, <3>2, ClosestWins
  <2> QED
    BY <2>1, <2>2, <2>3 DEF NegotiatedBest, About
<1> QED
  BY <1>1, DecisionsAlways, PTL

\* Whatever is declared and whatever is sent, a parameter is read from its declared source
\* and no other, an undeclared one from the best source there is; what is bound is within
\* its bounds, of its declared type if the binder knows that type, else of the planner's,
\* and with no type declared or expected no number that a cast would round (the binder in
\* HandleRequest).
THEOREM RequestsBound == RequestsAnswered => []ParametersBound
<1>1. DecisionsInv => ParametersBound
  <2> SUFFICES ASSUME DecisionsInv, question[1] = "binding"
               PROVE  Binding!BoundRight(setting[2], question[2], answer[2])
    BY DEF ParametersBound, About
  <2>1. answer[2] = Binding!Bind(setting[2], question[2])
    BY DEF DecisionsInv, Unasked
  <2> QED
    BY <2>1, BindingRight
<1> QED
  BY <1>1, DecisionsAlways, PTL

=============================================================================
