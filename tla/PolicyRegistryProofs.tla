------------------------- MODULE PolicyRegistryProofs -------------------------
(***************************************************************************)
(* Policies, their bindings and the requests rewritten under them, for any *)
(* numbers of policies, spellings, columns and requests, any handlers and  *)
(* any statements meanwhile.                                               *)
(*                                                                         *)
(* The invariant ties each request to its two snapshots: the row bindings  *)
(* held are in the first; the masks held are among the registry's between  *)
(* the snapshots and in the second after it.  The reads already rewritten  *)
(* cover the bindings of the snapshots (Covers), the read being rewritten  *)
(* those already looked at.  That the filter of a read is the row binding  *)
(* held, or one of another spelling, rests on the registry's having one    *)
(* row binding for each spelling (OnePerSpelling).                         *)
(*                                                                         *)
(* The part behind that is about one handler, of any depth, rewritten      *)
(* under one set of policies (PolicyRewrite): what a visit of a tree of n  *)
(* levels leaves (Outcome), from the same of the trees one level less.     *)
(***************************************************************************)
EXTENDS PolicyRegistry, RequestDecisions,
        FiniteSetTheorems, SequenceTheorems, FunctionTheorems, NaturalsInduction, WellFoundedInduction, TLAPS

-----------------------------------------------------------------------------
(* Subsequences, as in RequestPipelineProofs.                              *)

\* How many of the positions I are at most i.
Rank(I, i) == Cardinality({j \in I : j <= i})

LEMMA RankMonotone ==
  ASSUME NEW I, IsFiniteSet(I), I \subseteq Nat, NEW i \in I, NEW j \in I, i < j
  PROVE  Rank(I, i) < Rank(I, j)
<1> DEFINE A == {x \in I : x <= i}
           B == {x \in I : x <= j}
<1>1. A \in SUBSET B /\ B \in SUBSET I /\ j \in B /\ j \notin A
  <2>1. i \in Nat /\ j \in Nat /\ \A x \in I : x \in Nat
    OBVIOUS
  <2>2. ASSUME NEW x \in A PROVE x \in B
    <3>1. x \in I /\ x \in Nat /\ x <= i
      BY <2>1
    <3>2. x <= j
      BY <2>1, <3>1
    <3> QED
      BY <3>1, <3>2
  <2>3. j \in B /\ j \notin A
    BY <2>1
  <2>4. A \subseteq B
    BY <2>2
  <2> QED
    BY <2>3, <2>4
<1>2. IsFiniteSet(B)
  BY <1>1, FS_Subset
<1>3. Cardinality(A) <= Cardinality(B) /\ (Cardinality(B) = Cardinality(A) => B = A) /\ IsFiniteSet(A)
  BY <1>1, <1>2, FS_Subset
<1>4. Cardinality(A) \in Nat /\ Cardinality(B) \in Nat
  BY <1>2, <1>3, FS_CardinalityType
<1>5. Cardinality(A) # Cardinality(B)
  BY <1>1, <1>3
<1> HIDE DEF A, B
<1>6. Cardinality(A) < Cardinality(B)
  BY <1>3, <1>4, <1>5
<1> QED
  BY <1>6 DEF Rank, A, B

LEMMA RankRange ==
  ASSUME NEW I, IsFiniteSet(I), I \subseteq Nat, NEW i \in I
  PROVE  Rank(I, i) \in 1..Cardinality(I)
<1> DEFINE A == {x \in I : x <= i}
<1>1. A \in SUBSET I /\ i \in A
  OBVIOUS
<1>2. IsFiniteSet(A) /\ Cardinality(A) <= Cardinality(I)
  BY <1>1, FS_Subset
<1>3. Cardinality(A) \in Nat /\ Cardinality(A) # 0 /\ Cardinality(I) \in Nat
  BY <1>1, <1>2, FS_CardinalityType, FS_EmptySet
<1> HIDE DEF A
<1>4. Cardinality(A) \in 1..Cardinality(I)
  BY <1>2, <1>3
<1> QED
  BY <1>4 DEF Rank, A

\* Nth enumerates the positions in increasing order.
LEMMA NthEnumerates ==
  ASSUME NEW I, IsFiniteSet(I), I \subseteq Nat
  PROVE  /\ Cardinality(I) \in Nat
         /\ \A k \in 1..Cardinality(I) : Nth(I, k) \in I
         /\ \A i \in I : \E k \in 1..Cardinality(I) : Nth(I, k) = i
         /\ \A k, l \in 1..Cardinality(I) : k < l => Nth(I, k) < Nth(I, l)
<1> DEFINE n == Cardinality(I)
           f == [i \in I |-> Rank(I, i)]
<1>1. n \in Nat /\ IsFiniteSet(1..n) /\ Cardinality(1..n) = n
  <2>1. n \in Nat
    BY FS_CardinalityType
  <2> HIDE DEF n
  <2>2. IsFiniteSet(1..n) /\ Cardinality(1..n) = IF 1 > n THEN 0 ELSE n - 1 + 1
    BY <2>1, FS_Interval
  <2> QED
    BY <2>1, <2>2
<1>2. \A i, j \in I : Rank(I, i) = Rank(I, j) => i = j
  <2> SUFFICES ASSUME NEW i \in I, NEW j \in I, Rank(I, i) = Rank(I, j), i # j PROVE FALSE
    OBVIOUS
  <2>1. Rank(I, i) \in Nat /\ Rank(I, j) \in Nat
    <3>1. Rank(I, i) \in 1..n /\ Rank(I, j) \in 1..n
      BY RankRange
    <3> HIDE DEF n
    <3> QED
      BY <1>1, <3>1
  <2>2. i < j \/ j < i
    OBVIOUS
  <2>3. Rank(I, i) < Rank(I, j) \/ Rank(I, j) < Rank(I, i)
    BY <2>2, RankMonotone
  <2> QED
    BY <2>1, <2>3
<1>3. f \in [I -> 1..n] /\ IsInjective(f)
  BY <1>2, RankRange DEF IsInjective
<1>4. f \in Surjection(I, 1..n)
  <2>1. f \in Injection(I, 1..n)
    BY <1>3 DEF Injection
  <2> HIDE DEF f, n
  <2>2. Cardinality(I) = Cardinality(1..n) <=> f \in Surjection(I, 1..n)
    BY <1>1, <2>1, FS_Injection
  <2> QED
    BY <1>1, <2>2 DEF n
<1>5. \A k \in 1..n : \E i \in I : Rank(I, i) = k
  BY <1>4 DEF Surjection
<1>6. \A k \in 1..n : Nth(I, k) \in I /\ Rank(I, Nth(I, k)) = k
  BY <1>5 DEF Nth, Rank
<1>7. ASSUME NEW i \in I PROVE \E k \in 1..n : Nth(I, k) = i
  <2>1. Rank(I, i) \in 1..n
    BY RankRange
  <2> QED
    BY <2>1, <1>2, <1>6
<1>8. ASSUME NEW k \in 1..n, NEW l \in 1..n, k < l PROVE Nth(I, k) < Nth(I, l)
  <2>1. Nth(I, k) \in I /\ Nth(I, l) \in I /\ Rank(I, Nth(I, k)) = k /\ Rank(I, Nth(I, l)) = l
    BY <1>6
  <2>2. Nth(I, k) \in Nat /\ Nth(I, l) \in Nat
    BY <2>1
  <2>3. Nth(I, l) < Nth(I, k) => l < k
    BY <2>1, RankMonotone
  <2>4. k \in Nat /\ l \in Nat
    OBVIOUS
  <2>5. Nth(I, k) # Nth(I, l)
    BY <1>8, <2>1, <2>4
  <2>6. ~(Nth(I, l) < Nth(I, k))
    BY <1>8, <2>3, <2>4
  <2> QED
    BY <2>2, <2>5, <2>6
<1> QED
  BY <1>1, <1>6, <1>7, <1>8

LEMMA KeptElements ==
  ASSUME NEW S, NEW s \in Seq(S), NEW I \in SUBSET (1..Len(s))
  PROVE  /\ Kept(s, I) \in Seq(S)
         /\ \A k \in 1..Len(Kept(s, I)) : Nth(I, k) \in I /\ Kept(s, I)[k] = s[Nth(I, k)]
         /\ \A i \in I : \E k \in 1..Len(Kept(s, I)) : Kept(s, I)[k] = s[i]
         /\ \A k, l \in 1..Len(Kept(s, I)) : k < l => Nth(I, k) < Nth(I, l)
<1> DEFINE n == Cardinality(I)
           t == Kept(s, I)
<1>1. IsFiniteSet(I) /\ I \subseteq Nat
  <2> DEFINE m == Len(s)
  <2>1. m \in Nat
    OBVIOUS
  <2> HIDE DEF m
  <2>2. IsFiniteSet(1..m) /\ 1..m \subseteq Nat
    BY <2>1, FS_Interval
  <2> QED
    BY <2>2, FS_Subset DEF m
<1>2. /\ n \in Nat
      /\ \A k \in 1..n : Nth(I, k) \in I
      /\ \A i \in I : \E k \in 1..n : Nth(I, k) = i
      /\ \A k, l \in 1..n : k < l => Nth(I, k) < Nth(I, l)
  BY <1>1, NthEnumerates
<1> HIDE DEF n
<1>3. t = [k \in 1..n |-> s[Nth(I, k)]]
  BY DEF Kept, n
<1>4. \A k \in 1..n : s[Nth(I, k)] \in S
  <2>1. \A i \in I : s[i] \in S
    OBVIOUS
  <2> QED
    BY <1>2, <2>1
<1>5. t \in [1..n -> S]
  BY <1>3, <1>4
<1>6. \A k \in 1..n : t[k] = s[Nth(I, k)]
  BY <1>3
<1> HIDE DEF t
<1>7. t \in Seq(S) /\ Len(t) = n
  BY <1>2, <1>5
<1>8. \A i \in I : \E k \in 1..n : t[k] = s[i]
  BY <1>2, <1>6
<1> QED
  BY <1>2, <1>6, <1>7, <1>8 DEF t

\* erase(it): the elements but one, in their order.
LEMMA RemoveAtElements ==
  ASSUME NEW S, NEW s \in Seq(S), NEW i \in 1..Len(s)
  PROVE  /\ RemoveAt(s, i) \in Seq(S) /\ Len(RemoveAt(s, i)) = Len(s) - 1
         /\ \A k \in 1..(Len(s) - 1) : RemoveAt(s, i)[k] = IF k < i THEN s[k] ELSE s[k + 1]
<1> DEFINE n == Len(s)
           a == SubSeq(s, 1, i - 1)
           b == SubSeq(s, i + 1, n)
<1>1. n \in Nat /\ i \in Int /\ i >= 1 /\ i <= n /\ i - 1 \in Int /\ i + 1 \in Int /\ n \in Int
      /\ \A k \in 1..n : s[k] \in S
  OBVIOUS
<1>2. RemoveAt(s, i) = a \o b
  BY DEF RemoveAt
<1> HIDE DEF n
<1>3. /\ a \in Seq(S) /\ Len(a) = i - 1
      /\ \A k \in 1..(i - 1) : a[k] = s[k]
  <2> DEFINE m == i - 1
  <2>1. m \in Int /\ \A k \in 1..m : s[k] \in S
    BY <1>1
  <2>2. a = SubSeq(s, 1, m)
    OBVIOUS
  <2> HIDE DEF m, a
  <2>3. /\ a \in Seq(S) /\ Len(a) = IF 1 <= m THEN m - 1 + 1 ELSE 0
        /\ \A k \in 1..(m - 1 + 1) : a[k] = s[1 + k - 1]
    BY <2>1, <2>2, SubSeqProperties
  <2>4. m \in Nat /\ m - 1 + 1 = m
    BY <1>1, <2>1 DEF m
  <2>5. Len(a) = m /\ \A k \in 1..m : a[k] = s[k]
    <3>1. \A k \in 1..m : 1 + k - 1 = k
      BY <2>4
    <3> QED
      BY <2>3, <2>4, <3>1
  <2> QED
    BY <2>3, <2>5 DEF m
<1>4. /\ b \in Seq(S) /\ Len(b) = n - i
      /\ \A k \in 1..(n - i) : b[k] = s[i + k]
  <2> DEFINE m == i + 1
  <2>1. m \in Int /\ n \in Int /\ \A k \in m..n : s[k] \in S
    BY <1>1
  <2>2. b = SubSeq(s, m, n)
    OBVIOUS
  <2> HIDE DEF m, b
  <2>3. /\ b \in Seq(S) /\ Len(b) = IF m <= n THEN n - m + 1 ELSE 0
        /\ \A k \in 1..(n - m + 1) : b[k] = s[m + k - 1]
    BY <2>1, <2>2, SubSeqProperties
  <2>4. n - m + 1 = n - i /\ n - i \in Nat /\ (m <= n \/ n - i = 0)
    BY <1>1 DEF m
  <2>5. \A k \in 1..(n - i) : m + k - 1 = i + k
    BY <1>1 DEF m
  <2> QED
    BY <2>3, <2>4, <2>5
<1> HIDE DEF a, b
<1>5. /\ a \o b \in Seq(S) /\ Len(a \o b) = Len(a) + Len(b)
      /\ \A k \in 1..(Len(a) + Len(b)) : (a \o b)[k] = IF k <= Len(a) THEN a[k] ELSE b[k - Len(a)]
  BY <1>3, <1>4, ConcatProperties, ZenonT(40)
<1>6. Len(a) + Len(b) = n - 1
  BY <1>1, <1>3, <1>4
<1>7. ASSUME NEW k \in 1..(n - 1) PROVE (a \o b)[k] = IF k < i THEN s[k] ELSE s[k + 1]
  <2>1. (a \o b)[k] = IF k <= i - 1 THEN a[k] ELSE b[k - (i - 1)]
    BY <1>3, <1>5, <1>6
  <2>2. CASE k < i
    <3>1. k <= i - 1 /\ k \in 1..(i - 1)
      BY <1>1, <2>2
    <3> QED
      BY <1>3, <2>1, <2>2, <3>1
  <2>3. CASE ~(k < i)
    <3>1. k - (i - 1) \in 1..(n - i) /\ i + (k - (i - 1)) = k + 1 /\ ~(k <= i - 1)
      BY <1>1, <2>3
    <3>2. b[k - (i - 1)] = s[i + (k - (i - 1))]
      BY <1>4, <3>1
    <3> QED
      BY <2>1, <2>3, <3>1, <3>2
  <2> QED
    BY <2>2, <2>3
<1> QED
  BY <1>2, <1>5, <1>6, <1>7 DEF n

\* The least of some positions.
LEMMA MinIndex ==
  ASSUME NEW I, IsFiniteSet(I), I \subseteq Nat, I # {}
  PROVE  Min(I) \in I /\ \A j \in I : Min(I) <= j
<1>1. /\ Cardinality(I) \in Nat
      /\ \A k \in 1..Cardinality(I) : Nth(I, k) \in I
      /\ \A i \in I : \E k \in 1..Cardinality(I) : Nth(I, k) = i
      /\ \A k, l \in 1..Cardinality(I) : k < l => Nth(I, k) < Nth(I, l)
  BY NthEnumerates
<1>2. 1 \in 1..Cardinality(I)
  <2> DEFINE n == Cardinality(I)
  <2>1. PICK i \in I : TRUE
    OBVIOUS
  <2>2. PICK k \in 1..n : Nth(I, k) = i
    BY <1>1
  <2>3. n \in Nat
    BY <1>1
  <2> HIDE DEF n
  <2>4. 1 \in 1..n
    BY <2>2, <2>3
  <2> QED
    BY <2>4 DEF n
<1>3. ASSUME NEW j \in I PROVE Nth(I, 1) <= j
  <2>1. PICK k \in 1..Cardinality(I) : Nth(I, k) = j
    BY <1>1
  <2>2. Nth(I, 1) \in Nat /\ j \in Nat
    BY <1>1, <1>2
  <2> QED
    BY <1>1, <1>2, <2>1, <2>2
<1>4. \E x \in I : \A j \in I : x <= j
  BY <1>1, <1>2, <1>3
<1> QED
  BY <1>4 DEF Min

\* SelectInSeq, once its positions are known.
LEMMA FirstPosition ==
  ASSUME NEW n \in Nat, NEW I \in SUBSET (1..n)
  PROVE  LET i == IF I # {} THEN Min(I) ELSE 0
         IN /\ i # 0 <=> I # {}
            /\ i # 0 => i \in I
<1>1. IsFiniteSet(1..n) /\ 1..n \subseteq Nat /\ 0 \notin 1..n
  BY FS_Interval
<1>2. IsFiniteSet(I) /\ I \subseteq Nat /\ 0 \notin I
  BY <1>1, FS_Subset
<1> QED
  BY <1>2, MinIndex

-----------------------------------------------------------------------------
(* The invariant.                                                          *)

RowBinding == [table : Spellings, policy : Names, cols : Arities]
MaskBinding == [table : Spellings, column : Columns, policy : Names]
Read == [table : Tables, filter : RowBinding \cup {None}, masked : SUBSET MaskBinding]
Labels == {"idle", "rows", "plain", "denied", "visit", "filter", "mask", "rewritten"}
RequestType ==
  [at : Labels, kind : {"route", "exec"}, authenticated : BOOLEAN, rows : Seq(RowBinding),
   masks : Seq(MaskBinding), todo : Seq(Tables), filter : RowBinding \cup {None}, masked : SUBSET MaskBinding,
   next : Nat, reads : Seq(Read), heldRows : SUBSET RowBinding, heldMasks : SUBSET MaskBinding]

\* One row binding for each spelling of a table.
OnePerSpelling(rowBinds) ==
  \A i, j \in 1..Len(rowBinds) : rowBinds[i].table = rowBinds[j].table => i = j

\* The registry of a statement.
RegistryOK(rows, masks, rowBinds, maskBinds) ==
  /\ rowBinds \in Seq(RowBinding) /\ maskBinds \in Seq(MaskBinding)
  /\ OnePerSpelling(rowBinds)
  /\ \A b \in Range(rowBinds) : b.policy \in DOMAIN rows
  /\ \A b \in Range(maskBinds) : b.policy \in masks
  /\ DOMAIN rows \cap masks = {}

\* The filter of table t, if some row binding names it, is one that does.
Filters(rows, t, filter) ==
  \A b \in Range(rows) : BoundTo(b, t) => filter \in Range(rows) /\ BoundTo(filter, t)

\* A read of table t with its filter and its masks.
Covers(rows, masks, t, filter, masked) ==
  /\ Filters(rows, t, filter)
  /\ \A b \in Range(masks) : BoundTo(b, t) => b \in masked

Rewriting == {"visit", "filter", "mask", "rewritten"}

\* What request q may count on while the masks of the registry are maskBinds.
RequestOK(q, maskBinds) ==
  /\ q \in RequestType
  /\ OnePerSpelling(q.rows)
  /\ q.at \in {"rows", "plain"} \cup Rewriting => q.heldRows \subseteq Range(q.rows)
  /\ q.at = "rows" => q.heldMasks \subseteq Range(maskBinds)
  /\ q.at \in {"plain"} \cup Rewriting => q.heldMasks \subseteq Range(q.masks)
  /\ q.at = "plain" => q.rows = <<>> /\ q.masks = <<>>
  /\ q.at \in Rewriting => \A read \in Range(q.reads) : Covers(q.rows, q.masks, read.table, read.filter, read.masked)
  /\ q.at \in {"visit", "filter", "rows"} => q.masked = {} /\ q.next = 1
  /\ q.at \in {"visit", "rows"} => q.filter = None
  /\ q.at = "rows" => q.reads = <<>>
  /\ q.at \in {"filter", "mask"} => q.todo # <<>> /\ Filters(q.rows, Head(q.todo), q.filter)
  /\ q.at = "mask" =>
       /\ \A i \in 1..Len(q.masks) :
            i < q.next /\ BoundTo(q.masks[i], Head(q.todo)) => q.masks[i] \in q.masked

Inv ==
  /\ RegistryOK(rowPolicies, maskPolicies, rowBindings, maskBindings)
  /\ request \in [Requests -> RequestType]
  /\ \A r \in Requests : RequestOK(request[r], maskBindings)

-----------------------------------------------------------------------------
(* Statements.                                                             *)

LEMMA ApplyInv ==
  ASSUME Inv, NEW rows, NEW masks, NEW rowBinds, NEW maskBinds,
         RegistryOK(rows, masks, rowBinds, maskBinds), Apply(rows, masks, rowBinds, maskBinds)
  PROVE  Inv'
<1>1. rowPolicies' = rows /\ maskPolicies' = masks /\ rowBindings' = rowBinds /\ maskBindings' = maskBinds
  BY DEF Apply
<1>2. ASSUME NEW r \in Requests
      PROVE  request'[r] \in RequestType /\ RequestOK(request'[r], maskBinds)
  <2> DEFINE q == request[r]
             heldRows == q.heldRows \cap Range(rowBinds)
             heldMasks == q.heldMasks \cap Range(maskBinds)
             p == [q EXCEPT !.heldRows = heldRows, !.heldMasks = heldMasks]
  <2>1. request'[r] = p
    BY DEF Apply
  <2>2. q \in RequestType /\ RequestOK(q, maskBindings)
    BY DEF Inv
  <2>3. /\ heldRows \subseteq q.heldRows /\ heldRows \in SUBSET RowBinding
        /\ heldMasks \subseteq q.heldMasks /\ heldMasks \in SUBSET MaskBinding
        /\ heldMasks \subseteq Range(maskBinds)
    BY <2>2 DEF RequestType
  <2> HIDE DEF heldRows, heldMasks
  <2>4. /\ p \in RequestType /\ p.at = q.at /\ p.rows = q.rows /\ p.masks = q.masks /\ p.todo = q.todo
        /\ p.filter = q.filter /\ p.masked = q.masked /\ p.next = q.next /\ p.reads = q.reads
        /\ p.heldRows = heldRows /\ p.heldMasks = heldMasks
    BY <2>2, <2>3 DEF RequestType
  <2> HIDE DEF p, q
  <2>5. RequestOK(p, maskBinds)
    BY <2>2, <2>3, <2>4 DEF RequestOK
  <2> QED
    BY <2>1, <2>4, <2>5
<1>3. request' \in [Requests -> RequestType]
  <2>1. request' = [r \in Requests |-> request'[r]]
    BY DEF Apply
  <2> QED
    BY <1>2, <2>1
<1> QED
  BY <1>1, <1>2, <1>3 DEF Inv

\* What a vector holds, element by element.
LEMMA VectorElements ==
  ASSUME NEW S, NEW s \in Seq(S)
  PROVE  /\ DOMAIN s = 1..Len(s)
         /\ \A b : b \in Range(s) <=> \E i \in 1..Len(s) : b = s[i]
         /\ \A b \in Range(s) : b \in S
         /\ \A i \in 1..Len(s) : s[i] \in Range(s)
<1>1. DOMAIN s = 1..Len(s) /\ s \in [1..Len(s) -> S]
  BY LenProperties
<1>2. \A i \in 1..Len(s) : s[i] \in S
  BY <1>1
<1> QED
  BY <1>1, <1>2 DEF Range

\* A binding replaced in place or added at the end.
LEMMA ElementsBound ==
  ASSUME NEW S, NEW s \in Seq(S), NEW b \in S, NEW same \in {0} \cup 1..Len(s)
  PROVE  LET t == IF same = 0 THEN Append(s, b) ELSE [s EXCEPT ![same] = b]
         IN t \in Seq(S) /\ \A x \in Range(t) : x = b \/ x \in Range(s)
<1> DEFINE n == Len(s)
           t == IF same = 0 THEN Append(s, b) ELSE [s EXCEPT ![same] = b]
<1>1. n \in Nat /\ \A i \in 1..n : s[i] \in Range(s)
  BY VectorElements
<1>2. CASE same = 0
  <2>1. /\ Append(s, b) \in Seq(S) /\ Len(Append(s, b)) = Len(s) + 1
        /\ \A i \in 1..Len(s) : Append(s, b)[i] = s[i]
        /\ Append(s, b)[Len(s) + 1] = b
    BY AppendProperties
  <2>2. t = Append(s, b)
    BY <1>2
  <2>3. t \in Seq(S) /\ Len(t) = n + 1 /\ (\A i \in 1..n : t[i] = s[i]) /\ t[n + 1] = b
    BY <2>1, <2>2
  <2> HIDE DEF t, n
  <2>4. ASSUME NEW x \in Range(t) PROVE x = b \/ x \in Range(s)
    <3>1. PICK i \in 1..Len(t) : x = t[i]
      BY <2>3, VectorElements
    <3>2. i \in 1..n \/ i = n + 1
      BY <1>1, <2>3
    <3> QED
      BY <1>1, <2>3, <3>1, <3>2
  <2> QED
    BY <2>3, <2>4 DEF t
<1>3. CASE same # 0
  <2>1. t = [s EXCEPT ![same] = b] /\ same \in 1..n
    BY <1>3
  <2>2. t \in Seq(S) /\ Len(t) = n /\ \A i \in 1..n : t[i] = IF i = same THEN b ELSE s[i]
    BY <2>1, ExceptSeq
  <2> HIDE DEF t, n
  <2>3. ASSUME NEW x \in Range(t) PROVE x = b \/ x \in Range(s)
    <3>1. PICK i \in 1..Len(t) : x = t[i]
      BY <2>2, VectorElements
    <3> QED
      BY <1>1, <2>2, <3>1
  <2> QED
    BY <2>2, <2>3 DEF t
<1> QED
  BY <1>2, <1>3

\* A binding erased.
LEMMA ElementsRemoved ==
  ASSUME NEW S, NEW s \in Seq(S), NEW i \in 1..Len(s)
  PROVE  RemoveAt(s, i) \in Seq(S) /\ Range(RemoveAt(s, i)) \subseteq Range(s)
<1> DEFINE n == Len(s)
           t == RemoveAt(s, i)
<1>1. n \in Nat /\ \A k \in 1..n : s[k] \in Range(s)
  BY VectorElements
<1>2. t \in Seq(S) /\ Len(t) = n - 1 /\ \A k \in 1..(n - 1) : t[k] = IF k < i THEN s[k] ELSE s[k + 1]
  BY RemoveAtElements
<1> HIDE DEF t, n
<1>3. ASSUME NEW x \in Range(t) PROVE x \in Range(s)
  <2>1. PICK k \in 1..Len(t) : x = t[k]
    BY <1>2, VectorElements
  <2>2. k \in 1..(n - 1) /\ k \in 1..n /\ k + 1 \in 1..n
    BY <1>1, <1>2
  <2>3. x = s[k] \/ x = s[k + 1]
    BY <1>2, <2>1, <2>2
  <2> QED
    BY <1>1, <2>2, <2>3
<1> QED
  BY <1>2, <1>3 DEF t

\* The bindings of a dropped policy are gone.
LEMMA ElementsUnbound ==
  ASSUME NEW S, NEW s \in Seq(S), NEW n
  PROVE  Unbound(n, s) \in Seq(S) /\ \A b \in Range(Unbound(n, s)) : b \in Range(s) /\ b.policy # n
<1> DEFINE I == {i \in 1..Len(s) : s[i].policy # n}
           t == Kept(s, I)
<1>1. Unbound(n, s) = t
  BY VectorElements DEF Unbound
<1>2. t \in Seq(S) /\ \A k \in 1..Len(t) : Nth(I, k) \in I /\ t[k] = s[Nth(I, k)]
  <2>1. I \in SUBSET (1..Len(s))
    OBVIOUS
  <2> HIDE DEF I
  <2> QED
    BY <2>1, KeptElements
<1> HIDE DEF t
<1>3. ASSUME NEW b \in Range(t) PROVE b \in Range(s) /\ b.policy # n
  <2>1. PICK k \in 1..Len(t) : b = t[k]
    BY <1>2, VectorElements
  <2>2. PICK i \in I : b = s[i]
    BY <1>2, <2>1
  <2> QED
    BY <2>2, VectorElements
<1> QED
  BY <1>1, <1>2, <1>3

\* A binding replaced in place, or added where its spelling has none.
LEMMA SpellingBound ==
  ASSUME NEW s \in Seq(RowBinding), OnePerSpelling(s), NEW b \in RowBinding,
         NEW same \in {0} \cup 1..Len(s),
         same = 0 => \A i \in 1..Len(s) : s[i].table # b.table,
         same # 0 => s[same].table = b.table
  PROVE  OnePerSpelling(IF same = 0 THEN Append(s, b) ELSE [s EXCEPT ![same] = b])
<1> DEFINE n == Len(s)
           t == IF same = 0 THEN Append(s, b) ELSE [s EXCEPT ![same] = b]
<1>1. n \in Nat /\ \A i, j \in 1..n : s[i].table = s[j].table => i = j
  BY DEF OnePerSpelling
<1>2. CASE same = 0
  <2>1. Len(t) = n + 1 /\ (\A i \in 1..n : t[i] = s[i]) /\ t[n + 1] = b
    BY <1>2, AppendProperties
  <2> HIDE DEF t, n
  <2>2. \A i \in 1..(n + 1) : i \in 1..n \/ i = n + 1
    BY <1>1
  <2>3. \A i \in 1..n : t[i].table # b.table
    BY <1>2, <2>1 DEF n
  <2>4. \A i, j \in 1..Len(t) : t[i].table = t[j].table => i = j
    BY <1>1, <2>1, <2>2, <2>3
  <2> QED
    BY <2>4 DEF OnePerSpelling, t
<1>3. CASE same # 0
  <2>1. t = [s EXCEPT ![same] = b] /\ same \in 1..n
    BY <1>3
  <2>2. Len(t) = n /\ \A i \in 1..n : t[i] = IF i = same THEN b ELSE s[i]
    BY <2>1, ExceptSeq
  <2> HIDE DEF t, n
  <2>3. \A i \in 1..n : t[i].table = s[i].table
    BY <1>3, <2>2
  <2>4. \A i, j \in 1..Len(t) : t[i].table = t[j].table => i = j
    BY <1>1, <2>2, <2>3
  <2> QED
    BY <2>4 DEF OnePerSpelling, t
<1> QED
  BY <1>2, <1>3

LEMMA SpellingRemoved ==
  ASSUME NEW s \in Seq(RowBinding), OnePerSpelling(s), NEW i \in 1..Len(s)
  PROVE  OnePerSpelling(RemoveAt(s, i))
<1> DEFINE n == Len(s)
           t == RemoveAt(s, i)
           at(k) == IF k < i THEN k ELSE k + 1
<1>1. n \in Nat /\ i \in Nat /\ \A k, l \in 1..n : s[k].table = s[l].table => k = l
  BY DEF OnePerSpelling
<1>2. Len(t) = n - 1 /\ \A k \in 1..(n - 1) : t[k] = IF k < i THEN s[k] ELSE s[k + 1]
  BY RemoveAtElements
<1> HIDE DEF t, n
<1>3. \A k \in 1..(n - 1) : at(k) \in 1..n /\ t[k] = s[at(k)]
  BY <1>1, <1>2
<1>4. \A k, l \in 1..(n - 1) : at(k) = at(l) => k = l
  BY <1>1
<1> HIDE DEF at
<1>5. ASSUME NEW k \in 1..Len(t), NEW l \in 1..Len(t), t[k].table = t[l].table PROVE k = l
  <2>1. k \in 1..(n - 1) /\ l \in 1..(n - 1)
    BY <1>2
  <2>2. s[at(k)].table = s[at(l)].table /\ at(k) \in 1..n /\ at(l) \in 1..n
    BY <1>3, <1>5, <2>1
  <2> QED
    BY <1>1, <1>4, <2>1, <2>2
<1> QED
  BY <1>5 DEF OnePerSpelling, t

LEMMA SpellingUnbound ==
  ASSUME NEW s \in Seq(RowBinding), OnePerSpelling(s), NEW n
  PROVE  OnePerSpelling(Unbound(n, s))
<1> DEFINE I == {i \in 1..Len(s) : s[i].policy # n}
           t == Kept(s, I)
<1>1. Unbound(n, s) = t
  BY VectorElements DEF Unbound
<1>2. I \in SUBSET (1..Len(s)) /\ Len(s) \in Nat
  OBVIOUS
<1> HIDE DEF I
<1>3. /\ t \in Seq(RowBinding)
      /\ \A k \in 1..Len(t) : Nth(I, k) \in I /\ t[k] = s[Nth(I, k)]
      /\ \A k, l \in 1..Len(t) : k < l => Nth(I, k) < Nth(I, l)
  BY <1>2, KeptElements
<1> HIDE DEF t
<1>4. ASSUME NEW k \in 1..Len(t), NEW l \in 1..Len(t), t[k].table = t[l].table PROVE k = l
  <2>1. Nth(I, k) \in 1..Len(s) /\ Nth(I, l) \in 1..Len(s)
    BY <1>2, <1>3
  <2>2. Nth(I, k) = Nth(I, l)
    BY <1>3, <1>4, <2>1 DEF OnePerSpelling
  <2>3. ~(k < l) /\ ~(l < k)
    BY <1>2, <1>3, <2>1, <2>2
  <2> QED
    BY <2>3
<1> QED
  BY <1>1, <1>4 DEF OnePerSpelling

LEMMA AddRowAccessPolicyInv ==
  ASSUME Inv, NEW n \in Names, NEW args \in Arities, NEW or_replace \in BOOLEAN,
         AddRowAccessPolicy(n, args, or_replace)
  PROVE  Inv'
<1> DEFINE rows == [x \in DOMAIN rowPolicies \cup {n} |-> IF x = n THEN args ELSE rowPolicies[x]]
<1>1. DOMAIN rows = DOMAIN rowPolicies \cup {n} /\ Apply(rows, maskPolicies, rowBindings, maskBindings)
  BY DEF AddRowAccessPolicy
<1>2. n \notin maskPolicies
  BY DEF AddRowAccessPolicy, Inv, RegistryOK
<1> HIDE DEF rows
<1>3. RegistryOK(rows, maskPolicies, rowBindings, maskBindings)
  BY <1>1, <1>2 DEF Inv, RegistryOK
<1> QED
  BY <1>1, <1>3, ApplyInv

LEMMA AddMaskingPolicyInv ==
  ASSUME Inv, NEW n \in Names, NEW or_replace \in BOOLEAN, AddMaskingPolicy(n, or_replace)
  PROVE  Inv'
<1>1. n \notin DOMAIN rowPolicies /\ Apply(rowPolicies, maskPolicies \cup {n}, rowBindings, maskBindings)
  BY DEF AddMaskingPolicy, Inv, RegistryOK
<1>2. RegistryOK(rowPolicies, maskPolicies \cup {n}, rowBindings, maskBindings)
  BY <1>1 DEF Inv, RegistryOK
<1> QED
  BY <1>1, <1>2, ApplyInv

LEMMA DropRowAccessPolicyInv ==
  ASSUME Inv, NEW n \in Names, DropRowAccessPolicy(n)
  PROVE  Inv'
<1> DEFINE rows == Without(rowPolicies, n)
           binds == Unbound(n, rowBindings)
<1>1. DOMAIN rows = DOMAIN rowPolicies \ {n} /\ Apply(rows, maskPolicies, binds, maskBindings)
  BY DEF DropRowAccessPolicy, Without, Restrict
<1>2. binds \in Seq(RowBinding) /\ \A b \in Range(binds) : b \in Range(rowBindings) /\ b.policy # n
  BY ElementsUnbound DEF Inv, RegistryOK
<1>3. OnePerSpelling(binds)
  BY SpellingUnbound DEF Inv, RegistryOK
<1> HIDE DEF rows, binds
<1>4. RegistryOK(rows, maskPolicies, binds, maskBindings)
  BY <1>1, <1>2, <1>3 DEF Inv, RegistryOK
<1> QED
  BY <1>1, <1>4, ApplyInv

LEMMA DropMaskingPolicyInv ==
  ASSUME Inv, NEW n \in Names, DropMaskingPolicy(n)
  PROVE  Inv'
<1> DEFINE binds == Unbound(n, maskBindings)
<1>1. Apply(rowPolicies, maskPolicies \ {n}, rowBindings, binds)
  BY DEF DropMaskingPolicy
<1>2. binds \in Seq(MaskBinding) /\ \A b \in Range(binds) : b \in Range(maskBindings) /\ b.policy # n
  BY ElementsUnbound DEF Inv, RegistryOK
<1> HIDE DEF binds
<1>3. RegistryOK(rowPolicies, maskPolicies \ {n}, rowBindings, binds)
  BY <1>2 DEF Inv, RegistryOK
<1> QED
  BY <1>1, <1>3, ApplyInv

LEMMA BindRowAccessPolicyInv ==
  ASSUME Inv, NEW t \in Spellings, NEW n \in Names, NEW cols \in Arities, NEW or_replace \in BOOLEAN,
         BindRowAccessPolicy(t, n, cols, or_replace)
  PROVE  Inv'
<1> DEFINE b == [table |-> t, policy |-> n, cols |-> cols]
           I == {i \in 1..Len(rowBindings) : rowBindings[i].table = t}
           same == IF I # {} THEN Min(I) ELSE 0
           binds == IF same = 0 THEN Append(rowBindings, b) ELSE [rowBindings EXCEPT ![same] = b]
<1>1. n \in DOMAIN rowPolicies /\ Apply(rowPolicies, maskPolicies, binds, maskBindings)
  BY DEF BindRowAccessPolicy, SelectInSeq
<1>2. rowBindings \in Seq(RowBinding) /\ Len(rowBindings) \in Nat /\ OnePerSpelling(rowBindings)
  BY DEF Inv, RegistryOK
<1>3. b \in RowBinding /\ b.policy = n /\ b.table = t
  BY DEF RowBinding
<1>4. /\ same \in {0} \cup 1..Len(rowBindings)
      /\ same = 0 => \A i \in 1..Len(rowBindings) : rowBindings[i].table # t
      /\ same # 0 => rowBindings[same].table = t
  <2>1. I \in SUBSET (1..Len(rowBindings))
    OBVIOUS
  <2>2. \A i \in 1..Len(rowBindings) : i \in I <=> rowBindings[i].table = t
    OBVIOUS
  <2> HIDE DEF I
  <2>3. (same # 0 <=> I # {}) /\ (same # 0 => same \in I)
    BY <1>2, <2>1, FirstPosition
  <2> HIDE DEF same
  <2> QED
    BY <2>1, <2>2, <2>3
<1> HIDE DEF b, I, same
<1>5. binds \in Seq(RowBinding) /\ \A x \in Range(binds) : x = b \/ x \in Range(rowBindings)
  BY <1>2, <1>3, <1>4, ElementsBound
<1>6. OnePerSpelling(binds)
  BY <1>2, <1>3, <1>4, SpellingBound
<1> HIDE DEF binds
<1>7. RegistryOK(rowPolicies, maskPolicies, binds, maskBindings)
  BY <1>1, <1>3, <1>5, <1>6 DEF Inv, RegistryOK
<1> QED
  BY <1>1, <1>7, ApplyInv

LEMMA UnbindRowAccessPolicyInv ==
  ASSUME Inv, NEW t \in Spellings, NEW n \in Names, UnbindRowAccessPolicy(t, n)
  PROVE  Inv'
<1> DEFINE I == {i \in 1..Len(rowBindings) : rowBindings[i].table = t /\ rowBindings[i].policy = n}
           i == IF I # {} THEN Min(I) ELSE 0
           binds == RemoveAt(rowBindings, i)
<1>1. i # 0 /\ Apply(rowPolicies, maskPolicies, binds, maskBindings)
  BY DEF UnbindRowAccessPolicy, SelectInSeq
<1>2. rowBindings \in Seq(RowBinding) /\ Len(rowBindings) \in Nat
  BY DEF Inv, RegistryOK
<1>3. i \in 1..Len(rowBindings)
  <2>1. I \in SUBSET (1..Len(rowBindings))
    OBVIOUS
  <2> HIDE DEF I
  <2>2. (i # 0 <=> I # {}) /\ (i # 0 => i \in I)
    BY <1>2, <2>1, FirstPosition
  <2> QED
    BY <1>1, <2>1, <2>2
<1> HIDE DEF I, i
<1>4. binds \in Seq(RowBinding) /\ Range(binds) \subseteq Range(rowBindings)
  BY <1>2, <1>3, ElementsRemoved
<1>5. OnePerSpelling(binds)
  BY <1>3, SpellingRemoved DEF Inv, RegistryOK
<1> HIDE DEF binds
<1>6. RegistryOK(rowPolicies, maskPolicies, binds, maskBindings)
  BY <1>4, <1>5 DEF Inv, RegistryOK
<1> QED
  BY <1>1, <1>6, ApplyInv

LEMMA SameColumnPosition ==
  ASSUME Inv, NEW t, NEW c
  PROVE  SameColumn(t, c) \in {0} \cup 1..Len(maskBindings)
<1> DEFINE I == {i \in 1..Len(maskBindings) : maskBindings[i].table = t /\ maskBindings[i].column = c}
           i == IF I # {} THEN Min(I) ELSE 0
<1>1. SameColumn(t, c) = i
  BY DEF SameColumn, SelectInSeq
<1>2. Len(maskBindings) \in Nat
  BY DEF Inv, RegistryOK
<1>3. I \in SUBSET (1..Len(maskBindings))
  OBVIOUS
<1> HIDE DEF I
<1>4. (i # 0 <=> I # {}) /\ (i # 0 => i \in I)
  BY <1>2, <1>3, FirstPosition
<1> QED
  BY <1>1, <1>3, <1>4

LEMMA BindMaskingPolicyInv ==
  ASSUME Inv, NEW t \in Spellings, NEW c \in Columns, NEW n \in Names, BindMaskingPolicy(t, c, n)
  PROVE  Inv'
<1> DEFINE b == [table |-> t, column |-> c, policy |-> n]
           same == SameColumn(t, c)
           binds == IF same = 0 THEN Append(maskBindings, b) ELSE [maskBindings EXCEPT ![same] = b]
<1>1. n \in maskPolicies /\ Apply(rowPolicies, maskPolicies, rowBindings, binds)
  BY DEF BindMaskingPolicy
<1>2. maskBindings \in Seq(MaskBinding)
  BY DEF Inv, RegistryOK
<1>3. b \in MaskBinding /\ b.policy = n
  BY DEF MaskBinding
<1>4. same \in {0} \cup 1..Len(maskBindings)
  BY SameColumnPosition
<1> HIDE DEF b, same
<1>5. binds \in Seq(MaskBinding) /\ \A x \in Range(binds) : x = b \/ x \in Range(maskBindings)
  BY <1>2, <1>3, <1>4, ElementsBound
<1> HIDE DEF binds
<1>6. RegistryOK(rowPolicies, maskPolicies, rowBindings, binds)
  BY <1>1, <1>3, <1>5 DEF Inv, RegistryOK
<1> QED
  BY <1>1, <1>6, ApplyInv

LEMMA UnbindMaskingPolicyInv ==
  ASSUME Inv, NEW t \in Spellings, NEW c \in Columns, UnbindMaskingPolicy(t, c)
  PROVE  Inv'
<1> DEFINE i == SameColumn(t, c)
           binds == RemoveAt(maskBindings, i)
<1>1. i # 0 /\ Apply(rowPolicies, maskPolicies, rowBindings, binds)
  BY DEF UnbindMaskingPolicy
<1>2. maskBindings \in Seq(MaskBinding)
  BY DEF Inv, RegistryOK
<1>3. i \in 1..Len(maskBindings)
  BY <1>1, SameColumnPosition
<1> HIDE DEF i
<1>4. binds \in Seq(MaskBinding) /\ Range(binds) \subseteq Range(maskBindings)
  BY <1>2, <1>3, ElementsRemoved
<1> HIDE DEF binds
<1>5. RegistryOK(rowPolicies, maskPolicies, rowBindings, binds)
  BY <1>4 DEF Inv, RegistryOK
<1> QED
  BY <1>1, <1>5, ApplyInv

LEMMA StatementInv ==
  ASSUME Inv, Statement
  PROVE  Inv'
<1>1. PICK n \in Names, t \in Spellings, or_replace \in BOOLEAN :
        \/ \E args \in Arities : AddRowAccessPolicy(n, args, or_replace)
        \/ AddMaskingPolicy(n, or_replace)
        \/ DropRowAccessPolicy(n) \/ DropMaskingPolicy(n)
        \/ \E cols \in Arities : BindRowAccessPolicy(t, n, cols, or_replace)
        \/ UnbindRowAccessPolicy(t, n)
        \/ \E c \in Columns : BindMaskingPolicy(t, c, n) \/ UnbindMaskingPolicy(t, c)
  BY DEF Statement
<1> QED
  BY <1>1, AddRowAccessPolicyInv, AddMaskingPolicyInv, DropRowAccessPolicyInv, DropMaskingPolicyInv,
     BindRowAccessPolicyInv, UnbindRowAccessPolicyInv, BindMaskingPolicyInv, UnbindMaskingPolicyInv

-----------------------------------------------------------------------------
(* Requests.                                                               *)

LEMMA RequestStep ==
  ASSUME Inv, NEW r \in Requests, NEW p, RequestOK(p, maskBindings), Request(r, p), UNCHANGED registry
  PROVE  Inv'
<1>1. request' = [request EXCEPT ![r] = p] /\ p \in RequestType
  BY DEF Request, RequestOK
<1>2. request' \in [Requests -> RequestType] /\ \A x \in Requests : request'[x] = IF x = r THEN p ELSE request[x]
  BY <1>1 DEF Inv
<1>3. \A x \in Requests : RequestOK(request'[x], maskBindings)
  BY <1>2 DEF Inv
<1>4. rowPolicies' = rowPolicies /\ maskPolicies' = maskPolicies /\ rowBindings' = rowBindings
      /\ maskBindings' = maskBindings
  BY DEF registry
<1> QED
  BY <1>2, <1>3, <1>4 DEF Inv

\* A request that reads nothing of the registry and keeps no promise.
LEMMA NoRequestOK == NoRequest \in RequestType /\ RequestOK(NoRequest, maskBindings)
<1>1. <<>> \in Seq(RowBinding) /\ <<>> \in Seq(MaskBinding) /\ <<>> \in Seq(Tables) /\ <<>> \in Seq(Read)
  OBVIOUS
<1>2. NoRequest \in RequestType
  BY <1>1 DEF NoRequest, RequestType, Labels
<1>3. NoRequest.at = "idle" /\ OnePerSpelling(NoRequest.rows)
  BY DEF NoRequest, OnePerSpelling
<1> QED
  BY <1>2, <1>3 DEF RequestOK, Rewriting

LEMMA DeniedOK ==
  ASSUME NEW q \in RequestType, OnePerSpelling(q.rows)
  PROVE  RequestOK([q EXCEPT !.at = "denied"], maskBindings)
<1> DEFINE p == [q EXCEPT !.at = "denied"]
<1>1. "denied" \in Labels
  BY DEF Labels
<1>2. p \in RequestType /\ p.at = "denied" /\ p.rows = q.rows
  BY <1>1 DEF RequestType
<1> HIDE DEF p
<1>3. RequestOK(p, maskBindings)
  BY <1>2 DEF RequestOK, Rewriting
<1> QED
  BY <1>3 DEF p

LEMMA SnapshotRowsInv ==
  ASSUME Inv, NEW r \in Requests, NEW kind \in {"route", "exec"}, NEW handler \in Handlers,
         NEW authenticated \in BOOLEAN, SnapshotRows(r, kind, handler, authenticated)
  PROVE  Inv'
<1> DEFINE rows == Range(rowBindings)
           masks == Range(maskBindings)
           p == [NoRequest EXCEPT !.at = "rows", !.kind = kind, !.authenticated = authenticated,
                                  !.rows = rowBindings, !.todo = handler, !.heldRows = rows, !.heldMasks = masks]
<1>1. Request(r, p) /\ UNCHANGED registry
  BY DEF SnapshotRows
<1>2. /\ rowBindings \in Seq(RowBinding) /\ maskBindings \in Seq(MaskBinding) /\ handler \in Seq(Tables)
      /\ "rows" \in Labels /\ OnePerSpelling(rowBindings)
  BY PolicyAssumption DEF Inv, RegistryOK, Labels
<1>3. rows \in SUBSET RowBinding /\ masks \in SUBSET MaskBinding
  BY <1>2, VectorElements
<1> HIDE DEF rows, masks
<1>4. /\ p \in RequestType /\ p.at = "rows" /\ p.rows = rowBindings /\ p.masked = {} /\ p.next = 1
      /\ p.filter = None /\ p.reads = <<>> /\ p.heldRows = rows /\ p.heldMasks = masks
  <2>1. NoRequest \in RequestType
    BY NoRequestOK
  <2>2. p \in RequestType /\ p.at = "rows" /\ p.rows = rowBindings /\ p.heldRows = rows /\ p.heldMasks = masks
        /\ p.masked = NoRequest.masked /\ p.next = NoRequest.next /\ p.filter = NoRequest.filter
        /\ p.reads = NoRequest.reads
    BY <1>2, <1>3, <2>1, ZenonT(40) DEF RequestType
  <2>3. NoRequest.masked = {} /\ NoRequest.next = 1 /\ NoRequest.filter = None /\ NoRequest.reads = <<>>
    BY DEF NoRequest
  <2> QED
    BY <2>2, <2>3
<1> HIDE DEF p
<1>5. RequestOK(p, maskBindings)
  BY <1>2, <1>4 DEF RequestOK, Rewriting, rows, masks
<1> QED
  BY <1>1, <1>5, RequestStep

LEMMA SnapshotMasksInv ==
  ASSUME Inv, NEW r \in Requests, SnapshotMasks(r)
  PROVE  Inv'
<1> DEFINE q == request[r]
           none == q.rows = <<>> /\ maskBindings = <<>>
           at == IF none THEN "plain" ELSE IF q.kind = "exec" THEN "denied" ELSE "visit"
           p == [q EXCEPT !.masks = maskBindings, !.at = at]
<1>1. q.at = "rows" /\ Request(r, p) /\ UNCHANGED registry
  BY DEF SnapshotMasks
<1>2. /\ q \in RequestType /\ RequestOK(q, maskBindings) /\ maskBindings \in Seq(MaskBinding)
      /\ at \in {"plain", "denied", "visit"} /\ at \in Labels
      /\ at = "plain" => q.rows = <<>> /\ maskBindings = <<>>
  BY DEF Inv, RegistryOK, Labels
<1> HIDE DEF at
<1>3. /\ p \in RequestType /\ p.at = at /\ p.rows = q.rows /\ p.masks = maskBindings
      /\ p.heldRows = q.heldRows /\ p.heldMasks = q.heldMasks
      /\ p.filter = q.filter /\ p.masked = q.masked /\ p.next = q.next /\ p.reads = q.reads /\ p.todo = q.todo
  BY <1>2 DEF RequestType
<1> HIDE DEF p
<1>4. q.heldRows \subseteq Range(q.rows) /\ q.heldMasks \subseteq Range(maskBindings)
      /\ OnePerSpelling(q.rows) /\ q.masked = {} /\ q.next = 1 /\ q.filter = None
      /\ q.reads = <<>>
  BY <1>1, <1>2 DEF RequestOK
<1>5. Range(p.reads) = {}
  BY <1>3, <1>4 DEF Range
<1> HIDE DEF q
<1>6. RequestOK(p, maskBindings)
  BY <1>2, <1>3, <1>4, <1>5 DEF RequestOK, Rewriting
<1> QED
  BY <1>1, <1>6, RequestStep

\* The first binding of table t, or 0.
BoundPositions(bindings, t) == {i \in 1..Len(bindings) : BoundTo(bindings[i], t)}
FirstBound(bindings, t) ==
  IF BoundPositions(bindings, t) # {} THEN Min(BoundPositions(bindings, t)) ELSE 0

LEMMA FirstBoundFound ==
  ASSUME NEW S, NEW s \in Seq(S), NEW t
  PROVE  /\ FirstBound(s, t) = 0 => \A b \in Range(s) : ~BoundTo(b, t)
         /\ FirstBound(s, t) # 0 => /\ FirstBound(s, t) \in 1..Len(s)
                                    /\ BoundTo(s[FirstBound(s, t)], t)
<1> DEFINE I == BoundPositions(s, t)
           i == IF I # {} THEN Min(I) ELSE 0
<1>1. FirstBound(s, t) = i
  BY DEF FirstBound
<1>2. I \in SUBSET (1..Len(s)) /\ Len(s) \in Nat
  BY DEF BoundPositions
<1>3. /\ I = {} => \A b \in Range(s) : ~BoundTo(b, t)
      /\ \A k \in I : BoundTo(s[k], t)
  BY VectorElements DEF BoundPositions
<1> HIDE DEF I
<1>4. (i # 0 <=> I # {}) /\ (i # 0 => i \in I)
  BY <1>2, FirstPosition
<1> QED
  BY <1>1, <1>2, <1>3, <1>4

\* What a request keeps while it goes from read to read.
LEMMA SnapshotsKept ==
  ASSUME NEW q \in RequestType, NEW p \in RequestType, NEW maskBinds, RequestOK(q, maskBinds),
         q.at \in Rewriting, p.at \in Rewriting,
         p.rows = q.rows, p.masks = q.masks, p.heldRows = q.heldRows, p.heldMasks = q.heldMasks,
         p.reads = q.reads \/ \E read \in Read : p.reads = Append(q.reads, read)
                               /\ Covers(q.rows, q.masks, read.table, read.filter, read.masked)
  PROVE  /\ OnePerSpelling(p.rows) /\ p.heldRows \subseteq Range(p.rows) /\ p.heldMasks \subseteq Range(p.masks)
         /\ \A read \in Range(p.reads) : Covers(p.rows, p.masks, read.table, read.filter, read.masked)
<1>1. OnePerSpelling(p.rows) /\ p.heldRows \subseteq Range(p.rows) /\ p.heldMasks \subseteq Range(p.masks)
  BY DEF RequestOK
<1>2. \A read \in Range(q.reads) : Covers(q.rows, q.masks, read.table, read.filter, read.masked)
  BY DEF RequestOK
<1>3. CASE p.reads = q.reads
  BY <1>1, <1>2, <1>3
<1>4. CASE \E read \in Read : p.reads = Append(q.reads, read)
                             /\ Covers(q.rows, q.masks, read.table, read.filter, read.masked)
  <2>1. PICK read \in Read : p.reads = Append(q.reads, read)
                             /\ Covers(q.rows, q.masks, read.table, read.filter, read.masked)
    BY <1>4
  <2> DEFINE old == q.reads
             new == p.reads
  <2>2. old \in Seq(Read)
    BY DEF RequestType
  <2>3. \A x \in Range(new) : x = read \/ x \in Range(old)
    <3> HIDE DEF old
    <3>1. LET t == IF 0 = 0 THEN Append(old, read) ELSE [old EXCEPT ![0] = read]
          IN t \in Seq(Read) /\ \A x \in Range(t) : x = read \/ x \in Range(old)
      BY <2>2, ElementsBound
    <3>2. new = Append(old, read)
      BY <2>1 DEF old
    <3> QED
      BY <3>1, <3>2
  <2> QED
    BY <1>1, <1>2, <2>1, <2>3
<1> QED
  BY <1>3, <1>4

LEMMA VisitTableInv ==
  ASSUME Inv, NEW r \in Requests, VisitTable(r)
  PROVE  Inv'
<1> DEFINE q == request[r]
           t == Head(q.todo)
           row == FirstBound(q.rows, t)
           mask == FirstBound(q.masks, t)
           plain == [table |-> t, filter |-> None, masked |-> {}]
           found == q.rows[row]
           todo == Tail(q.todo)
           reads == Append(q.reads, plain)
<1>1. /\ q.at = "visit" /\ UNCHANGED registry
      /\ Request(r, IF q.todo = <<>> THEN [q EXCEPT !.at = "rewritten"]
                    ELSE IF row = 0 /\ mask = 0 THEN [q EXCEPT !.todo = todo, !.reads = reads]
                    ELSE IF ~q.authenticated THEN [q EXCEPT !.at = "denied"]
                    ELSE IF row = 0 THEN [q EXCEPT !.at = "mask"]
                    ELSE [q EXCEPT !.at = "filter", !.filter = found])
  BY ZenonT(40) DEF VisitTable, SelectInSeq, FirstBound, BoundPositions
<1>2. /\ q \in RequestType /\ RequestOK(q, maskBindings) /\ q.rows \in Seq(RowBinding)
      /\ q.masks \in Seq(MaskBinding) /\ q.todo \in Seq(Tables) /\ q.reads \in Seq(Read)
      /\ {"rewritten", "visit", "mask", "filter"} \subseteq Labels
      /\ q.masked = {} /\ q.next = 1 /\ q.filter = None /\ OnePerSpelling(q.rows)
  BY <1>1, ZenonT(40) DEF Inv, RequestType, Labels, RequestOK
<1>3. /\ row = 0 => \A b \in Range(q.rows) : ~BoundTo(b, t)
      /\ row # 0 => row \in 1..Len(q.rows) /\ BoundTo(q.rows[row], t)
      /\ mask = 0 => \A b \in Range(q.masks) : ~BoundTo(b, t)
  BY <1>2, FirstBoundFound
<1> HIDE DEF q, row, mask
<1>4. CASE q.todo = <<>>
  <2> DEFINE p == [q EXCEPT !.at = "rewritten"]
  <2>1. Request(r, p)
    BY <1>1, <1>4
  <2>2. p \in RequestType /\ p.at = "rewritten" /\ p.rows = q.rows /\ p.masks = q.masks /\ p.heldRows = q.heldRows
        /\ p.heldMasks = q.heldMasks
        /\ p.reads = q.reads
    BY <1>2 DEF RequestType
  <2> HIDE DEF p
  <2>3. /\ OnePerSpelling(p.rows) /\ p.heldRows \subseteq Range(p.rows) /\ p.heldMasks \subseteq Range(p.masks)
        /\ \A read \in Range(p.reads) : Covers(p.rows, p.masks, read.table, read.filter, read.masked)
    BY <1>1, <1>2, <2>2, SnapshotsKept DEF Rewriting
  <2>4. RequestOK(p, maskBindings)
    BY <2>2, <2>3 DEF RequestOK, Rewriting
  <2> QED
    BY <1>1, <2>1, <2>4, RequestStep
<1>5. CASE q.todo # <<>> /\ row = 0 /\ mask = 0
  <2> DEFINE p == [q EXCEPT !.todo = todo, !.reads = reads]
  <2>1. Request(r, p)
    BY <1>1, <1>5
  <2>2. t \in Tables /\ todo \in Seq(Tables)
    BY <1>2, <1>5
  <2> HIDE DEF t, todo
  <2>3. plain \in Read /\ plain.table = t /\ plain.filter = None /\ plain.masked = {}
    BY <2>2 DEF Read
  <2>4. Covers(q.rows, q.masks, plain.table, plain.filter, plain.masked)
    BY <1>3, <1>5, <2>3 DEF Covers, Filters
  <2> HIDE DEF plain
  <2>5. reads \in Seq(Read) /\ reads = Append(q.reads, plain)
    BY <1>2, <2>3
  <2> HIDE DEF reads
  <2>6. p \in RequestType /\ p.at = "visit" /\ p.rows = q.rows /\ p.masks = q.masks /\ p.heldRows = q.heldRows
        /\ p.heldMasks = q.heldMasks
        /\ p.reads = reads /\ p.masked = {} /\ p.next = 1 /\ p.filter = None
    BY <1>1, <1>2, <2>2, <2>5 DEF RequestType
  <2> HIDE DEF p
  <2>7. /\ OnePerSpelling(p.rows) /\ p.heldRows \subseteq Range(p.rows) /\ p.heldMasks \subseteq Range(p.masks)
        /\ \A read \in Range(p.reads) : Covers(p.rows, p.masks, read.table, read.filter, read.masked)
    <3>1. \E read \in Read : p.reads = Append(q.reads, read)
                               /\ Covers(q.rows, q.masks, read.table, read.filter, read.masked)
      BY <2>3, <2>4, <2>5, <2>6
    <3> QED
      BY <1>1, <1>2, <2>6, <3>1, SnapshotsKept DEF Rewriting
  <2>8. RequestOK(p, maskBindings)
    BY <2>6, <2>7 DEF RequestOK, Rewriting
  <2> QED
    BY <1>1, <2>1, <2>8, RequestStep
<1>6. CASE q.todo # <<>> /\ ~(row = 0 /\ mask = 0) /\ ~q.authenticated
  BY <1>1, <1>2, <1>6, DeniedOK, RequestStep
<1>7. CASE q.todo # <<>> /\ ~(row = 0 /\ mask = 0) /\ q.authenticated /\ row = 0
  <2> DEFINE p == [q EXCEPT !.at = "mask"]
  <2>1. Request(r, p)
    BY <1>1, <1>7
  <2>2. p \in RequestType /\ p.at = "mask" /\ p.rows = q.rows /\ p.masks = q.masks /\ p.heldRows = q.heldRows
        /\ p.heldMasks = q.heldMasks
        /\ p.reads = q.reads /\ p.todo = q.todo /\ p.next = 1 /\ p.filter = None
    BY <1>2 DEF RequestType
  <2> HIDE DEF p
  <2>3. /\ OnePerSpelling(p.rows) /\ p.heldRows \subseteq Range(p.rows) /\ p.heldMasks \subseteq Range(p.masks)
        /\ \A read \in Range(p.reads) : Covers(p.rows, p.masks, read.table, read.filter, read.masked)
    BY <1>1, <1>2, <2>2, SnapshotsKept DEF Rewriting
  <2>4. \A i \in 1..Len(p.masks) : ~(i < p.next)
    BY <1>2, <2>2
  <2>5. Filters(p.rows, Head(p.todo), p.filter)
    BY <1>3, <1>7, <2>2 DEF Filters
  <2>6. RequestOK(p, maskBindings)
    BY <1>7, <2>2, <2>3, <2>4, <2>5 DEF RequestOK, Rewriting
  <2> QED
    BY <1>1, <2>1, <2>6, RequestStep
<1>8. CASE q.todo # <<>> /\ ~(row = 0 /\ mask = 0) /\ q.authenticated /\ row # 0
  <2> DEFINE p == [q EXCEPT !.at = "filter", !.filter = found]
  <2>1. Request(r, p)
    BY <1>1, <1>8
  <2>2. found \in RowBinding
    BY <1>2, <1>3, <1>8
  <2>3. Filters(q.rows, t, found)
    BY <1>2, <1>3, <1>8, VectorElements DEF Filters
  <2> HIDE DEF found
  <2>4. p \in RequestType /\ p.at = "filter" /\ p.rows = q.rows /\ p.masks = q.masks /\ p.heldRows = q.heldRows
        /\ p.heldMasks = q.heldMasks
        /\ p.reads = q.reads /\ p.todo = q.todo /\ p.masked = {} /\ p.next = 1 /\ p.filter = found
    BY <1>2, <2>2 DEF RequestType
  <2> HIDE DEF p
  <2>5. /\ OnePerSpelling(p.rows) /\ p.heldRows \subseteq Range(p.rows) /\ p.heldMasks \subseteq Range(p.masks)
        /\ \A read \in Range(p.reads) : Covers(p.rows, p.masks, read.table, read.filter, read.masked)
    BY <1>1, <1>2, <2>4, SnapshotsKept DEF Rewriting
  <2>6. RequestOK(p, maskBindings)
    BY <1>8, <2>3, <2>4, <2>5 DEF RequestOK, Rewriting, t
  <2> QED
    BY <1>1, <2>1, <2>6, RequestStep
<1> QED
  BY <1>4, <1>5, <1>6, <1>7, <1>8

LEMMA GetRowAccessPolicyInv ==
  ASSUME Inv, NEW r \in Requests, GetRowAccessPolicy(r)
  PROVE  Inv'
<1> DEFINE q == request[r]
           p == [q EXCEPT !.at = "mask"]
<1>1. q.at = "filter" /\ UNCHANGED registry /\ (Request(r, [q EXCEPT !.at = "denied"]) \/ Request(r, p))
  BY DEF GetRowAccessPolicy
<1>2. /\ q \in RequestType /\ RequestOK(q, maskBindings) /\ "mask" \in Labels
      /\ q.masked = {} /\ q.next = 1 /\ q.todo # <<>> /\ q.masks \in Seq(MaskBinding)
      /\ Filters(q.rows, Head(q.todo), q.filter) /\ OnePerSpelling(q.rows)
  BY <1>1 DEF Inv, RequestType, Labels, RequestOK
<1> HIDE DEF q
<1>3. CASE Request(r, p)
  <2>1. p \in RequestType /\ p.at = "mask" /\ p.rows = q.rows /\ p.masks = q.masks /\ p.heldRows = q.heldRows
        /\ p.heldMasks = q.heldMasks
        /\ p.reads = q.reads /\ p.todo = q.todo /\ p.next = 1 /\ p.filter = q.filter
    BY <1>2 DEF RequestType
  <2> HIDE DEF p
  <2>2. /\ OnePerSpelling(p.rows) /\ p.heldRows \subseteq Range(p.rows) /\ p.heldMasks \subseteq Range(p.masks)
        /\ \A read \in Range(p.reads) : Covers(p.rows, p.masks, read.table, read.filter, read.masked)
    BY <1>1, <1>2, <2>1, SnapshotsKept DEF Rewriting
  <2>3. \A i \in 1..Len(p.masks) : ~(i < p.next)
    BY <1>2, <2>1
  <2>4. RequestOK(p, maskBindings)
    BY <1>2, <2>1, <2>2, <2>3 DEF RequestOK, Rewriting
  <2> QED
    BY <1>1, <1>3, <2>4, RequestStep
<1>4. CASE Request(r, [q EXCEPT !.at = "denied"])
  BY <1>1, <1>2, <1>4, DeniedOK, RequestStep
<1> QED
  BY <1>1, <1>3, <1>4

\* The next mask of the table is the least position still to be looked at.
LEMMA NextMask ==
  ASSUME NEW q \in RequestType, MasksAfter(q) # {}
  PROVE  LET i == CHOOSE x \in MasksAfter(q) : \A y \in MasksAfter(q) : x <= y
         IN i \in MasksAfter(q) /\ \A y \in MasksAfter(q) : i <= y
<1> DEFINE n == Len(q.masks)
           I == MasksAfter(q)
<1>1. n \in Nat /\ DOMAIN q.masks = 1..n
  <2> DEFINE s == q.masks
  <2>1. s \in Seq(MaskBinding)
    BY DEF RequestType
  <2> HIDE DEF s
  <2>2. Len(s) \in Nat /\ DOMAIN s = 1..Len(s)
    BY <2>1, LenProperties
  <2> QED
    BY <2>2 DEF s
<1> HIDE DEF n
<1>2. I \in SUBSET (1..n) /\ I # {}
  BY <1>1 DEF MasksAfter
<1> HIDE DEF I
<1>3. IsFiniteSet(1..n) /\ 1..n \subseteq Nat
  <2>1. n \in Nat
    BY <1>1
  <2> QED
    BY <2>1, FS_Interval
<1>4. IsFiniteSet(I) /\ I \subseteq Nat
  BY <1>2, <1>3, FS_Subset
<1>5. Min(I) \in I /\ \A j \in I : Min(I) <= j
  BY <1>2, <1>4, MinIndex
<1>6. \E x \in I : \A y \in I : x <= y
  BY <1>5
<1> QED
  BY <1>6 DEF I

LEMMA GetMaskingPolicyInv ==
  ASSUME Inv, NEW r \in Requests, GetMaskingPolicy(r)
  PROVE  Inv'
<1> DEFINE q == request[r]
           i == CHOOSE x \in MasksAfter(q) : \A y \in MasksAfter(q) : x <= y
           b == q.masks[i]
           masked == q.masked \cup {b}
           next == i + 1
           p == [q EXCEPT !.masked = masked, !.next = next]
<1>1. /\ q.at = "mask" /\ MasksAfter(q) # {} /\ UNCHANGED registry
      /\ Request(r, [q EXCEPT !.at = "denied"]) \/ Request(r, p)
  BY DEF GetMaskingPolicy
<1>2. /\ q \in RequestType /\ RequestOK(q, maskBindings) /\ q.masks \in Seq(MaskBinding)
      /\ q.next \in Nat /\ q.masked \in SUBSET MaskBinding /\ OnePerSpelling(q.rows)
  BY DEF Inv, RequestType, RequestOK
<1>3. i \in MasksAfter(q) /\ \A y \in MasksAfter(q) : i <= y
  BY <1>1, <1>2, NextMask
<1> HIDE DEF q, i
<1>4. DOMAIN q.masks = 1..Len(q.masks) /\ Len(q.masks) \in Nat
  BY <1>2, LenProperties
<1>5. i \in 1..Len(q.masks) /\ next \in Nat /\ b \in MaskBinding
  BY <1>2, <1>3, <1>4 DEF MasksAfter
<1>6. masked \in SUBSET MaskBinding
  BY <1>2, <1>5
<1>7. \A k \in 1..Len(q.masks) :
        k < next /\ BoundTo(q.masks[k], Head(q.todo)) => q.masks[k] \in masked
  <2> SUFFICES ASSUME NEW k \in 1..Len(q.masks), k < next, BoundTo(q.masks[k], Head(q.todo))
               PROVE  q.masks[k] \in masked
    OBVIOUS
  <2>1. k \in Nat /\ i \in Nat /\ k <= i
    BY <1>4, <1>5
  <2>2. CASE k = i
    BY <2>2
  <2>3. CASE k # i
    <3>1. k \notin MasksAfter(q)
      BY <1>3, <2>1, <2>3
    <3>2. k < q.next
      BY <1>2, <1>4, <2>1, <3>1 DEF MasksAfter
    <3> QED
      BY <1>1, <1>2, <3>2 DEF RequestOK
  <2> QED
    BY <2>2, <2>3
<1> HIDE DEF masked, next
<1>8. CASE Request(r, p)
  <2>1. p \in RequestType /\ p.at = "mask" /\ p.rows = q.rows /\ p.masks = q.masks /\ p.heldRows = q.heldRows
        /\ p.heldMasks = q.heldMasks
        /\ p.reads = q.reads /\ p.todo = q.todo /\ p.next = next /\ p.masked = masked /\ p.filter = q.filter
    BY <1>1, <1>2, <1>5, <1>6 DEF RequestType
  <2> HIDE DEF p
  <2>2. /\ OnePerSpelling(p.rows) /\ p.heldRows \subseteq Range(p.rows) /\ p.heldMasks \subseteq Range(p.masks)
        /\ \A read \in Range(p.reads) : Covers(p.rows, p.masks, read.table, read.filter, read.masked)
    BY <1>1, <1>2, <2>1, SnapshotsKept DEF Rewriting
  <2>3. q.todo # <<>> /\ Filters(q.rows, Head(q.todo), q.filter)
    BY <1>1, <1>2 DEF RequestOK
  <2>4. RequestOK(p, maskBindings)
    BY <1>7, <2>1, <2>2, <2>3 DEF RequestOK, Rewriting
  <2> QED
    BY <1>1, <1>8, <2>4, RequestStep
<1>9. CASE Request(r, [q EXCEPT !.at = "denied"])
  BY <1>1, <1>2, <1>9, DeniedOK, RequestStep
<1> QED
  BY <1>1, <1>8, <1>9

LEMMA ReplaceInv ==
  ASSUME Inv, NEW r \in Requests, NEW parses \in BOOLEAN, Replace(r, parses)
  PROVE  Inv'
<1> DEFINE q == request[r]
           t == Head(q.todo)
           todo == Tail(q.todo)
           read == [table |-> t, filter |-> q.filter, masked |-> q.masked]
           reads == Append(q.reads, read)
           p == [q EXCEPT !.at = "visit", !.todo = todo, !.reads = reads, !.filter = None, !.masked = {}, !.next = 1]
<1>1. /\ q.at = "mask" /\ MasksAfter(q) = {} /\ UNCHANGED registry
      /\ Request(r, [q EXCEPT !.at = "denied"]) \/ Request(r, p)
  BY DEF Replace
<1>2. /\ q \in RequestType /\ RequestOK(q, maskBindings) /\ q.masks \in Seq(MaskBinding)
      /\ q.rows \in Seq(RowBinding) /\ q.todo \in Seq(Tables) /\ q.reads \in Seq(Read)
      /\ q.next \in Nat /\ q.masked \in SUBSET MaskBinding /\ q.filter \in RowBinding \cup {None}
      /\ "visit" \in Labels /\ OnePerSpelling(q.rows)
  BY DEF Inv, RequestType, Labels, RequestOK
<1> HIDE DEF q
<1>3. /\ q.todo # <<>>
      /\ Filters(q.rows, t, q.filter)
      /\ \A i \in 1..Len(q.masks) : i < q.next /\ BoundTo(q.masks[i], t) => q.masks[i] \in q.masked
  BY <1>1, <1>2 DEF RequestOK
<1>4. t \in Tables /\ todo \in Seq(Tables)
  BY <1>2, <1>3
<1>5. \A b \in Range(q.masks) : BoundTo(b, t) => b \in q.masked
  <2> SUFFICES ASSUME NEW b \in Range(q.masks), BoundTo(b, t)
               PROVE  b \in q.masked
    OBVIOUS
  <2>1. DOMAIN q.masks = 1..Len(q.masks) /\ Len(q.masks) \in Nat
    BY <1>2, LenProperties
  <2>2. PICK i \in 1..Len(q.masks) : b = q.masks[i]
    BY <1>2, VectorElements
  <2>3. i < q.next
    BY <1>1, <1>2, <2>1, <2>2 DEF MasksAfter
  <2> QED
    BY <1>3, <2>2, <2>3
<1> HIDE DEF t, todo
<1>6. read \in Read /\ read.table = t /\ read.filter = q.filter /\ read.masked = q.masked
  BY <1>2, <1>4 DEF Read
<1>7. Covers(q.rows, q.masks, read.table, read.filter, read.masked)
  BY <1>3, <1>5, <1>6 DEF Covers
<1> HIDE DEF read
<1>8. reads \in Seq(Read) /\ reads = Append(q.reads, read)
  BY <1>2, <1>6
<1> HIDE DEF reads
<1>9. CASE Request(r, p)
  <2>1. None \in RowBinding \cup {None} /\ {} \in SUBSET MaskBinding /\ 1 \in Nat
    OBVIOUS
  <2>2. p \in RequestType /\ p.at = "visit" /\ p.rows = q.rows /\ p.masks = q.masks /\ p.heldRows = q.heldRows
        /\ p.heldMasks = q.heldMasks
        /\ p.reads = reads /\ p.masked = {} /\ p.next = 1 /\ p.filter = None
    BY <1>2, <1>4, <1>8, <2>1 DEF RequestType
  <2> HIDE DEF p
  <2>3. /\ OnePerSpelling(p.rows) /\ p.heldRows \subseteq Range(p.rows) /\ p.heldMasks \subseteq Range(p.masks)
        /\ \A x \in Range(p.reads) : Covers(p.rows, p.masks, x.table, x.filter, x.masked)
    <3>1. \E x \in Read : p.reads = Append(q.reads, x) /\ Covers(q.rows, q.masks, x.table, x.filter, x.masked)
      BY <1>6, <1>7, <1>8, <2>2
    <3> QED
      BY <1>1, <1>2, <2>2, <3>1, SnapshotsKept DEF Rewriting
  <2>4. RequestOK(p, maskBindings)
    BY <2>2, <2>3 DEF RequestOK, Rewriting
  <2> QED
    BY <1>1, <1>9, <2>4, RequestStep
<1>10. CASE Request(r, [q EXCEPT !.at = "denied"])
  BY <1>1, <1>2, <1>10, DeniedOK, RequestStep
<1> QED
  BY <1>1, <1>9, <1>10

LEMMA AnsweredInv ==
  ASSUME Inv, NEW r \in Requests, Answered(r)
  PROVE  Inv'
BY NoRequestOK, RequestStep DEF Answered

-----------------------------------------------------------------------------
(* The theorems.                                                           *)

LEMMA InitInv == Init => Inv
<1> SUFFICES ASSUME Init PROVE Inv
  OBVIOUS
<1>1. rowPolicies = <<>> /\ maskPolicies = {} /\ rowBindings = <<>> /\ maskBindings = <<>>
  BY DEF Init
<1>2. RegistryOK(rowPolicies, maskPolicies, rowBindings, maskBindings)
  <2>1. Range(<<>>) = {} /\ OnePerSpelling(<<>>)
    BY DEF Range, OnePerSpelling
  <2> QED
    BY <1>1, <2>1 DEF RegistryOK
<1>3. request = [r \in Requests |-> NoRequest]
  BY DEF Init
<1> QED
  BY <1>2, <1>3, NoRequestOK DEF Inv

LEMMA NextInv == Inv /\ [Next]_vars => Inv'
<1> SUFFICES ASSUME Inv, [Next]_vars PROVE Inv'
  OBVIOUS
<1>1. CASE Statement
  BY <1>1, StatementInv
<1>2. ASSUME NEW r \in Requests, Serve(r) PROVE Inv'
  BY <1>2, SnapshotRowsInv, SnapshotMasksInv, VisitTableInv, GetRowAccessPolicyInv, GetMaskingPolicyInv,
     ReplaceInv, AnsweredInv DEF Serve
<1>3. CASE UNCHANGED vars
  BY <1>3 DEF vars, registry, Inv
<1> QED
  BY <1>1, <1>2, <1>3 DEF Next

\* Each request stays within what its two snapshots tell of the bindings held.
THEOREM PoliciesInv == Spec => []Inv
BY InitInv, NextInv, PTL DEF Spec

\* Dropping a policy takes its bindings with it and no statement leaves one
\* behind (drop_row_access_policy, drop_masking_policy).
THEOREM PolicyBindingsResolve == Spec => []NoDanglingBinding
<1>1. Inv => NoDanglingBinding
  BY DEF Inv, RegistryOK, NoDanglingBinding
<1> QED
  BY <1>1, PoliciesInv, PTL

\* Whatever statements run between its snapshots and lookups, a rewritten
\* request applies to each read every mask that stood all along, and of the row
\* bindings that did the one, unless the table has another spelling bound.
THEOREM PolicyHeldApplied == Spec => []HeldBindingsApplied
<1>1. ASSUME Inv, NEW r \in Requests, request[r].at = "rewritten", NEW read \in Range(request[r].reads)
      PROVE  /\ \A b \in request[r].heldRows : BoundTo(b, read.table) => FilterApplied(b, read, request[r].rows)
             /\ \A b \in request[r].heldMasks : BoundTo(b, read.table) => b \in read.masked
  <2> DEFINE q == request[r]
  <2>1. /\ q.rows \in Seq(RowBinding) /\ OnePerSpelling(q.rows)
        /\ q.heldRows \subseteq Range(q.rows) /\ q.heldMasks \subseteq Range(q.masks)
        /\ Covers(q.rows, q.masks, read.table, read.filter, read.masked)
    BY <1>1 DEF Inv, RequestOK, RequestType, Rewriting
  <2> HIDE DEF q
  <2>2. ASSUME NEW b \in q.heldRows, BoundTo(b, read.table) PROVE FilterApplied(b, read, q.rows)
    <3>1. b \in Range(q.rows) /\ read.filter \in Range(q.rows) /\ BoundTo(read.filter, read.table)
      BY <2>1, <2>2 DEF Covers, Filters
    <3>2. read.filter.table = b.table => read.filter = b
      BY <2>1, <3>1, VectorElements DEF OnePerSpelling
    <3> QED
      BY <3>1, <3>2 DEF FilterApplied
  <2>3. \A b \in q.heldMasks : BoundTo(b, read.table) => b \in read.masked
    BY <2>1 DEF Covers
  <2> QED
    BY <2>2, <2>3 DEF q
<1>2. ASSUME Inv, NEW r \in Requests, request[r].at = "plain"
      PROVE  request[r].heldRows = {} /\ request[r].heldMasks = {}
  <2>1. request[r].heldRows \subseteq Range(<<>>) /\ request[r].heldMasks \subseteq Range(<<>>)
    BY <1>2 DEF Inv, RequestOK
  <2> QED
    BY <2>1 DEF Range
<1>3. Inv => HeldBindingsApplied
  BY <1>1, <1>2 DEF HeldBindingsApplied
<1> QED
  BY <1>3, PoliciesInv, PTL

-----------------------------------------------------------------------------
(* The rewriting of one handler.  Its loops and its levels are recursive   *)
(* functions: each is shown to exist up to every bound, from a least bound *)
(* up to which it would not.                                               *)

\* A set of levels has a least one.
LEMMA LeastLevel ==
  ASSUME NEW at, at \subseteq Nat, at # {}
  PROVE  \E n \in at : \A k \in at : n <= k
<1> DEFINE R == OpToRel(<, Nat)
<1>1. IsWellFoundedOn(R, Nat)
  BY NatLessThanWellFounded
<1>2. \A x, y \in Nat : <<y, x>> \notin R => x <= y
  BY DEF OpToRel
<1> HIDE DEF R
<1>3. PICK x \in at : \A y \in at : ~(<<y, x>> \in R)
  BY <1>1, WFMin
<1> QED
  BY <1>2, <1>3

\* The loop over parts does what its body says, part after part.
LEMMA PartsLoop ==
  ASSUME NEW parts, Len(parts) \in Nat, NEW ctx, NEW visit
  PROVE  \E done : /\ done[0] = Policy!Visited(ctx, parts)
                   /\ \A k \in 1..Len(parts) : done[k] = Policy!RewritePart(done[k - 1], k, visit)
                   /\ Policy!RewriteParts(parts, ctx, visit) = done[Len(parts)]
<1> DEFINE first == Policy!Visited(ctx, parts)
           Runs(g, m) == g = [k \in 0..m |-> IF k = 0 THEN first ELSE Policy!RewritePart(g[k - 1], k, visit)]
           bad == {m \in Nat : ~ \E g : Runs(g, m)}
<1>1. ASSUME bad # {} PROVE FALSE
  <2>1. PICK m \in bad : \A k \in bad : m <= k
    BY <1>1, LeastLevel
  <2>2. m # 0
    <3>1. Runs([k \in 0..0 |-> first], 0)
      OBVIOUS
    <3> QED
      BY <3>1
  <2>3. m - 1 \in Nat /\ m - 1 \notin bad
    <3>1. m \in Nat /\ \A k \in bad : m <= k
      BY <2>1
    <3> HIDE DEF bad
    <3> QED
      BY <2>2, <3>1
  <2>4. PICK g : Runs(g, m - 1)
    BY <2>3
  <2> DEFINE h == [k \in 0..m |-> IF k = m THEN Policy!RewritePart(g[m - 1], m, visit) ELSE g[k]]
  <2>5. Runs(h, m)
    <3>1. \A k \in 0..(m - 1) : g[k] = IF k = 0 THEN first ELSE Policy!RewritePart(g[k - 1], k, visit)
      BY <2>4
    <3>2. \A k \in 0..m : h[k] = IF k = 0 THEN first ELSE Policy!RewritePart(h[k - 1], k, visit)
      BY <2>2, <2>3, <3>1
    <3> QED
      BY <3>2
  <2> QED
    BY <2>1, <2>5
<1> DEFINE done == CHOOSE g : Runs(g, Len(parts))
<1>2. Policy!RewriteParts(parts, ctx, visit) = done[Len(parts)]
  BY DEF Policy!RewriteParts
<1>3. Runs(done, Len(parts))
  BY <1>1
<1> HIDE DEF done
<1>4. \A k \in 0..Len(parts) : done[k] = IF k = 0 THEN first ELSE Policy!RewritePart(done[k - 1], k, visit)
  BY <1>3
<1> QED
  BY <1>2, <1>4

\* And the loop over common table expressions.
LEMMA CtesLoop ==
  ASSUME NEW ctes, Len(ctes) \in Nat, NEW ctx, NEW p, NEW visit
  PROVE  \E done : /\ done[0] = Policy!Visited(ctx, ctes)
                   /\ \A k \in 1..Len(ctes) : done[k] = Policy!RewriteCte(done[k - 1], k, p, visit)
                   /\ Policy!RewriteCtes(ctes, ctx, p, visit) = done[Len(ctes)]
<1> DEFINE first == Policy!Visited(ctx, ctes)
           Runs(g, m) == g = [k \in 0..m |-> IF k = 0 THEN first ELSE Policy!RewriteCte(g[k - 1], k, p, visit)]
           bad == {m \in Nat : ~ \E g : Runs(g, m)}
<1>1. ASSUME bad # {} PROVE FALSE
  <2>1. PICK m \in bad : \A k \in bad : m <= k
    BY <1>1, LeastLevel
  <2>2. m # 0
    <3>1. Runs([k \in 0..0 |-> first], 0)
      OBVIOUS
    <3> QED
      BY <3>1
  <2>3. m - 1 \in Nat /\ m - 1 \notin bad
    <3>1. m \in Nat /\ \A k \in bad : m <= k
      BY <2>1
    <3> HIDE DEF bad
    <3> QED
      BY <2>2, <3>1
  <2>4. PICK g : Runs(g, m - 1)
    BY <2>3
  <2> DEFINE h == [k \in 0..m |-> IF k = m THEN Policy!RewriteCte(g[m - 1], m, p, visit) ELSE g[k]]
  <2>5. Runs(h, m)
    <3>1. \A k \in 0..(m - 1) : g[k] = IF k = 0 THEN first ELSE Policy!RewriteCte(g[k - 1], k, p, visit)
      BY <2>4
    <3>2. \A k \in 0..m : h[k] = IF k = 0 THEN first ELSE Policy!RewriteCte(h[k - 1], k, p, visit)
      BY <2>2, <2>3, <3>1
    <3> QED
      BY <3>2
  <2> QED
    BY <2>1, <2>5
<1> DEFINE done == CHOOSE g : Runs(g, Len(ctes))
<1>2. Policy!RewriteCtes(ctes, ctx, p, visit) = done[Len(ctes)]
  BY DEF Policy!RewriteCtes
<1>3. Runs(done, Len(ctes))
  BY <1>1
<1> HIDE DEF done
<1>4. \A k \in 0..Len(ctes) : done[k] = IF k = 0 THEN first ELSE Policy!RewriteCte(done[k - 1], k, p, visit)
  BY <1>3
<1> QED
  BY <1>2, <1>4

\* Trees of n levels stand above trees of one level less.
LEMMA TreeLevels ==
  ASSUME MaxDepth \in Nat
  PROVE  /\ Policy!Trees[0] = {}
         /\ \A n \in 1..MaxDepth : Policy!Trees[n] = Policy!Above(Policy!Trees[n - 1])
<1> DEFINE Runs(g, m) == g = [n \in 0..m |-> IF n = 0 THEN {} ELSE Policy!Above(g[n - 1])]
           bad == {m \in Nat : ~ \E g : Runs(g, m)}
<1>1. ASSUME bad # {} PROVE FALSE
  <2>1. PICK m \in bad : \A k \in bad : m <= k
    BY <1>1, LeastLevel
  <2>2. m # 0
    <3>1. Runs([n \in 0..0 |-> {}], 0)
      OBVIOUS
    <3> QED
      BY <3>1
  <2>3. m - 1 \in Nat /\ m - 1 \notin bad
    <3>1. m \in Nat /\ \A k \in bad : m <= k
      BY <2>1
    <3> HIDE DEF bad
    <3> QED
      BY <2>2, <3>1
  <2>4. PICK g : Runs(g, m - 1)
    BY <2>3
  <2> DEFINE h == [n \in 0..m |-> IF n = m THEN Policy!Above(g[m - 1]) ELSE g[n]]
  <2>5. Runs(h, m)
    <3>1. \A n \in 0..(m - 1) : g[n] = IF n = 0 THEN {} ELSE Policy!Above(g[n - 1])
      BY <2>4
    <3>2. \A n \in 0..m : h[n] = IF n = 0 THEN {} ELSE Policy!Above(h[n - 1])
      BY <2>2, <2>3, <3>1
    <3> QED
      BY <3>2
  <2> QED
    BY <2>1, <2>5
<1> DEFINE all == CHOOSE g : Runs(g, MaxDepth)
<1>2. Policy!Trees = all
  BY DEF Policy!Trees
<1>3. Runs(all, MaxDepth)
  BY <1>1
<1> HIDE DEF all
<1>4. \A n \in 0..MaxDepth : all[n] = IF n = 0 THEN {} ELSE Policy!Above(all[n - 1])
  BY <1>3
<1> QED
  BY <1>2, <1>4

\* The visits of a level use those of the level below.
LEMMA RewritingLevels ==
  ASSUME NEW p, MaxDepth \in Nat
  PROVE  /\ Policy!Rewriting(p)[0] = <<>>
         /\ \A n \in 1..MaxDepth : Policy!Rewriting(p)[n] = Policy!Visits(n, p, Policy!Rewriting(p)[n - 1])
<1> DEFINE Runs(g, m) == g = [n \in 0..m |-> IF n = 0 THEN <<>> ELSE Policy!Visits(n, p, g[n - 1])]
           bad == {m \in Nat : ~ \E g : Runs(g, m)}
<1>1. ASSUME bad # {} PROVE FALSE
  <2>1. PICK m \in bad : \A k \in bad : m <= k
    BY <1>1, LeastLevel
  <2>2. m # 0
    <3>1. Runs([n \in 0..0 |-> <<>>], 0)
      OBVIOUS
    <3> QED
      BY <3>1
  <2>3. m - 1 \in Nat /\ m - 1 \notin bad
    <3>1. m \in Nat /\ \A k \in bad : m <= k
      BY <2>1
    <3> HIDE DEF bad
    <3> QED
      BY <2>2, <3>1
  <2>4. PICK g : Runs(g, m - 1)
    BY <2>3
  <2> DEFINE h == [n \in 0..m |-> IF n = m THEN Policy!Visits(m, p, g[m - 1]) ELSE g[n]]
  <2>5. Runs(h, m)
    <3>1. \A n \in 0..(m - 1) : g[n] = IF n = 0 THEN <<>> ELSE Policy!Visits(n, p, g[n - 1])
      BY <2>4
    <3>2. \A n \in 0..m : h[n] = IF n = 0 THEN <<>> ELSE Policy!Visits(n, p, h[n - 1])
      BY <2>2, <2>3, <3>1
    <3> QED
      BY <3>2
  <2> QED
    BY <2>1, <2>5
<1> DEFINE all == CHOOSE g : Runs(g, MaxDepth)
<1>2. Policy!Rewriting(p) = all
  BY DEF Policy!Rewriting
<1>3. Runs(all, MaxDepth)
  BY <1>1
<1> HIDE DEF all
<1>4. \A n \in 0..MaxDepth : all[n] = IF n = 0 THEN <<>> ELSE Policy!Visits(n, p, all[n - 1])
  BY <1>3
<1> QED
  BY <1>2, <1>4

\* What is seen in the trees of a level, from what is seen in those of the level below.
LEMMA SeenLevels ==
  ASSUME MaxDepth \in Nat
  PROVE  /\ Policy!Seen[0] = <<>>
         /\ \A n \in 1..MaxDepth : Policy!Seen[n] = Policy!Sights(n, Policy!Seen[n - 1])
<1> DEFINE Runs(g, m) == g = [n \in 0..m |-> IF n = 0 THEN <<>> ELSE Policy!Sights(n, g[n - 1])]
           bad == {m \in Nat : ~ \E g : Runs(g, m)}
<1>1. ASSUME bad # {} PROVE FALSE
  <2>1. PICK m \in bad : \A k \in bad : m <= k
    BY <1>1, LeastLevel
  <2>2. m # 0
    <3>1. Runs([n \in 0..0 |-> <<>>], 0)
      OBVIOUS
    <3> QED
      BY <3>1
  <2>3. m - 1 \in Nat /\ m - 1 \notin bad
    <3>1. m \in Nat /\ \A k \in bad : m <= k
      BY <2>1
    <3> HIDE DEF bad
    <3> QED
      BY <2>2, <3>1
  <2>4. PICK g : Runs(g, m - 1)
    BY <2>3
  <2> DEFINE h == [n \in 0..m |-> IF n = m THEN Policy!Sights(m, g[m - 1]) ELSE g[n]]
  <2>5. Runs(h, m)
    <3>1. \A n \in 0..(m - 1) : g[n] = IF n = 0 THEN <<>> ELSE Policy!Sights(n, g[n - 1])
      BY <2>4
    <3>2. \A n \in 0..m : h[n] = IF n = 0 THEN <<>> ELSE Policy!Sights(n, h[n - 1])
      BY <2>2, <2>3, <3>1
    <3> QED
      BY <3>2
  <2> QED
    BY <2>1, <2>5
<1> DEFINE all == CHOOSE g : Runs(g, MaxDepth)
<1>2. Policy!Seen = all
  BY DEF Policy!Seen
<1>3. Runs(all, MaxDepth)
  BY <1>1
<1> HIDE DEF all
<1>4. \A n \in 0..MaxDepth : all[n] = IF n = 0 THEN <<>> ELSE Policy!Sights(n, all[n - 1])
  BY <1>3
<1> QED
  BY <1>2, <1>4

\* And the secured trees.
LEMMA ProtectedLevels ==
  ASSUME NEW p, MaxDepth \in Nat
  PROVE  /\ Policy!Protected(p)[0] = <<>>
         /\ \A n \in 1..MaxDepth : Policy!Protected(p)[n] = Policy!Protections(n, p, Policy!Protected(p)[n - 1])
<1> DEFINE Runs(g, m) == g = [n \in 0..m |-> IF n = 0 THEN <<>> ELSE Policy!Protections(n, p, g[n - 1])]
           bad == {m \in Nat : ~ \E g : Runs(g, m)}
<1>1. ASSUME bad # {} PROVE FALSE
  <2>1. PICK m \in bad : \A k \in bad : m <= k
    BY <1>1, LeastLevel
  <2>2. m # 0
    <3>1. Runs([n \in 0..0 |-> <<>>], 0)
      OBVIOUS
    <3> QED
      BY <3>1
  <2>3. m - 1 \in Nat /\ m - 1 \notin bad
    <3>1. m \in Nat /\ \A k \in bad : m <= k
      BY <2>1
    <3> HIDE DEF bad
    <3> QED
      BY <2>2, <3>1
  <2>4. PICK g : Runs(g, m - 1)
    BY <2>3
  <2> DEFINE h == [n \in 0..m |-> IF n = m THEN Policy!Protections(m, p, g[m - 1]) ELSE g[n]]
  <2>5. Runs(h, m)
    <3>1. \A n \in 0..(m - 1) : g[n] = IF n = 0 THEN <<>> ELSE Policy!Protections(n, p, g[n - 1])
      BY <2>4
    <3>2. \A n \in 0..m : h[n] = IF n = 0 THEN <<>> ELSE Policy!Protections(n, p, h[n - 1])
      BY <2>2, <2>3, <3>1
    <3> QED
      BY <3>2
  <2> QED
    BY <2>1, <2>5
<1> DEFINE all == CHOOSE g : Runs(g, MaxDepth)
<1>2. Policy!Protected(p) = all
  BY DEF Policy!Protected
<1>3. Runs(all, MaxDepth)
  BY <1>1
<1> HIDE DEF all
<1>4. \A n \in 0..MaxDepth : all[n] = IF n = 0 THEN <<>> ELSE Policy!Protections(n, p, all[n - 1])
  BY <1>3
<1> QED
  BY <1>2, <1>4

\* What a reading stops the rewriting for.
Alarming(p, sight) ==
  \/ sight[1] \in {"function", "macro", "recursive"}
  \/ sight[1] = "table" /\ sight[2] \in p.views
  \/ sight[1] = "table" /\ Policy!Unwritable(p, sight[2])
  \/ sight[1] = "table" /\ ~p.authenticated /\ Policy!IsBound(p, sight[2])

\* A handler must not be run if anything seen in it is alarming.
MustStop(p, seen) == \E sight \in seen : Alarming(p, sight)

\* Only a caller nobody knows is denied, and an error denies him.
Refused(p, ctx) == (ctx.denied => ~p.authenticated) /\ (ctx.error => p.authenticated \/ ctx.denied)

\* The names of the common table expressions in scope.
InScope(ctx) == {ctx.names[i] : i \in DOMAIN ctx.names}

\* A visit leaves the names in scope alone, stops if it must, and has secured the tree
\* if it did not stop.
Outcome(p, v, ctx, seen, protected) ==
  /\ v.ctx \in Policy!Contexts /\ v.ctx.names = ctx.names
  /\ Refused(p, v.ctx)
  /\ Policy!Stopped(v.ctx) <=> MustStop(p, seen)
  /\ ~Policy!Stopped(v.ctx) => v.tree = protected

\* That is so of the trees S under visit, whatever is in scope.
Sound(p, S, visit, seen, protected) ==
  \A ctx \in Policy!Contexts, tree \in S :
    ~Policy!Stopped(ctx) =>
      Outcome(p, visit[ctx][tree], ctx, seen[InScope(ctx)][tree], protected[InScope(ctx)][tree])

\* A rejection stops the rewriting and leaves the names alone.
LEMMA RejectStops ==
  ASSUME NEW p, p.authenticated \in BOOLEAN, NEW ctx \in Policy!Contexts, Refused(p, ctx)
  PROVE  /\ Policy!Reject(ctx, p) \in Policy!Contexts /\ Policy!Reject(ctx, p).names = ctx.names
         /\ Policy!Stopped(Policy!Reject(ctx, p)) /\ Refused(p, Policy!Reject(ctx, p))
<1> DEFINE denied == ctx.denied \/ ~p.authenticated
           r == [ctx EXCEPT !.error = TRUE, !.denied = denied]
<1>1. ctx \in [names : Seq(STRING), error : BOOLEAN, denied : BOOLEAN]
  BY DEF Policy!Contexts
<1>2. denied \in BOOLEAN
  BY <1>1
<1>3. Policy!Reject(ctx, p) = r
  BY DEF Policy!Reject
<1>4. denied => ~p.authenticated
  BY DEF Refused
<1> HIDE DEF denied
<1>5. r.names = ctx.names /\ r.error = TRUE /\ r.denied = denied
  BY <1>1
<1>6. r \in Policy!Contexts
  BY <1>1, <1>2 DEF Policy!Contexts
<1>7. Policy!Stopped(r)
  BY <1>5 DEF Policy!Stopped
<1>8. ~p.authenticated => denied
  BY DEF denied
<1> HIDE DEF r
<1> QED
  BY <1>2, <1>3, <1>4, <1>5, <1>6, <1>7, <1>8 DEF Refused

\* The parts of a tree, one after the other.
LEMMA PartsRight ==
  ASSUME NEW p, p.authenticated \in BOOLEAN, NEW S, NEW visit, NEW seen, NEW protected,
         Sound(p, S, visit, seen, protected),
         NEW parts \in Seq(S), NEW ctx \in Policy!Contexts, ~Policy!Stopped(ctx)
  PROVE  LET v == Policy!RewriteParts(parts, ctx, visit)
             names == InScope(ctx)
         IN  /\ v.ctx \in Policy!Contexts /\ v.ctx.names = ctx.names /\ Refused(p, v.ctx)
             /\ Policy!Stopped(v.ctx) <=> \E i \in DOMAIN parts : MustStop(p, seen[names][parts[i]])
             /\ ~Policy!Stopped(v.ctx) => v.tree = [i \in DOMAIN parts |-> protected[names][parts[i]]]
<1> DEFINE names == InScope(ctx)
           must(i) == MustStop(p, seen[names][parts[i]])
           after(k) == [i \in DOMAIN parts |-> IF i <= k THEN protected[names][parts[i]] ELSE parts[i]]
           Right(k, d) == /\ d.ctx \in Policy!Contexts /\ d.ctx.names = ctx.names /\ Refused(p, d.ctx)
                          /\ Policy!Stopped(d.ctx) <=> \E i \in 1..k : must(i)
                          /\ ~Policy!Stopped(d.ctx) => d.tree = after(k)
<1>1. Len(parts) \in Nat /\ DOMAIN parts = 1..Len(parts) /\ \A i \in 1..Len(parts) : parts[i] \in S
  OBVIOUS
<1>2. PICK done : /\ done[0] = Policy!Visited(ctx, parts)
                  /\ \A k \in 1..Len(parts) : done[k] = Policy!RewritePart(done[k - 1], k, visit)
                  /\ Policy!RewriteParts(parts, ctx, visit) = done[Len(parts)]
  BY <1>1, PartsLoop
<1>3. Right(0, done[0])
  <2>1. done[0].ctx = ctx /\ done[0].tree = parts
    BY <1>2 DEF Policy!Visited
  <2>2. Refused(p, ctx)
    BY DEF Refused, Policy!Stopped
  <2>3. after(0) = parts
    BY <1>1
  <2> QED
    BY <2>1, <2>2, <2>3
<1>4. ASSUME NEW k \in 1..Len(parts), Right(k - 1, done[k - 1]) PROVE Right(k, done[k])
  <2> DEFINE d == done[k - 1]
             v == visit[d.ctx][d.tree[k]]
  <2>1. done[k] = IF Policy!Stopped(d.ctx) THEN d ELSE [ctx |-> v.ctx, tree |-> [d.tree EXCEPT ![k] = v.tree]]
    BY <1>2 DEF Policy!RewritePart, Policy!Visited
  <2>2. \A i \in 1..k : i \in 1..(k - 1) \/ i = k
    OBVIOUS
  <2>3. 1..(k - 1) \subseteq 1..k
    OBVIOUS
  <2>4. CASE Policy!Stopped(d.ctx)
    <3>1. done[k] = d /\ \E i \in 1..(k - 1) : must(i)
      BY <1>4, <2>1, <2>4
    <3>2. \E i \in 1..k : must(i)
      BY <2>3, <3>1
    <3> QED
      BY <1>4, <2>4, <3>1, <3>2
  <2>5. CASE ~Policy!Stopped(d.ctx)
    <3>1. d.tree = after(k - 1) /\ d.tree[k] = parts[k] /\ parts[k] \in S
      BY <1>1, <1>4, <2>5
    <3>2. InScope(d.ctx) = names
      BY <1>4 DEF InScope
    <3>3. Outcome(p, v, d.ctx, seen[names][parts[k]], protected[names][parts[k]])
      BY <1>4, <2>5, <3>1, <3>2 DEF Sound
    <3>4. done[k] = [ctx |-> v.ctx, tree |-> [d.tree EXCEPT ![k] = v.tree]]
      <4> HIDE DEF v, d
      <4> QED
        BY <2>1, <2>5
    <3>5. done[k].ctx = v.ctx /\ done[k].tree = [d.tree EXCEPT ![k] = v.tree]
      <4> HIDE DEF v, d
      <4> QED
        BY <3>4
    <3>6. v.ctx \in Policy!Contexts /\ v.ctx.names = ctx.names /\ Refused(p, v.ctx)
      BY <1>4, <3>3 DEF Outcome
    <3>7. Policy!Stopped(v.ctx) <=> must(k)
      BY <3>3 DEF Outcome
    <3>8. ~ \E i \in 1..(k - 1) : must(i)
      BY <1>4, <2>5
    <3>9. ~Policy!Stopped(v.ctx) => [d.tree EXCEPT ![k] = v.tree] = after(k)
      <4>1. SUFFICES ASSUME v.tree = protected[names][parts[k]] PROVE [d.tree EXCEPT ![k] = v.tree] = after(k)
        BY <3>3 DEF Outcome
      <4> DEFINE new == [d.tree EXCEPT ![k] = v.tree]
      <4> HIDE DEF v, d
      <4>2. \A i \in DOMAIN parts : new[i] = after(k)[i]
        BY <1>1, <3>1, <4>1
      <4>3. new = [i \in DOMAIN parts |-> new[i]] /\ after(k) = [i \in DOMAIN parts |-> after(k)[i]]
        BY <3>1
      <4> HIDE DEF new, after
      <4> QED
        BY <4>2, <4>3 DEF new
    <3> HIDE DEF must, after, v, d
    <3>10. Policy!Stopped(v.ctx) <=> \E i \in 1..k : must(i)
      BY <2>2, <3>7, <3>8
    <3> QED
      BY <3>5, <3>6, <3>9, <3>10
  <2> QED
    BY <2>4, <2>5
<1> HIDE DEF Right
<1>5. \A k \in 0..Len(parts) : Right(k, done[k])
  <2> DEFINE bad == {k \in 0..Len(parts) : ~Right(k, done[k])}
  <2> SUFFICES ASSUME bad # {} PROVE FALSE
    OBVIOUS
  <2>1. bad \subseteq Nat
    OBVIOUS
  <2>2. PICK k \in bad : \A j \in bad : k <= j
    BY <2>1, LeastLevel
  <2>3. k \in 1..Len(parts) /\ k - 1 \in 0..Len(parts) /\ k - 1 \notin bad
    BY <1>1, <1>3, <2>2
  <2> QED
    BY <1>4, <2>2, <2>3
<1>6. Right(Len(parts), done[Len(parts)])
  BY <1>1, <1>5
<1>7. after(Len(parts)) = [i \in DOMAIN parts |-> protected[names][parts[i]]]
  BY <1>1
<1> HIDE DEF after, must, names
<1> QED
  BY <1>1, <1>2, <1>6, <1>7 DEF Right, must, names

\* A name comes into scope behind its definition.
LEMMA AppendScope ==
  ASSUME NEW ctx \in Policy!Contexts, NEW name \in STRING
  PROVE  LET after == [ctx EXCEPT !.names = Append(@, name)]
         IN  /\ after \in Policy!Contexts /\ InScope(after) = InScope(ctx) \union {name}
             /\ after.error = ctx.error /\ after.denied = ctx.denied
<1> DEFINE after == [ctx EXCEPT !.names = Append(ctx.names, name)]
           names == ctx.names
           longer == Append(names, name)
<1>1. ctx \in [names : Seq(STRING), error : BOOLEAN, denied : BOOLEAN]
  BY DEF Policy!Contexts
<1>2. names \in Seq(STRING)
  BY <1>1
<1>3. longer \in Seq(STRING) /\ Len(longer) = Len(names) + 1 /\ Len(names) \in Nat
  BY <1>2
<1>4. /\ \A i \in 1..Len(names) : longer[i] = names[i]
      /\ longer[Len(names) + 1] = name
      /\ DOMAIN names = 1..Len(names) /\ DOMAIN longer = 1..(Len(names) + 1)
  BY <1>2, <1>3
<1>5. {longer[i] : i \in DOMAIN longer} = {names[i] : i \in DOMAIN names} \union {name}
  <2>1. \A i : i \in 1..(Len(names) + 1) <=> i \in 1..Len(names) \/ i = Len(names) + 1
    BY <1>3
  <2> HIDE DEF longer, names
  <2>2. \A x : (\E i \in DOMAIN longer : x = longer[i]) <=> (\E i \in DOMAIN names : x = names[i]) \/ x = name
    BY <1>4, <2>1
  <2> QED
    BY <2>2
<1> HIDE DEF longer
<1>6. after.names = longer /\ after.error = ctx.error /\ after.denied = ctx.denied
  BY <1>1 DEF longer
<1>7. after \in Policy!Contexts
  BY <1>1, <1>3 DEF Policy!Contexts, longer
<1> HIDE DEF after
<1> QED
  BY <1>5, <1>6, <1>7 DEF InScope, after

\* The common table expressions of a tree, each secured for the names it sees.
SecuredCtes(tree, names, protected) ==
  [i \in DOMAIN tree.ctes |->
     [tree.ctes[i] EXCEPT !.node = protected[Policy!VisibleTo(tree, i, names)][@]]]

\* Visiting them stops if one of them must, or leaves them secured and their names in scope.
CtesOutcome(p, v, ctx, tree, seen, protected) ==
  LET names == InScope(ctx)
      visible(i) == Policy!VisibleTo(tree, i, names)
  IN  /\ v.ctx \in Policy!Contexts /\ Refused(p, v.ctx)
      /\ Policy!Stopped(v.ctx) <=>
           \E i \in DOMAIN tree.ctes : MustStop(p, seen[visible(i)][tree.ctes[i].node])
      /\ ~Policy!Stopped(v.ctx) =>
           InScope(v.ctx) = Policy!VisibleIn(tree, names) /\ v.tree = SecuredCtes(tree, names, protected)

\* The common table expressions of a node, one after the other.
LEMMA CtesRight ==
  ASSUME NEW p, p.authenticated \in BOOLEAN, NEW S, NEW visit, NEW seen, NEW protected,
         Sound(p, S, visit, seen, protected),
         NEW tree, tree.ctes \in Seq([name : STRING, node : S]), NEW ctx \in Policy!Contexts, ~Policy!Stopped(ctx)
  PROVE  CtesOutcome(p, Policy!RewriteCtes(tree.ctes, ctx, p, visit), ctx, tree, seen, protected)
<1> DEFINE ctes == tree.ctes
           names == InScope(ctx)
           visible(i) == Policy!VisibleTo(tree, i, names)
           must(i) == MustStop(p, seen[visible(i)][ctes[i].node])
           secured(i) == [ctes[i] EXCEPT !.node = protected[visible(i)][@]]
           after(k) == [i \in DOMAIN ctes |-> IF i <= k THEN secured(i) ELSE ctes[i]]
           Right(k, d) == /\ d.ctx \in Policy!Contexts /\ Refused(p, d.ctx)
                          /\ Policy!Stopped(d.ctx) <=> \E i \in 1..k : must(i)
                          /\ ~Policy!Stopped(d.ctx) => InScope(d.ctx) = visible(k + 1) /\ d.tree = after(k)
<1>1. /\ Len(ctes) \in Nat /\ DOMAIN ctes = 1..Len(ctes)
      /\ \A i \in 1..Len(ctes) : ctes[i].name \in STRING /\ ctes[i].node \in S
  <2> DEFINE Entry == [name : STRING, node : S]
  <2>1. \A e \in Entry : e.name \in STRING /\ e.node \in S
    OBVIOUS
  <2>2. ctes \in Seq(Entry)
    OBVIOUS
  <2> HIDE DEF Entry, ctes
  <2>3. Len(ctes) \in Nat /\ DOMAIN ctes = 1..Len(ctes) /\ \A i \in 1..Len(ctes) : ctes[i] \in Entry
    BY <2>2
  <2> QED
    BY <2>1, <2>3
<1>2. PICK done : /\ done[0] = Policy!Visited(ctx, ctes)
                  /\ \A k \in 1..Len(ctes) : done[k] = Policy!RewriteCte(done[k - 1], k, p, visit)
                  /\ Policy!RewriteCtes(ctes, ctx, p, visit) = done[Len(ctes)]
  <2> HIDE DEF ctes
  <2> QED
    BY <1>1, CtesLoop
<1>3. Right(0, done[0])
  <2>1. done[0].ctx = ctx /\ done[0].tree = ctes
    BY <1>2 DEF Policy!Visited
  <2>2. Refused(p, ctx)
    BY DEF Refused, Policy!Stopped
  <2>3. after(0) = ctes
    BY <1>1
  <2>4. visible(0 + 1) = names
    BY DEF Policy!VisibleTo
  <2> HIDE DEF must, after, visible, names
  <2> QED
    BY <2>1, <2>2, <2>3, <2>4 DEF names
<1>4. ASSUME NEW k \in 1..Len(ctes), Right(k - 1, done[k - 1]) PROVE Right(k, done[k])
  <2> DEFINE d == done[k - 1]
             cte == d.tree[k]
             v == visit[d.ctx][cte.node]
             next == IF Policy!Stopped(v.ctx) THEN Policy!Reject(v.ctx, p) ELSE [v.ctx EXCEPT !.names = Append(@, cte.name)]
             below == [d.tree EXCEPT ![k] = [cte EXCEPT !.node = v.tree]]
  <2>1. done[k] = IF Policy!Stopped(d.ctx) THEN d ELSE [ctx |-> next, tree |-> below]
    BY <1>2 DEF Policy!RewriteCte, Policy!Visited
  <2>2. \A i \in 1..k : i \in 1..(k - 1) \/ i = k
    OBVIOUS
  <2>3. 1..(k - 1) \subseteq 1..k /\ k \in Nat /\ (k - 1) + 1 = k
    OBVIOUS
  <2>4. CASE Policy!Stopped(d.ctx)
    <3>1. done[k] = d /\ \E i \in 1..(k - 1) : must(i)
      <4>1. \E i \in 1..(k - 1) : must(i)
        <5> HIDE DEF must, after, visible, names
        <5> QED
          BY <1>4, <2>4
      <4>2. done[k] = d
        <5> HIDE DEF d, next, below
        <5> QED
          BY <2>1, <2>4
      <4> HIDE DEF must, d
      <4> QED
        BY <4>1, <4>2
    <3>2. \E i \in 1..k : must(i)
      BY <2>3, <3>1
    <3> HIDE DEF must, after, visible, names, d
    <3> QED
      BY <1>4, <2>4, <3>1, <3>2 DEF d
  <2>5. CASE ~Policy!Stopped(d.ctx)
    <3>1. d.ctx \in Policy!Contexts /\ InScope(d.ctx) = visible(k) /\ d.tree = after(k - 1)
      <4> HIDE DEF visible, after, must, names
      <4> QED
        BY <1>4, <2>3, <2>5
    <3>2. cte = ctes[k] /\ cte.node \in S /\ cte.name \in STRING
      BY <1>1, <3>1
    <3>3. Outcome(p, v, d.ctx, seen[visible(k)][cte.node], protected[visible(k)][cte.node])
      <4> HIDE DEF visible, cte, d
      <4> QED
        BY <2>5, <3>1, <3>2 DEF Sound, d
    <3>4. Policy!Stopped(v.ctx) <=> must(k)
      BY <3>2, <3>3 DEF Outcome
    <3>5. ~ \E i \in 1..(k - 1) : must(i)
      BY <1>4, <2>5
    <3>6. v.ctx \in Policy!Contexts /\ v.ctx.names = d.ctx.names /\ Refused(p, v.ctx)
      BY <3>3 DEF Outcome
    <3>7. InScope(v.ctx) = visible(k)
      BY <3>1, <3>6 DEF InScope
    <3>8. done[k].ctx = next /\ done[k].tree = below
      <4> HIDE DEF next, below, d
      <4> QED
        BY <2>1, <2>5
    <3>9. CASE Policy!Stopped(v.ctx)
      <4>1. next = Policy!Reject(v.ctx, p)
        <5> HIDE DEF v, cte
        <5> QED
          BY <3>9
      <4> HIDE DEF v, next, below, must, after, visible, cte, d, names
      <4>2. next \in Policy!Contexts /\ Policy!Stopped(next) /\ Refused(p, next)
        BY <3>6, <4>1, RejectStops
      <4>3. \E i \in 1..k : must(i)
        BY <2>3, <3>4, <3>9
      <4> QED
        BY <3>8, <4>2, <4>3
    <3>10. CASE ~Policy!Stopped(v.ctx)
      <4>1. next = [v.ctx EXCEPT !.names = Append(@, cte.name)]
        <5> HIDE DEF v, cte
        <5> QED
          BY <3>10
      <4>2. v.tree = protected[visible(k)][cte.node]
        BY <3>3, <3>10 DEF Outcome
      <4>3. below = after(k)
        <5> DEFINE own == [cte EXCEPT !.node = v.tree]
        <5>1. own = secured(k)
          BY <3>2, <4>2
        <5> HIDE DEF own, secured, v, cte, d
        <5>2. \A i \in DOMAIN ctes : [d.tree EXCEPT ![k] = own][i] = after(k)[i]
          BY <1>1, <3>1, <5>1
        <5>3. /\ [d.tree EXCEPT ![k] = own] = [i \in DOMAIN ctes |-> [d.tree EXCEPT ![k] = own][i]]
              /\ after(k) = [i \in DOMAIN ctes |-> after(k)[i]]
          BY <3>1
        <5> HIDE DEF after
        <5> QED
          BY <5>2, <5>3 DEF own
      <4>4. visible(k + 1) = visible(k) \union {cte.name}
        <5>1. 1..((k + 1) - 1) = 1..(k - 1) \union {k}
          BY <2>3
        <5> HIDE DEF cte
        <5> QED
          BY <3>2, <5>1 DEF Policy!VisibleTo
      <4> HIDE DEF v, next, below, must, after, visible, cte, d, names
      <4>5. next \in Policy!Contexts /\ InScope(next) = visible(k + 1) /\ next.error = v.ctx.error /\ next.denied = v.ctx.denied
        BY <3>2, <3>6, <3>7, <4>1, <4>4, AppendScope
      <4>6. ~Policy!Stopped(next) /\ Refused(p, next)
        BY <3>10, <4>5 DEF Policy!Stopped, Refused
      <4>7. ~ \E i \in 1..k : must(i)
        BY <2>2, <3>4, <3>5, <3>10
      <4> QED
        BY <3>8, <4>3, <4>5, <4>6, <4>7
    <3> HIDE DEF Right, v, next, below, must, after, visible, cte, d, names
    <3> QED
      BY <3>9, <3>10
  <2> QED
    BY <2>4, <2>5
<1> HIDE DEF Right
<1>5. \A k \in 0..Len(ctes) : Right(k, done[k])
  <2> DEFINE bad == {k \in 0..Len(ctes) : ~Right(k, done[k])}
  <2> SUFFICES ASSUME bad # {} PROVE FALSE
    OBVIOUS
  <2>1. bad \subseteq Nat
    OBVIOUS
  <2>2. PICK k \in bad : \A j \in bad : k <= j
    BY <2>1, LeastLevel
  <2>3. k \in 1..Len(ctes) /\ k - 1 \in 0..Len(ctes) /\ k - 1 \notin bad
    BY <1>1, <1>3, <2>2
  <2> QED
    BY <1>4, <2>2, <2>3
<1>6. Right(Len(ctes), done[Len(ctes)])
  BY <1>1, <1>5
<1>7. after(Len(ctes)) = [i \in DOMAIN ctes |-> secured(i)]
  BY <1>1
<1>8. visible(Len(ctes) + 1) = Policy!VisibleIn(tree, names)
  <2>1. 1..((Len(ctes) + 1) - 1) = DOMAIN ctes
    BY <1>1
  <2> QED
    BY <2>1 DEF Policy!VisibleTo, Policy!VisibleIn
<1>9. [i \in DOMAIN ctes |-> secured(i)] = SecuredCtes(tree, names, protected)
  BY DEF SecuredCtes
<1> HIDE DEF after, must, names, visible, secured
<1> QED
  BY <1>1, <1>2, <1>6, <1>7, <1>8, <1>9 DEF CtesOutcome, Right, must, names, visible

\* What is seen of a tree itself.
Sight(tree, names) == IF Policy!IsTable(tree, names) THEN <<"table", tree.name>> ELSE <<tree.kind, "">>

\* An alarm by kind and name.
LEMMA AlarmAt ==
  ASSUME NEW p, NEW kind, NEW name
  PROVE  Alarming(p, <<kind, name>>) <=>
           \/ kind \in {"function", "macro", "recursive"}
           \/ kind = "table" /\ name \in p.views
           \/ kind = "table" /\ Policy!Unwritable(p, name)
           \/ kind = "table" /\ ~p.authenticated /\ Policy!IsBound(p, name)
<1> DEFINE sight == <<kind, name>>
<1>1. sight[1] = kind /\ sight[2] = name
  OBVIOUS
<1> HIDE DEF sight
<1> QED
  BY <1>1 DEF Alarming, sight

\* The fields of a tree.
LEMMA TreeFacts ==
  ASSUME NEW S, NEW tree \in Policy!Above(S)
  PROVE  /\ tree.kind \in Policy!QueryNodes \union Policy!Expressions \union Policy!Sources
         /\ tree.name \in STRING /\ tree.qualified \in BOOLEAN
         /\ tree.ctes \in Seq([name : STRING, node : S]) /\ tree.parts \in Seq(S)
         /\ tree.kind \notin Policy!QueryNodes => tree.ctes = <<>>
         /\ tree.kind = "base" => tree.parts = <<>>
         /\ DOMAIN tree = {"kind", "name", "qualified", "ctes", "parts"}
<1> DEFINE C == Seq([name : STRING, node : S])
           P == Seq(S)
           K == Policy!QueryNodes \union Policy!Expressions \union Policy!Sources
<1>1. /\ tree \in [kind : K, name : STRING, qualified : BOOLEAN, ctes : C, parts : P]
      /\ tree.ctes # <<>> => tree.kind \in Policy!QueryNodes
      /\ tree.kind = "base" => tree.parts = <<>>
  BY DEF Policy!Above
<1> HIDE DEF C, P, K
<1>2. /\ tree.kind \in K /\ tree.name \in STRING /\ tree.qualified \in BOOLEAN /\ tree.ctes \in C /\ tree.parts \in P
      /\ DOMAIN tree = {"kind", "name", "qualified", "ctes", "parts"}
  BY <1>1
<1> QED
  BY <1>1, <1>2 DEF C, P, K

\* A tree must not be run if it, one of its definitions or one of its parts must not.
LEMMA SeenMustStop ==
  ASSUME NEW p, NEW tree, NEW names, NEW seen
  PROVE  MustStop(p, Policy!SeenIn(tree, names, seen)) <=>
           \/ Alarming(p, Sight(tree, names))
           \/ \E i \in DOMAIN tree.ctes : MustStop(p, seen[Policy!VisibleTo(tree, i, names)][tree.ctes[i].node])
           \/ \E i \in DOMAIN tree.parts : MustStop(p, seen[Policy!VisibleIn(tree, names)][tree.parts[i]])
<1> DEFINE A(i) == seen[Policy!VisibleTo(tree, i, names)][tree.ctes[i].node]
           B(i) == seen[Policy!VisibleIn(tree, names)][tree.parts[i]]
           UA == UNION {A(i) : i \in DOMAIN tree.ctes}
           UB == UNION {B(i) : i \in DOMAIN tree.parts}
<1>1. Policy!SeenIn(tree, names, seen) = {Sight(tree, names)} \union UA \union UB
  BY DEF Policy!SeenIn, Sight
<1> HIDE DEF A, B
<1>2. \A x : x \in Policy!SeenIn(tree, names, seen) <=>
               x = Sight(tree, names) \/ (\E i \in DOMAIN tree.ctes : x \in A(i)) \/ (\E i \in DOMAIN tree.parts : x \in B(i))
  <2>1. \A x : x \in UA <=> \E i \in DOMAIN tree.ctes : x \in A(i)
    OBVIOUS
  <2>2. \A x : x \in UB <=> \E i \in DOMAIN tree.parts : x \in B(i)
    OBVIOUS
  <2> HIDE DEF UA, UB
  <2> QED
    BY <1>1, <2>1, <2>2
<1>3. MustStop(p, Policy!SeenIn(tree, names, seen)) <=>
        \/ Alarming(p, Sight(tree, names))
        \/ \E i \in DOMAIN tree.ctes : MustStop(p, A(i))
        \/ \E i \in DOMAIN tree.parts : MustStop(p, B(i))
  BY <1>2 DEF MustStop
<1> QED
  BY <1>3 DEF A, B

\* Without definitions of its own a tree sees what is visible above it.
LEMMA NoDefinitions ==
  ASSUME NEW tree, tree.ctes = <<>>, NEW names
  PROVE  Policy!VisibleIn(tree, names) = names /\ DOMAIN tree.ctes = {}
<1>1. DOMAIN tree.ctes = {}
  OBVIOUS
<1> QED
  BY <1>1 DEF Policy!VisibleIn

\* Without definitions, and unless it reads a bound table, only the parts of a tree change.
LEMMA OnlyPartsProtected ==
  ASSUME NEW S, NEW tree \in Policy!Above(S), tree.ctes = <<>>, NEW names, NEW p, NEW protected,
         ~(Policy!IsTable(tree, names) /\ Policy!IsBound(p, tree.name))
  PROVE  Policy!ProtectedIn(tree, names, p, protected) =
           [tree EXCEPT !.parts = [i \in DOMAIN tree.parts |-> protected[names][tree.parts[i]]]]
<1> DEFINE secured(i) == [tree.ctes[i] EXCEPT !.node = protected[Policy!VisibleTo(tree, i, names)][@]]
           inner == [i \in DOMAIN tree.ctes |-> secured(i)]
           parts == [i \in DOMAIN tree.parts |-> protected[names][tree.parts[i]]]
<1>1. Policy!VisibleIn(tree, names) = names /\ DOMAIN tree.ctes = {}
  BY NoDefinitions
<1>2. inner = <<>>
  <2> HIDE DEF secured
  <2> QED
    BY <1>1
<1>3. Policy!ProtectedIn(tree, names, p, protected) = [tree EXCEPT !.ctes = inner, !.parts = parts]
  BY <1>1 DEF Policy!ProtectedIn
<1>4. DOMAIN tree = {"kind", "name", "qualified", "ctes", "parts"}
  BY TreeFacts
<1> HIDE DEF inner, parts
<1>5. [tree EXCEPT !.ctes = <<>>, !.parts = parts] = [tree EXCEPT !.parts = parts]
  <2>1. \A f \in DOMAIN tree : [tree EXCEPT !.ctes = <<>>, !.parts = parts][f] = [tree EXCEPT !.parts = parts][f]
    BY <1>4
  <2> QED
    BY <2>1, <1>4
<1> QED
  BY <1>2, <1>3, <1>5 DEF parts

\* A tree without parts is secured by leaving it alone, unless it reads a bound table.
LEMMA LeafProtected ==
  ASSUME NEW S, NEW tree \in Policy!Above(S), tree.ctes = <<>>, tree.parts = <<>>, NEW names, NEW p, NEW protected,
         ~(Policy!IsTable(tree, names) /\ Policy!IsBound(p, tree.name))
  PROVE  Policy!ProtectedIn(tree, names, p, protected) = tree
<1> DEFINE secured(i) == protected[names][tree.parts[i]]
           parts == [i \in DOMAIN tree.parts |-> secured(i)]
<1>1. Policy!ProtectedIn(tree, names, p, protected) = [tree EXCEPT !.parts = parts]
  BY OnlyPartsProtected
<1>2. parts = <<>>
  <2> HIDE DEF secured
  <2> QED
    OBVIOUS
<1>3. DOMAIN tree = {"kind", "name", "qualified", "ctes", "parts"} /\ tree = [f \in DOMAIN tree |-> tree[f]]
  <2>1. tree \in [kind : Policy!QueryNodes \union Policy!Expressions \union Policy!Sources, name : STRING, qualified : BOOLEAN,
                  ctes : Seq([name : STRING, node : S]), parts : Seq(S)]
    BY DEF Policy!Above
  <2> QED
    BY <2>1, TreeFacts
<1> HIDE DEF parts
<1>4. \A f \in DOMAIN tree : [tree EXCEPT !.parts = <<>>][f] = tree[f]
  OBVIOUS
<1>5. [tree EXCEPT !.parts = <<>>] = tree
  BY <1>3, <1>4
<1> QED
  BY <1>1, <1>2, <1>5

\* A visit that leaves an unstopped context as it is.
LEMMA Untouched ==
  ASSUME NEW p, NEW tree, NEW ctx \in Policy!Contexts, ~Policy!Stopped(ctx), NEW seen, ~MustStop(p, seen)
  PROVE  Outcome(p, Policy!Visited(ctx, tree), ctx, seen, tree)
BY DEF Outcome, Policy!Visited, Refused, Policy!Stopped

\* A visit that is refused.
LEMMA Turned ==
  ASSUME NEW p, p.authenticated \in BOOLEAN, NEW tree, NEW ctx \in Policy!Contexts, Refused(p, ctx),
         NEW seen, MustStop(p, seen), NEW protected, NEW before, before.names = ctx.names
  PROVE  Outcome(p, Policy!Visited(Policy!Reject(ctx, p), tree), before, seen, protected)
BY RejectStops DEF Outcome, Policy!Visited

\* A visit that is denied.
LEMMA DenialStops ==
  ASSUME NEW p, ~p.authenticated, NEW tree, NEW ctx \in Policy!Contexts, ~Policy!Stopped(ctx),
         NEW seen, MustStop(p, seen), NEW protected
  PROVE  Outcome(p, Policy!Visited([ctx EXCEPT !.denied = TRUE], tree), ctx, seen, protected)
<1> DEFINE d == [ctx EXCEPT !.denied = TRUE]
<1>1. ctx \in [names : Seq(STRING), error : BOOLEAN, denied : BOOLEAN]
  BY DEF Policy!Contexts
<1>2. d \in Policy!Contexts
  BY <1>1 DEF Policy!Contexts
<1>3. d.names = ctx.names /\ d.denied = TRUE
  BY <1>1
<1> HIDE DEF d
<1>4. Policy!Stopped(d) /\ Refused(p, d)
  BY <1>3 DEF Policy!Stopped, Refused
<1>5. Policy!Visited(d, tree).ctx = d
  BY DEF Policy!Visited
<1> QED
  BY <1>2, <1>3, <1>4, <1>5 DEF Outcome, d

\* A table: left alone if a common table expression hides it or nothing is bound to it,
\* else turned away or secured.
LEMMA BaseRight ==
  ASSUME NEW p, p.authenticated \in BOOLEAN, NEW S, NEW visit, NEW seen, NEW protected,
         NEW tree \in Policy!Above(S), tree.kind = "base", NEW ctx \in Policy!Contexts, ~Policy!Stopped(ctx)
  PROVE  LET names == InScope(ctx)
         IN  Outcome(p, Policy!RewriteBaseTable(tree, ctx, p), ctx,
                     Policy!SeenIn(tree, names, seen), Policy!ProtectedIn(tree, names, p, protected))
<1> DEFINE names == InScope(ctx)
           all == Policy!SeenIn(tree, names, seen)
           secured == Policy!ProtectedIn(tree, names, p, protected)
           shadowed == ~tree.qualified /\ Policy!Contains(ctx.names, tree.name)
           unwritable == Policy!Unwritable(p, tree.name)
           v == Policy!RewriteBaseTable(tree, ctx, p)
<1>1. tree.ctes = <<>> /\ tree.parts = <<>> /\ tree.qualified \in BOOLEAN
  BY TreeFacts DEF Policy!QueryNodes
<1>2. Policy!IsTable(tree, names) <=> ~shadowed
  <2>1. ctx.names \in Seq(STRING)
    BY DEF Policy!Contexts
  <2>2. Policy!Contains(ctx.names, tree.name) <=> tree.name \in names
    BY <2>1 DEF Policy!Contains, InScope
  <2> QED
    BY <1>1, <2>2 DEF Policy!IsTable
<1>3. MustStop(p, all) <=> Alarming(p, Sight(tree, names))
  <2>1. DOMAIN tree.ctes = {} /\ DOMAIN tree.parts = {}
    BY <1>1
  <2> QED
    BY <2>1, SeenMustStop
<1>4. Alarming(p, Sight(tree, names)) <=>
        ~shadowed /\ (tree.name \in p.views \/ unwritable \/ (~p.authenticated /\ Policy!IsBound(p, tree.name)))
  <2> HIDE DEF shadowed, names
  <2>1. CASE shadowed
    <3>1. Sight(tree, names) = <<"base", "">>
      BY <1>2, <2>1 DEF Sight
    <3> QED
      BY <2>1, <3>1, AlarmAt
  <2>2. CASE ~shadowed
    <3>1. Sight(tree, names) = <<"table", tree.name>>
      BY <1>2, <2>2 DEF Sight
    <3> QED
      BY <2>2, <3>1, AlarmAt
  <2> QED
    BY <2>1, <2>2
<1>5. ~(~shadowed /\ Policy!IsBound(p, tree.name)) => secured = tree
  BY <1>1, <1>2, LeafProtected
<1>6. ~shadowed /\ Policy!IsBound(p, tree.name) => secured = Policy!Secure(p, tree.name)
  BY <1>2 DEF Policy!ProtectedIn
<1>7. Refused(p, ctx)
  BY DEF Refused, Policy!Stopped
<1>8. v = IF shadowed THEN Policy!Visited(ctx, tree)
          ELSE IF tree.name \in p.views THEN Policy!Visited(Policy!Reject(ctx, p), tree)
          ELSE IF ~Policy!IsBound(p, tree.name) THEN Policy!Visited(ctx, tree)
          ELSE IF ~p.authenticated THEN Policy!Visited([ctx EXCEPT !.denied = TRUE], tree)
          ELSE IF unwritable THEN Policy!Visited(Policy!Reject(ctx, p), tree)
          ELSE Policy!Visited(ctx, Policy!Secure(p, tree.name))
  BY DEF Policy!RewriteBaseTable, Policy!Unwritable
<1>9. unwritable => Policy!IsBound(p, tree.name)
  BY DEF Policy!Unwritable
<1> HIDE DEF v, all, secured, shadowed, names, unwritable
<1>10. CASE shadowed \/ (tree.name \notin p.views /\ ~Policy!IsBound(p, tree.name))
  <2>1. v = Policy!Visited(ctx, tree) /\ secured = tree /\ ~MustStop(p, all)
    BY <1>3, <1>4, <1>5, <1>8, <1>10, <1>9
  <2> QED
    BY <2>1, Untouched DEF v, all, secured, names
<1>11. CASE ~shadowed /\ tree.name \in p.views
  <2>1. v = Policy!Visited(Policy!Reject(ctx, p), tree) /\ MustStop(p, all)
    BY <1>3, <1>4, <1>8, <1>11
  <2> QED
    BY <1>7, <2>1, Turned DEF v, all, secured, names
<1>12. CASE ~shadowed /\ tree.name \notin p.views /\ Policy!IsBound(p, tree.name) /\ ~p.authenticated
  <2>1. v = Policy!Visited([ctx EXCEPT !.denied = TRUE], tree) /\ MustStop(p, all)
    BY <1>3, <1>4, <1>8, <1>12
  <2> QED
    BY <1>12, <2>1, DenialStops DEF v, all, secured, names
<1>13. CASE ~shadowed /\ tree.name \notin p.views /\ Policy!IsBound(p, tree.name) /\ p.authenticated /\ unwritable
  <2>1. v = Policy!Visited(Policy!Reject(ctx, p), tree) /\ MustStop(p, all)
    BY <1>3, <1>4, <1>8, <1>13
  <2> QED
    BY <1>7, <2>1, Turned DEF v, all, secured, names
<1>14. CASE ~shadowed /\ tree.name \notin p.views /\ Policy!IsBound(p, tree.name) /\ p.authenticated /\ ~unwritable
  <2>1. v = Policy!Visited(ctx, secured) /\ ~MustStop(p, all)
    BY <1>3, <1>4, <1>6, <1>8, <1>14
  <2> QED
    BY <2>1, Untouched DEF v, all, secured, names
<1> QED
  BY <1>10, <1>11, <1>12, <1>14, <1>13

\* Sources and expressions that are neither tables nor opaque: what holds of the parts
\* holds of the whole.
LEMMA InsideRight ==
  ASSUME NEW p, p.authenticated \in BOOLEAN, NEW S, NEW visit, NEW seen, NEW protected,
         Sound(p, S, visit, seen, protected),
         NEW tree \in Policy!Above(S), tree.kind \notin Policy!QueryNodes \union {"base", "function", "macro"},
         NEW ctx \in Policy!Contexts, ~Policy!Stopped(ctx)
  PROVE  LET names == InScope(ctx)
         IN  Outcome(p, Policy!RewriteInside(tree, ctx, visit), ctx,
                     Policy!SeenIn(tree, names, seen), Policy!ProtectedIn(tree, names, p, protected))
<1> DEFINE names == InScope(ctx)
           all == Policy!SeenIn(tree, names, seen)
           v == Policy!RewriteParts(tree.parts, ctx, visit)
           secured == [i \in DOMAIN tree.parts |-> protected[names][tree.parts[i]]]
<1>1. tree.ctes = <<>> /\ tree.parts \in Seq(S) /\ ~Policy!IsTable(tree, names)
  BY TreeFacts DEF Policy!IsTable
<1>2. /\ v.ctx \in Policy!Contexts /\ v.ctx.names = ctx.names /\ Refused(p, v.ctx)
      /\ Policy!Stopped(v.ctx) <=> \E i \in DOMAIN tree.parts : MustStop(p, seen[names][tree.parts[i]])
      /\ ~Policy!Stopped(v.ctx) => v.tree = secured
  BY <1>1, PartsRight
<1>3. Policy!ProtectedIn(tree, names, p, protected) = [tree EXCEPT !.parts = secured]
  BY <1>1, OnlyPartsProtected
<1>4. ~Alarming(p, Sight(tree, names))
  <2>1. Sight(tree, names) = <<tree.kind, "">>
    BY <1>1 DEF Sight
  <2>2. tree.kind \notin {"function", "macro", "recursive", "table"}
    BY TreeFacts DEF Policy!QueryNodes, Policy!Expressions, Policy!Sources
  <2> QED
    BY <2>1, <2>2, AlarmAt
<1>5. MustStop(p, all) <=> \E i \in DOMAIN tree.parts : MustStop(p, seen[names][tree.parts[i]])
  <2>1. Policy!VisibleIn(tree, names) = names /\ DOMAIN tree.ctes = {}
    BY <1>1, NoDefinitions
  <2> QED
    BY <1>4, <2>1, SeenMustStop
<1>6. Policy!RewriteInside(tree, ctx, visit) = [ctx |-> v.ctx, tree |-> [tree EXCEPT !.parts = v.tree]]
  BY DEF Policy!RewriteInside, Policy!Visited
<1> HIDE DEF v, all, secured, names
<1>7. /\ Policy!RewriteInside(tree, ctx, visit).ctx = v.ctx
      /\ Policy!RewriteInside(tree, ctx, visit).tree = [tree EXCEPT !.parts = v.tree]
  BY <1>6
<1>8. Policy!Stopped(v.ctx) <=> MustStop(p, all)
  BY <1>2, <1>5
<1>9. ~Policy!Stopped(v.ctx) => [tree EXCEPT !.parts = v.tree] = Policy!ProtectedIn(tree, names, p, protected)
  BY <1>2, <1>3
<1> QED
  BY <1>2, <1>7, <1>8, <1>9 DEF Outcome, all, names

\* What cannot be looked into is refused.
LEMMA OpaqueStops ==
  ASSUME NEW p, NEW tree, tree.kind \in {"function", "macro", "recursive"}, NEW names, NEW seen
  PROVE  MustStop(p, Policy!SeenIn(tree, names, seen))
<1>1. Sight(tree, names) = <<tree.kind, "">>
  BY DEF Sight, Policy!IsTable
<1>2. Alarming(p, Sight(tree, names))
  BY <1>1, AlarmAt
<1> QED
  BY <1>2, SeenMustStop

\* A source of any kind.
LEMMA TableRefRight ==
  ASSUME NEW p, p.authenticated \in BOOLEAN, NEW S, NEW visit, NEW seen, NEW protected,
         Sound(p, S, visit, seen, protected),
         NEW tree \in Policy!Above(S), tree.kind \in Policy!Sources,
         NEW ctx \in Policy!Contexts, ~Policy!Stopped(ctx)
  PROVE  LET names == InScope(ctx)
         IN  Outcome(p, Policy!RewriteTableRef(tree, ctx, p, visit), ctx,
                     Policy!SeenIn(tree, names, seen), Policy!ProtectedIn(tree, names, p, protected))
<1> DEFINE names == InScope(ctx)
           v == Policy!RewriteTableRef(tree, ctx, p, visit)
<1>1. CASE tree.kind = "base"
  <2>1. v = Policy!RewriteBaseTable(tree, ctx, p)
    BY <1>1 DEF Policy!RewriteTableRef
  <2> QED
    BY <1>1, <2>1, BaseRight
<1>2. CASE tree.kind = "function"
  <2>1. v = Policy!Visited(Policy!Reject(ctx, p), tree)
    BY <1>2 DEF Policy!RewriteTableRef
  <2>2. Refused(p, ctx) /\ MustStop(p, Policy!SeenIn(tree, names, seen))
    BY <1>2, OpaqueStops DEF Refused, Policy!Stopped
  <2> QED
    BY <2>1, <2>2, Turned
<1>3. CASE tree.kind \notin {"base", "function"}
  <2>1. v = Policy!RewriteInside(tree, ctx, visit)
    BY <1>3 DEF Policy!RewriteTableRef
  <2>2. tree.kind \notin Policy!QueryNodes \union {"base", "function", "macro"}
    BY <1>3 DEF Policy!QueryNodes, Policy!Sources
  <2> QED
    BY <2>1, <2>2, InsideRight
<1> QED
  BY <1>1, <1>2, <1>3

\* An expression of any kind.
LEMMA ExpressionRight ==
  ASSUME NEW p, p.authenticated \in BOOLEAN, NEW S, NEW visit, NEW seen, NEW protected,
         Sound(p, S, visit, seen, protected),
         NEW tree \in Policy!Above(S), tree.kind \in Policy!Expressions,
         NEW ctx \in Policy!Contexts, ~Policy!Stopped(ctx)
  PROVE  LET names == InScope(ctx)
         IN  Outcome(p, Policy!RewriteExpression(tree, ctx, p, visit), ctx,
                     Policy!SeenIn(tree, names, seen), Policy!ProtectedIn(tree, names, p, protected))
<1> DEFINE names == InScope(ctx)
           all == Policy!SeenIn(tree, names, seen)
           secured == Policy!ProtectedIn(tree, names, p, protected)
           inside == Policy!RewriteInside(tree, ctx, visit)
           v == Policy!RewriteExpression(tree, ctx, p, visit)
<1>1. v = IF tree.kind = "macro" THEN Policy!Visited(Policy!Reject(ctx, p), tree)
          ELSE IF tree.kind = "subquery" /\ Policy!Stopped(inside.ctx)
               THEN Policy!Visited(Policy!Reject(inside.ctx, p), inside.tree) ELSE inside
  BY DEF Policy!RewriteExpression
<1>2. CASE tree.kind = "macro"
  <2>1. v = Policy!Visited(Policy!Reject(ctx, p), tree)
    BY <1>1, <1>2
  <2>2. Refused(p, ctx) /\ MustStop(p, all)
    BY <1>2, OpaqueStops DEF Refused, Policy!Stopped
  <2> QED
    BY <2>1, <2>2, Turned
<1>3. CASE tree.kind # "macro"
  <2>1. tree.kind \notin Policy!QueryNodes \union {"base", "function", "macro"}
    BY <1>3 DEF Policy!QueryNodes, Policy!Expressions
  <2>2. Outcome(p, inside, ctx, all, secured)
    BY <2>1, InsideRight
  <2> HIDE DEF v, inside, all, secured, names
  <2>3. CASE tree.kind = "subquery" /\ Policy!Stopped(inside.ctx)
    <3>1. v = Policy!Visited(Policy!Reject(inside.ctx, p), inside.tree)
      BY <1>1, <1>3, <2>3
    <3>2. inside.ctx \in Policy!Contexts /\ Refused(p, inside.ctx) /\ MustStop(p, all) /\ ctx.names = inside.ctx.names
      BY <2>2, <2>3 DEF Outcome
    <3>3. Outcome(p, v, ctx, all, secured)
      BY <3>1, <3>2, Turned
    <3> QED
      BY <3>3 DEF v, all, secured, names
  <2>4. CASE ~(tree.kind = "subquery" /\ Policy!Stopped(inside.ctx))
    <3>1. v = inside
      BY <1>1, <1>3, <2>4
    <3> QED
      BY <2>2, <3>1 DEF v, all, secured, names
  <2> QED
    BY <2>3, <2>4
<1> QED
  BY <1>2, <1>3

\* Leaving a node brings back the names in scope before it, and nothing else changes.
LEMMA ScopeRestored ==
  ASSUME NEW ctx \in Policy!Contexts, NEW after \in Policy!Contexts, NEW p, Refused(p, after)
  PROVE  LET left == Policy!LeaveScope(ctx, after)
         IN  /\ left \in Policy!Contexts /\ left.names = ctx.names /\ Refused(p, left)
             /\ Policy!Stopped(left) <=> Policy!Stopped(after)
<1> DEFINE names == ctx.names
           left == [after EXCEPT !.names = names]
<1>1. after \in [names : Seq(STRING), error : BOOLEAN, denied : BOOLEAN] /\ names \in Seq(STRING)
  BY DEF Policy!Contexts
<1> HIDE DEF names
<1>2. left \in Policy!Contexts
  BY <1>1 DEF Policy!Contexts
<1>3. left.names = names /\ left.error = after.error /\ left.denied = after.denied
  BY <1>1
<1> HIDE DEF left
<1>4. Refused(p, left) /\ (Policy!Stopped(left) <=> Policy!Stopped(after))
  BY <1>3 DEF Refused, Policy!Stopped
<1> QED
  BY <1>2, <1>3, <1>4 DEF left, names, Policy!LeaveScope

\* A query node: its common table expressions, then its parts, which see all of them.
LEMMA NodeRight ==
  ASSUME NEW p, p.authenticated \in BOOLEAN, NEW S, NEW visit, NEW seen, NEW protected,
         Sound(p, S, visit, seen, protected),
         NEW tree \in Policy!Above(S), tree.kind \in Policy!QueryNodes,
         NEW ctx \in Policy!Contexts, ~Policy!Stopped(ctx)
  PROVE  LET names == InScope(ctx)
         IN  Outcome(p, Policy!RewriteNode(tree, ctx, p, visit), ctx,
                     Policy!SeenIn(tree, names, seen), Policy!ProtectedIn(tree, names, p, protected))
<1> DEFINE names == InScope(ctx)
           all == Policy!SeenIn(tree, names, seen)
           secured == Policy!ProtectedIn(tree, names, p, protected)
           ctes == Policy!RewriteCtes(tree.ctes, ctx, p, visit)
           parts == Policy!RewriteParts(tree.parts, ctes.ctx, visit)
           v == Policy!RewriteNode(tree, ctx, p, visit)
           hidden == \E i \in DOMAIN tree.ctes : MustStop(p, seen[Policy!VisibleTo(tree, i, names)][tree.ctes[i].node])
           inside == \E i \in DOMAIN tree.parts : MustStop(p, seen[Policy!VisibleIn(tree, names)][tree.parts[i]])
           inner == SecuredCtes(tree, names, protected)
           outer == [i \in DOMAIN tree.parts |-> protected[Policy!VisibleIn(tree, names)][tree.parts[i]]]
<1>1. tree.ctes \in Seq([name : STRING, node : S]) /\ tree.parts \in Seq(S) /\ ~Policy!IsTable(tree, names)
  BY TreeFacts DEF Policy!IsTable, Policy!QueryNodes
<1>2. /\ ctes.ctx \in Policy!Contexts /\ Refused(p, ctes.ctx)
      /\ Policy!Stopped(ctes.ctx) <=> hidden
      /\ ~Policy!Stopped(ctes.ctx) => InScope(ctes.ctx) = Policy!VisibleIn(tree, names) /\ ctes.tree = inner
  <2>1. tree.ctes \in Seq([name : STRING, node : S])
    BY <1>1
  <2>2. CtesOutcome(p, ctes, ctx, tree, seen, protected)
    BY <2>1, CtesRight
  <2> QED
    BY <2>2 DEF CtesOutcome
<1>3. MustStop(p, all) <=> Alarming(p, Sight(tree, names)) \/ hidden \/ inside
  BY SeenMustStop
<1>4. Alarming(p, Sight(tree, names)) <=> tree.kind = "recursive"
  <2>1. Sight(tree, names) = <<tree.kind, "">>
    BY <1>1 DEF Sight
  <2>2. tree.kind \in {"select", "set", "recursive"}
    BY DEF Policy!QueryNodes
  <2> QED
    BY <2>1, <2>2, AlarmAt
<1>5. secured = [tree EXCEPT !.ctes = inner, !.parts = outer]
  BY <1>1 DEF Policy!ProtectedIn, SecuredCtes
<1>6. v = IF Policy!Stopped(ctes.ctx)
          THEN Policy!Visited(Policy!LeaveScope(ctx, ctes.ctx), [tree EXCEPT !.ctes = ctes.tree])
          ELSE IF tree.kind = "recursive"
               THEN Policy!Visited(Policy!LeaveScope(ctx, Policy!Reject(ctes.ctx, p)), tree)
               ELSE Policy!Visited(Policy!LeaveScope(ctx, parts.ctx),
                                   [tree EXCEPT !.ctes = ctes.tree, !.parts = parts.tree])
  BY DEF Policy!RewriteNode
<1> SUFFICES Outcome(p, v, ctx, all, secured)
  OBVIOUS
<1>7. CASE Policy!Stopped(ctes.ctx)
  <2> DEFINE left == Policy!LeaveScope(ctx, ctes.ctx)
  <2>1. left \in Policy!Contexts /\ left.names = ctx.names /\ Refused(p, left) /\ Policy!Stopped(left)
    BY <1>2, <1>7, ScopeRestored
  <2>2. v.ctx = left
    BY <1>6, <1>7 DEF Policy!Visited
  <2> HIDE DEF left, v, all, secured, hidden, inside, ctes
  <2>3. MustStop(p, all)
    BY <1>2, <1>3, <1>7
  <2> QED
    BY <2>1, <2>2, <2>3 DEF Outcome
<1>8. CASE ~Policy!Stopped(ctes.ctx) /\ tree.kind = "recursive"
  <2> DEFINE turned == Policy!Reject(ctes.ctx, p)
             left == Policy!LeaveScope(ctx, turned)
  <2>1. turned \in Policy!Contexts /\ Policy!Stopped(turned) /\ Refused(p, turned)
    BY <1>2, RejectStops
  <2>2. left \in Policy!Contexts /\ left.names = ctx.names /\ Refused(p, left) /\ Policy!Stopped(left)
    BY <2>1, ScopeRestored
  <2>3. v.ctx = left
    BY <1>6, <1>8 DEF Policy!Visited
  <2> HIDE DEF left, v, all, secured, hidden, inside, ctes
  <2>4. MustStop(p, all)
    BY <1>3, <1>4, <1>8
  <2> QED
    BY <2>2, <2>3, <2>4 DEF Outcome
<1>9. CASE ~Policy!Stopped(ctes.ctx) /\ tree.kind # "recursive"
  <2> DEFINE left == Policy!LeaveScope(ctx, parts.ctx)
             visible == InScope(ctes.ctx)
  <2>1. visible = Policy!VisibleIn(tree, names) /\ ctes.tree = inner
    BY <1>2, <1>9
  <2>2. /\ parts.ctx \in Policy!Contexts /\ Refused(p, parts.ctx)
        /\ Policy!Stopped(parts.ctx) <=> \E i \in DOMAIN tree.parts : MustStop(p, seen[visible][tree.parts[i]])
        /\ ~Policy!Stopped(parts.ctx) => parts.tree = [i \in DOMAIN tree.parts |-> protected[visible][tree.parts[i]]]
    <3>1. ctes.ctx \in Policy!Contexts /\ ~Policy!Stopped(ctes.ctx) /\ tree.parts \in Seq(S)
      BY <1>1, <1>2, <1>9
    <3> HIDE DEF ctes
    <3> QED
      BY <3>1, PartsRight
  <2>3. Policy!Stopped(parts.ctx) <=> inside
    BY <2>1, <2>2
  <2>4. ~Policy!Stopped(parts.ctx) => parts.tree = outer
    BY <2>1, <2>2
  <2>5. left \in Policy!Contexts /\ left.names = ctx.names /\ Refused(p, left)
        /\ (Policy!Stopped(left) <=> Policy!Stopped(parts.ctx))
    <3> HIDE DEF parts
    <3> QED
      BY <2>2, ScopeRestored
  <2>6. v.ctx = left /\ v.tree = [tree EXCEPT !.ctes = ctes.tree, !.parts = parts.tree]
    <3> HIDE DEF v, parts, ctes, left
    <3> QED
      BY <1>6, <1>9 DEF Policy!Visited, left
  <2> HIDE DEF left, v, all, secured, hidden, inside, ctes, parts, inner, outer
  <2>7. Policy!Stopped(left) <=> MustStop(p, all)
    BY <1>2, <1>3, <1>4, <1>9, <2>3, <2>5
  <2>8. ~Policy!Stopped(left) => v.tree = secured
    BY <1>5, <2>1, <2>4, <2>5, <2>6
  <2> QED
    BY <2>5, <2>6, <2>7, <2>8 DEF Outcome
<1> QED
  BY <1>7, <1>8, <1>9

\* A tree of any kind.
LEMMA TreeRight ==
  ASSUME NEW p, p.authenticated \in BOOLEAN, NEW S, NEW visit, NEW seen, NEW protected,
         Sound(p, S, visit, seen, protected),
         NEW tree \in Policy!Above(S), NEW ctx \in Policy!Contexts, ~Policy!Stopped(ctx)
  PROVE  LET names == InScope(ctx)
         IN  Outcome(p, Policy!RewriteTree(tree, ctx, p, visit), ctx,
                     Policy!SeenIn(tree, names, seen), Policy!ProtectedIn(tree, names, p, protected))
<1> DEFINE v == Policy!RewriteTree(tree, ctx, p, visit)
<1>1. tree.kind \in Policy!QueryNodes \union Policy!Expressions \union Policy!Sources
  BY TreeFacts
<1>2. CASE tree.kind \in Policy!QueryNodes
  <2>1. tree.kind \notin Policy!Expressions
    BY <1>2 DEF Policy!Expressions, Policy!QueryNodes
  <2>2. v = Policy!RewriteNode(tree, ctx, p, visit)
    BY <1>2, <2>1 DEF Policy!RewriteTree
  <2> QED
    BY <1>2, <2>2, NodeRight
<1>3. CASE tree.kind \in Policy!Expressions
  <2>1. tree.kind \notin Policy!QueryNodes
    BY <1>3 DEF Policy!Expressions, Policy!QueryNodes
  <2>2. v = Policy!RewriteExpression(tree, ctx, p, visit)
    BY <1>3, <2>1 DEF Policy!RewriteTree
  <2> QED
    BY <1>3, <2>2, ExpressionRight
<1>4. CASE tree.kind \in Policy!Sources
  <2>1. tree.kind \notin Policy!QueryNodes /\ tree.kind \notin Policy!Expressions
    BY <1>4 DEF Policy!Expressions, Policy!QueryNodes, Policy!Sources
  <2>2. v = Policy!RewriteTableRef(tree, ctx, p, visit)
    BY <2>1 DEF Policy!RewriteTree
  <2> QED
    BY <1>4, <2>2, TableRefRight
<1> QED
  BY <1>1, <1>2, <1>3, <1>4

\* Trees of every depth.
LEMMA LevelsRight ==
  ASSUME MaxDepth \in Nat, NEW p, p.authenticated \in BOOLEAN
  PROVE  \A n \in 0..MaxDepth :
           Sound(p, Policy!Trees[n], Policy!Rewriting(p)[n], Policy!Seen[n], Policy!Protected(p)[n])
<1> DEFINE Right(n) == Sound(p, Policy!Trees[n], Policy!Rewriting(p)[n], Policy!Seen[n], Policy!Protected(p)[n])
           bad == {n \in 0..MaxDepth : ~Right(n)}
<1>1. Right(0)
  BY TreeLevels DEF Sound
<1>2. ASSUME NEW n \in 1..MaxDepth, Right(n - 1) PROVE Right(n)
  <2> DEFINE S == Policy!Trees[n - 1]
             visit == Policy!Rewriting(p)[n - 1]
             seen == Policy!Seen[n - 1]
             protected == Policy!Protected(p)[n - 1]
  <2>1. Policy!Trees[n] = Policy!Above(S)
    BY TreeLevels
  <2>2. /\ Policy!Rewriting(p)[n] = Policy!Visits(n, p, visit)
        /\ Policy!Seen[n] = Policy!Sights(n, seen)
        /\ Policy!Protected(p)[n] = Policy!Protections(n, p, protected)
    BY RewritingLevels, SeenLevels, ProtectedLevels
  <2>3. Sound(p, S, visit, seen, protected)
    BY <1>2
  <2> HIDE DEF S, visit, seen, protected
  <2>4. SUFFICES ASSUME NEW ctx \in Policy!Contexts, NEW tree \in Policy!Trees[n], ~Policy!Stopped(ctx)
                 PROVE  Outcome(p, Policy!Rewriting(p)[n][ctx][tree], ctx,
                                Policy!Seen[n][InScope(ctx)][tree], Policy!Protected(p)[n][InScope(ctx)][tree])
    BY DEF Sound
  <2>5. InScope(ctx) \in SUBSET STRING
    BY DEF Policy!Contexts, InScope
  <2>6. Policy!Rewriting(p)[n][ctx][tree] = Policy!RewriteTree(tree, ctx, p, visit)
    BY <2>2 DEF Policy!Visits
  <2>7. Policy!Seen[n][InScope(ctx)][tree] = Policy!SeenIn(tree, InScope(ctx), seen)
    BY <2>2, <2>5 DEF Policy!Sights
  <2>8. Policy!Protected(p)[n][InScope(ctx)][tree] = Policy!ProtectedIn(tree, InScope(ctx), p, protected)
    BY <2>2, <2>5 DEF Policy!Protections
  <2>9. tree \in Policy!Above(S)
    BY <2>1
  <2>10. Outcome(p, Policy!RewriteTree(tree, ctx, p, visit), ctx,
                 Policy!SeenIn(tree, InScope(ctx), seen), Policy!ProtectedIn(tree, InScope(ctx), p, protected))
    BY <2>3, <2>4, <2>9, TreeRight
  <2> QED
    BY <2>6, <2>7, <2>8, <2>10
<1> HIDE DEF Right
<1>3. bad = {}
  <2> SUFFICES ASSUME bad # {} PROVE FALSE
    OBVIOUS
  <2>1. bad \subseteq Nat
    OBVIOUS
  <2>2. PICK n \in bad : \A k \in bad : n <= k
    BY <2>1, LeastLevel
  <2>3. n \in 1..MaxDepth /\ n - 1 \in 0..MaxDepth /\ n - 1 \notin bad
    BY <1>1, <2>2
  <2> QED
    BY <1>2, <2>2, <2>3
<1> QED
  BY <1>3 DEF Right

\* The tables something is bound to.
LEMMA BoundTables ==
  ASSUME NEW p, p.rows \in Seq(RowRule), p.masks \in Seq(MaskRule)
  PROVE  /\ \A table : Policy!IsBound(p, table) <=> table \in Policy!Bound(p)
         /\ Policy!Bound(p) = {} <=> p.rows = <<>> /\ p.masks = <<>>
<1>1. \A table : Policy!IsBound(p, table) <=> table \in Policy!Bound(p)
  BY DEF Policy!IsBound, Policy!RowsOf, Policy!MasksOf, Policy!Bound
<1>2. ASSUME NEW S, NEW s \in Seq(S) PROVE s = <<>> <=> DOMAIN s = {}
  OBVIOUS
<1>3. p.rows = <<>> <=> DOMAIN p.rows = {}
  BY <1>2
<1>4. p.masks = <<>> <=> DOMAIN p.masks = {}
  BY <1>2
<1>5. Policy!Bound(p) = {} <=> DOMAIN p.rows = {} /\ DOMAIN p.masks = {}
  BY DEF Policy!Bound
<1> QED
  BY <1>1, <1>3, <1>4, <1>5

\* The rewriting must stop for what a handler hides, and for a table it must not show.
LEMMA MustStopFor ==
  ASSUME NEW p, p.rows \in Seq(RowRule), p.masks \in Seq(MaskRule), NEW tree
  PROVE  MustStop(p, Policy!SeenBy(tree)) <=>
           \/ Policy!Opaque(tree, p)
           \/ ~p.authenticated /\ Policy!Tables(tree) \intersect Policy!Bound(p) # {}
<1> DEFINE seen == Policy!SeenBy(tree)
<1>1. \A table : table \in Policy!Tables(tree) <=> \E l \in seen : l[1] = "table" /\ l[2] = table
  BY DEF Policy!Tables
<1>2. \A table : Policy!IsBound(p, table) <=> table \in Policy!Bound(p)
  BY BoundTables
<1>3. Policy!Opaque(tree, p) <=>
        \/ \E table : table \in Policy!Tables(tree) /\ table \in p.views
        \/ \E table : table \in Policy!Tables(tree) /\ Policy!Unwritable(p, table)
        \/ \E l \in seen : l[1] \in {"function", "macro", "recursive"}
  BY DEF Policy!Opaque
<1>4. Policy!Tables(tree) \intersect Policy!Bound(p) # {} <=>
        \E table : table \in Policy!Tables(tree) /\ table \in Policy!Bound(p)
  OBVIOUS
<1> HIDE DEF seen
<1>5. MustStop(p, seen) <=>
        \/ \E l \in seen : l[1] \in {"function", "macro", "recursive"}
        \/ \E l \in seen : l[1] = "table" /\ l[2] \in p.views
        \/ \E l \in seen : l[1] = "table" /\ Policy!Unwritable(p, l[2])
        \/ ~p.authenticated /\ \E l \in seen : l[1] = "table" /\ l[2] \in Policy!Bound(p)
  BY <1>2 DEF MustStop, Alarming
<1>6. \A V : (\E table : table \in Policy!Tables(tree) /\ table \in V) <=> (\E l \in seen : l[1] = "table" /\ l[2] \in V)
  BY <1>1
<1>7. (\E table : table \in Policy!Tables(tree) /\ Policy!Unwritable(p, table))
        <=> (\E l \in seen : l[1] = "table" /\ Policy!Unwritable(p, l[2]))
  BY <1>1
<1> QED
  BY <1>3, <1>4, <1>5, <1>6, <1>7 DEF seen

\* A whole handler, with nothing in scope to begin with.
LEMMA EnforcedAlways ==
  ASSUME MaxDepth \in Nat, NEW tree \in Policy!Trees[MaxDepth],
         NEW p, p.rows \in Seq(RowRule), p.masks \in Seq(MaskRule), p.authenticated \in BOOLEAN
  PROVE  Policy!Enforced(tree, p, Policy!RewriteHandlerWithPolicies(tree, p))
<1> DEFINE ctx == Policy!Context
           v == Policy!Rewriting(p)[MaxDepth][ctx][tree]
           secured == Policy!Protected(p)[MaxDepth][{}][tree]
           forbidden == ~p.authenticated /\ Policy!Tables(tree) \intersect Policy!Bound(p) # {}
           result == Policy!RewriteHandlerWithPolicies(tree, p)
<1>1. ctx \in Policy!Contexts /\ ~Policy!Stopped(ctx) /\ InScope(ctx) = {}
  BY DEF Policy!Context, Policy!Contexts, Policy!Stopped, InScope
<1>2. Outcome(p, v, ctx, Policy!SeenBy(tree), secured)
  <2>1. Sound(p, Policy!Trees[MaxDepth], Policy!Rewriting(p)[MaxDepth], Policy!Seen[MaxDepth], Policy!Protected(p)[MaxDepth])
    BY LevelsRight
  <2>2. Outcome(p, v, ctx, Policy!Seen[MaxDepth][InScope(ctx)][tree], Policy!Protected(p)[MaxDepth][InScope(ctx)][tree])
    BY <1>1, <2>1 DEF Sound
  <2> QED
    BY <1>1, <2>2 DEF Policy!SeenBy
<1>3. MustStop(p, Policy!SeenBy(tree)) <=> Policy!Opaque(tree, p) \/ forbidden
  BY MustStopFor
<1>4. Policy!Bound(p) = {} <=> p.rows = <<>> /\ p.masks = <<>>
  BY BoundTables
<1>5. result = IF p.rows = <<>> /\ p.masks = <<>> THEN <<"run", tree>>
               ELSE IF v.ctx.denied THEN <<"denied", tree>>
               ELSE IF v.ctx.error THEN <<"error", tree>>
               ELSE <<"run", v.tree>>
  BY DEF Policy!RewriteHandlerWithPolicies
<1>6. Policy!Enforced(tree, p, result) <=>
        /\ Policy!Bound(p) = {} => result = <<"run", tree>>
        /\ Policy!Bound(p) # {} /\ (Policy!Opaque(tree, p) \/ forbidden) =>
             result[1] = IF p.authenticated THEN "error" ELSE "denied"
        /\ Policy!Bound(p) # {} /\ ~Policy!Opaque(tree, p) /\ ~forbidden => result = <<"run", secured>>
  <2> HIDE DEF result, v
  <2> QED
    BY DEF Policy!Enforced
<1>7. /\ v.ctx.denied => ~p.authenticated
      /\ v.ctx.error => p.authenticated \/ v.ctx.denied
      /\ v.ctx.denied \/ v.ctx.error <=> Policy!Opaque(tree, p) \/ forbidden
      /\ ~(v.ctx.denied \/ v.ctx.error) => v.tree = secured
  BY <1>2, <1>3 DEF Outcome, Refused, Policy!Stopped
<1>8. /\ result = <<"denied", tree>> => result[1] = "denied"
      /\ result = <<"error", tree>> => result[1] = "error"
  OBVIOUS
<1> HIDE DEF v, secured, forbidden, result
<1>9. CASE Policy!Bound(p) = {}
  <2>1. result = <<"run", tree>>
    BY <1>4, <1>5, <1>9
  <2> QED
    BY <1>6, <1>9, <2>1 DEF result
<1>10. CASE Policy!Bound(p) # {} /\ v.ctx.denied
  <2>1. result[1] = "denied" /\ ~p.authenticated /\ (Policy!Opaque(tree, p) \/ forbidden)
    BY <1>4, <1>5, <1>7, <1>8, <1>10
  <2> QED
    BY <1>6, <1>10, <2>1 DEF result
<1>11. CASE Policy!Bound(p) # {} /\ ~v.ctx.denied /\ v.ctx.error
  <2>1. result[1] = "error" /\ p.authenticated /\ (Policy!Opaque(tree, p) \/ forbidden)
    BY <1>4, <1>5, <1>7, <1>8, <1>11
  <2> QED
    BY <1>6, <1>11, <2>1 DEF result
<1>12. CASE Policy!Bound(p) # {} /\ ~v.ctx.denied /\ ~v.ctx.error
  <2>1. result = <<"run", secured>> /\ ~(Policy!Opaque(tree, p) \/ forbidden)
    BY <1>4, <1>5, <1>7, <1>12
  <2> QED
    BY <1>6, <1>12, <2>1 DEF result
<1> QED
  BY <1>9, <1>10, <1>11, <1>12

\* What is asked about a handler is a handler, under what was declared, and the answer is
\* the code's.
HandlersInv ==
  /\ setting[1] = "policy" => setting[2] \in Policies
  /\ question[1] = "policy" =>
       /\ setting[2] \in Policies /\ question[2] \in SqlHandlers
       /\ answer[2] = Policy!RewriteHandlerWithPolicies(question[2], setting[2])

\* A declaration leaves the question open; an answer about something else changes nothing.
LEMMA DeclareHandlers ==
  ASSUME NEW kind, NEW settings, Declare(kind, settings), kind = "policy" => settings = Policies
  PROVE  HandlersInv'
<1>1. question' = Unasked /\ \E s \in settings : setting' = <<kind, s>>
  BY DEF Declare
<1>2. PICK s \in settings : setting' = <<kind, s>>
  BY <1>1
<1>3. setting'[1] = kind /\ setting'[2] = s /\ question'[1] # "policy"
  BY <1>1, <1>2 DEF Unasked
<1> QED
  BY <1>3 DEF HandlersInv

LEMMA ReplyHandlers ==
  ASSUME HandlersInv, NEW kind, kind # "policy", NEW q, NEW a, Reply(kind, q, a)
  PROVE  HandlersInv'
<1>1. question'[1] = kind /\ setting' = setting
  BY DEF Reply
<1> QED
  BY <1>1 DEF HandlersInv

\* Every step of the questioning keeps the invariant.
LEMMA AskHandlers == HandlersInv /\ [AskRequest]_asked => HandlersInv'
<1> SUFFICES ASSUME HandlersInv, [AskRequest]_asked PROVE HandlersInv'
  OBVIOUS
<1>1. CASE DeclareServer \/ Produce \/ DeclareFormat \/ DeclareParams \/ DeclarePolicies
  BY <1>1, DeclareHandlers DEF DeclareServer, Produce, DeclareFormat, DeclareParams, DeclarePolicies
<1>2. CASE FindHandler \/ Encode \/ ChooseFormat \/ Fetch \/ BindParams
  BY <1>2, ReplyHandlers DEF FindHandler, Encode, ChooseFormat, Fetch, BindParams
<1>3. CASE Rewrite
  <2>1. PICK t \in SqlHandlers : Reply("policy", t, Policy!RewriteHandlerWithPolicies(t, setting[2]))
    BY <1>3 DEF Rewrite
  <2>2. setting[2] \in Policies
    BY <1>3 DEF Rewrite, Asked, HandlersInv
  <2>3. /\ question'[1] = "policy" /\ question'[2] = t /\ setting' = setting
        /\ answer'[2] = Policy!RewriteHandlerWithPolicies(t, setting[2])
    BY <2>1 DEF Reply
  <2> QED
    BY <2>2, <2>3 DEF HandlersInv
<1>4. CASE Forget
  BY <1>4 DEF Forget, Unasked, HandlersInv
<1>5. CASE UNCHANGED asked
  BY <1>5 DEF asked, HandlersInv
<1> QED
  BY <1>1, <1>2, <1>3, <1>4, <1>5 DEF AskRequest

\* Whatever the handler, however deep, and whatever is bound, a request gets the handler
\* with every read of a bound table secured and nothing else changed, or it is refused
\* (RewriteHandlerWithPolicies).
THEOREM HandlersProtected == RequestsAnswered => []PoliciesEnforced
<1>1. Ready => HandlersInv
  BY DEF Ready, Unasked, HandlersInv
<1>2. HandlersInv => PoliciesEnforced
  <2> SUFFICES ASSUME HandlersInv, question[1] = "policy"
               PROVE  Policy!Enforced(question[2], setting[2], answer[2])
    BY DEF PoliciesEnforced, About
  <2>1. /\ setting[2] \in Policies /\ question[2] \in SqlHandlers
        /\ answer[2] = Policy!RewriteHandlerWithPolicies(question[2], setting[2])
    BY DEF HandlersInv
  <2>2. /\ setting[2].rows \in Seq(RowRule) /\ setting[2].masks \in Seq(MaskRule)
        /\ setting[2].authenticated \in BOOLEAN
    <3> DEFINE R == Seq(RowRule)
               M == Seq(MaskRule)
    <3>1. setting[2] \in [rows : R, masks : M, views : SUBSET STRING, authenticated : BOOLEAN]
      BY <2>1, DecisionsAssumption
    <3> HIDE DEF R, M
    <3>2. setting[2].rows \in R /\ setting[2].masks \in M /\ setting[2].authenticated \in BOOLEAN
      BY <3>1
    <3> QED
      BY <3>2 DEF R, M
  <2>3. MaxDepth \in Nat /\ question[2] \in Policy!Trees[MaxDepth]
    BY <2>1, DecisionsAssumption
  <2> QED
    BY <2>1, <2>2, <2>3, EnforcedAlways
<1> QED
  BY <1>1, <1>2, AskHandlers, PTL DEF RequestsAnswered

==============================================================================
