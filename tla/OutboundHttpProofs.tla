------------------------- MODULE OutboundHttpProofs -------------------------
(***************************************************************************)
(* Deadlines, answers and cancellations of outbound calls, for any number  *)
(* of statements and rows, any limits of the pool and any budgets.         *)
(*                                                                         *)
(* The invariant is a conjunction over statements (QueryOK), over calls    *)
(* (CallOK) and over the hosts of the pool (PoolOK).  The heart of         *)
(* QueryOK is the stack of deadline guards: each is at most the one        *)
(* outside it and has found exactly that one as the budget of the          *)
(* connection, so the budget always is what the innermost guard leaves.    *)
(***************************************************************************)
EXTENDS OutboundHttp, FiniteSetTheorems, SequenceTheorems, TLAPS

GuardType == [left : Nat, found : Nat]
QueryLabels == {"idle", "ready", "fan", "done"}
QueryType == [at : QueryLabels, guards : Seq(GuardType), budget : Nat, peer : {"none", "watched", "gone"},
              intr : BOOLEAN, cursor : Nat, failed : BOOLEAN]

RowLabels == {"todo", "null", "done"} \cup InFlight
Sockets == {"none", "closed", "open", "shut"}
Results == {"none", "response", "error"}
RowType == [at : RowLabels, host : Hosts \cup {"none"}, socket : Sockets, left : Nat, late : Nat, armed : BOOLEAN,
            fired : BOOLEAN, healthy : BOOLEAN, result : Results]

\* What the innermost guard leaves.
Innermost(gs) == IF gs = <<>> THEN Unlimited ELSE gs[Len(gs)].left

\* The guards of a connection: nested deadlines, each with the budget it found.
GuardsOK(gs) ==
  /\ \A g \in 1..Len(gs) : /\ gs[g].left <= Budget
                           /\ gs[g].found = IF g = 1 THEN Unlimited ELSE gs[g - 1].left
  /\ \A g, h \in 1..Len(gs) : g <= h => gs[h].left <= gs[g].left

QueryOK(q, width) ==
  /\ q \in QueryType
  /\ GuardsOK(q.guards)
  /\ q.budget = Innermost(q.guards)
  /\ q.cursor <= width
  /\ q.at = "idle" => q.cursor = 0
  /\ q.at \in {"ready", "done"} /\ ~q.failed /\ q.cursor > 0 => q.cursor = width

\* With a timeout set on the client; sent or about to be.
Timed == {"guard", "send", "connecting", "waiting"}
UnderWay == {"send", "connecting", "waiting"}

\* The call's timeout outlasts no guard of the statement by more than the call
\* is late, 1 ms aside.
Timely(gs, left, late) == \A g \in 1..Len(gs) : left <= 1 \/ left <= gs[g].left + late

\* Row i of statement q is at r.
CallOK(q, i, r) ==
  /\ r \in RowType
  /\ r.armed => r.at \in UnderWay \cup {"disarm"}
  /\ r.at \in {"disarm", "recycle"} => r.socket \in {"open", "closed"}
  /\ r.at \in {"disarm", "recycle", "done"} => r.result # "none"
  /\ r.at \in InFlight => q.at = "fan"
  /\ i > q.cursor => r.at \in {"todo", "null"}
  /\ i <= q.cursor => r.at # "todo"
  /\ r.at \in Timed => r.left <= Fallback /\ Timely(q.guards, r.left, r.late)

\* The pool within its limits, without a socket that was shut down in mid-request.
PoolOK ==
  /\ IsFiniteSet(DOMAIN pool) /\ Cardinality(DOMAIN pool) <= MaxPoolHosts
  /\ \A h \in DOMAIN pool :
       /\ pool[h] = [idle |-> pool[h].idle, age |-> pool[h].age]
       /\ pool[h].idle \in Seq({"open", "closed"}) /\ Len(pool[h].idle) <= MaxIdlePerHost

Inv ==
  /\ query \in [Queries -> QueryType]
  /\ row \in [Calls -> RowType]
  /\ \A q \in Queries : QueryOK(query[q], Width[q])
  /\ \A c \in Calls : CallOK(query[c[1]], c[2], row[c])
  /\ PoolOK

-----------------------------------------------------------------------------
(* Arithmetic of pairs, and calls as pairs.                                *)

LEMMA MinPair ==
  ASSUME NEW a \in Int, NEW b \in Int
  PROVE  Min({a, b}) = IF a <= b THEN a ELSE b
<1>1. \E x \in {a, b} : \A y \in {a, b} : x <= y
  OBVIOUS
<1> QED
  BY <1>1 DEF Min

LEMMA MaxPair ==
  ASSUME NEW a \in Int, NEW b \in Int
  PROVE  Max({a, b}) = IF a >= b THEN a ELSE b
<1>1. \E x \in {a, b} : \A y \in {a, b} : x >= y
  OBVIOUS
<1> QED
  BY <1>1 DEF Max

LEMMA CallsArePairs ==
  /\ \A c \in Calls : c[1] \in Queries /\ c[2] \in Rows(c[1]) /\ c = <<c[1], c[2]>>
  /\ \A q \in Queries : \A i \in Rows(q) : <<q, i>> \in Calls
  BY DEF Calls

LEMMA Numbers ==
  /\ Budget \in Nat \ {0} /\ Fallback \in Nat \ {0} /\ MaxIdlePerHost \in Nat \ {0}
  /\ MaxPoolHosts \in Nat \ {0} /\ MaxIdleTotal \in Nat \ {0}
  /\ Unlimited \in Nat /\ Unlimited > Budget /\ Unlimited > Fallback
  /\ \A q \in Queries : Width[q] \in Nat
  BY OutboundAssumption DEF Unlimited

-----------------------------------------------------------------------------
(* Steps of one statement, and of one call.                                *)

LEMMA QueryStep ==
  ASSUME Inv, NEW q \in Queries, NEW r, QueryOK(r, Width[q]),
         \A i \in Rows(q) : CallOK(r, i, row[<<q, i>>]),
         Query(q, r), UNCHANGED <<row, pool>>
  PROVE  Inv'
<1>1. query' \in [Queries -> QueryType] /\ query'[q] = r /\ \A p \in Queries \ {q} : query'[p] = query[p]
  BY DEF Inv, Query, QueryOK
<1>2. row' = row /\ pool' = pool
  OBVIOUS
<1>3. \A p \in Queries : QueryOK(query'[p], Width[p])
  BY <1>1 DEF Inv
<1>4. \A c \in Calls : CallOK(query'[c[1]], c[2], row'[c])
  BY <1>1, <1>2, CallsArePairs DEF Inv
<1>5. PoolOK'
  BY <1>2 DEF Inv, PoolOK
<1> QED
  BY <1>1, <1>2, <1>3, <1>4, <1>5 DEF Inv

LEMMA RowStep ==
  ASSUME Inv, NEW c \in Calls, NEW r, CallOK(query[c[1]], c[2], r), Row(c, r), UNCHANGED query, PoolOK'
  PROVE  Inv'
<1>1. row' \in [Calls -> RowType] /\ row'[c] = r /\ \A d \in Calls \ {c} : row'[d] = row[d]
  BY DEF Inv, Row, CallOK
<1>2. query' = query
  OBVIOUS
<1>3. \A d \in Calls : CallOK(query'[d[1]], d[2], row'[d])
  BY <1>1, <1>2 DEF Inv
<1> QED
  BY <1>1, <1>2, <1>3 DEF Inv

\* A call looks only at the place, the cursor and the guards of its statement.
LEMMA CallDepends ==
  ASSUME NEW q, NEW p, NEW i, NEW r, CallOK(q, i, r),
         p.at = q.at, p.cursor = q.cursor, p.guards = q.guards
  PROVE  CallOK(p, i, r)
  BY DEF CallOK

\* With no row in flight the guards and the place may change.
LEMMA CallsAtRest ==
  ASSUME NEW q, NEW p, NEW i, NEW r, CallOK(q, i, r), r.at \notin InFlight, p.cursor = q.cursor
  PROVE  CallOK(p, i, r)
  BY DEF CallOK, UnderWay, Timed, InFlight

LEMMA NotFanAtRest ==
  ASSUME Inv, NEW q \in Queries, query[q].at # "fan"
  PROVE  \A i \in Rows(q) : row[<<q, i>>].at \notin InFlight
<1> SUFFICES ASSUME NEW i \in Rows(q) PROVE row[<<q, i>>].at \notin InFlight
  OBVIOUS
<1>1. <<q, i>> \in Calls
  BY CallsArePairs
<1>2. CallOK(query[<<q, i>>[1]], <<q, i>>[2], row[<<q, i>>])
  BY <1>1 DEF Inv
<1> QED
  BY <1>2 DEF CallOK

LEMMA RowsOK ==
  ASSUME Inv, NEW q \in Queries, NEW i \in Rows(q)
  PROVE  CallOK(query[q], i, row[<<q, i>>])
<1>1. <<q, i>> \in Calls
  BY CallsArePairs
<1>2. CallOK(query[<<q, i>>[1]], <<q, i>>[2], row[<<q, i>>])
  BY <1>1 DEF Inv
<1> QED
  BY <1>2

-----------------------------------------------------------------------------
(* The statement's own steps.                                              *)

LEMMA InitInv == Init => Inv
<1> SUFFICES ASSUME Init PROVE Inv
  OBVIOUS
<1>1. NoQuery \in QueryType /\ NoRow \in RowType
  BY Numbers DEF NoQuery, NoRow, QueryType, QueryLabels, RowType, RowLabels, Sockets, Results, GuardType
<1>2. \A q \in Queries : QueryOK(query[q], Width[q])
  <2> SUFFICES ASSUME NEW q \in Queries PROVE QueryOK(NoQuery, Width[q])
    BY DEF Init
  <2>1. NoQuery.guards = <<>> /\ NoQuery.budget = Unlimited /\ NoQuery.cursor = 0
    BY DEF NoQuery
  <2> QED
    BY <1>1, <2>1, Numbers DEF QueryOK, GuardsOK, Innermost
<1>3. \A c \in Calls : CallOK(query[c[1]], c[2], row[c])
  <2> SUFFICES ASSUME NEW c \in Calls PROVE CallOK(NoQuery, c[2], NoRow)
    BY CallsArePairs DEF Init
  <2>1. NoRow.at = "todo" /\ NoRow.armed = FALSE /\ NoQuery.cursor = 0
    BY DEF NoRow, NoQuery
  <2>2. c[2] \in Nat /\ c[2] > 0
    BY CallsArePairs, Numbers DEF Rows
  <2> QED
    BY <1>1, <2>1, <2>2 DEF CallOK, InFlight, UnderWay, Timed
<1>4. PoolOK
  <2>1. DOMAIN pool = {}
    BY DEF Init
  <2> QED
    BY <2>1, FS_EmptySet, Numbers DEF PoolOK
<1> QED
  BY <1>1, <1>2, <1>3, <1>4 DEF Inv, Init

\* A new guard is within the one outside it.
LEMMA GuardAdded ==
  ASSUME NEW gs \in Seq(GuardType), GuardsOK(gs), NEW t \in Nat, t <= Budget, NEW left \in Nat,
         left = IF Innermost(gs) <= t THEN Innermost(gs) ELSE t
  PROVE  LET new == Append(gs, [left |-> left, found |-> Innermost(gs)])
         IN new \in Seq(GuardType) /\ GuardsOK(new) /\ Innermost(new) = left
<1> DEFINE g == [left |-> left, found |-> Innermost(gs)]
           new == Append(gs, g)
<1>1. gs # <<>> => Len(gs) \in 1..Len(gs)
  OBVIOUS
<1>2. Innermost(gs) \in Nat
  <2>1. CASE gs = <<>>
    BY <2>1, Numbers DEF Innermost
  <2>2. CASE gs # <<>>
    <3>1. gs[Len(gs)] \in GuardType
      BY <2>2, <1>1
    <3> QED
      BY <2>2, <3>1 DEF Innermost, GuardType
  <2> QED
    BY <2>1, <2>2
<1>3. g \in GuardType
  BY <1>2 DEF GuardType
<1>4. new \in Seq(GuardType) /\ Len(new) = Len(gs) + 1 /\ new[Len(gs) + 1] = g
      /\ \A i \in 1..Len(gs) : new[i] = gs[i]
  BY <1>3
<1>5. \A i \in 1..Len(gs) : gs[i].left \in Nat /\ left <= gs[i].left
  <2> SUFFICES ASSUME NEW i \in 1..Len(gs) PROVE gs[i].left \in Nat /\ left <= gs[i].left
    OBVIOUS
  <2>1. gs[i] \in GuardType /\ gs[Len(gs)] \in GuardType /\ Len(gs) \in 1..Len(gs) /\ gs # <<>>
    OBVIOUS
  <2>2. gs[Len(gs)].left <= gs[i].left
    BY <2>1 DEF GuardsOK
  <2> QED
    BY <1>2, <2>1, <2>2 DEF Innermost, GuardType
<1>6. GuardsOK(new)
  <2>1. \A i \in 1..Len(new) : new[i].left <= Budget
    BY <1>2, <1>4, Numbers DEF GuardsOK
  <2>2. \A i \in 1..Len(new) : new[i].found = IF i = 1 THEN Unlimited ELSE new[i - 1].left
    <3> SUFFICES ASSUME NEW i \in 1..Len(new)
                 PROVE  new[i].found = IF i = 1 THEN Unlimited ELSE new[i - 1].left
      OBVIOUS
    <3>1. CASE i \in 1..Len(gs)
      <4>1. i # 1 => i - 1 \in 1..Len(gs)
        BY <3>1
      <4> QED
        BY <3>1, <4>1, <1>4 DEF GuardsOK
    <3>2. CASE i = Len(gs) + 1
      <4>1. new[i].found = Innermost(gs)
        BY <3>2, <1>4
      <4>2. CASE gs = <<>>
        BY <4>1, <4>2, <3>2 DEF Innermost
      <4>3. CASE gs # <<>>
        <5>1. i # 1 /\ i - 1 = Len(gs) /\ new[i - 1] = gs[Len(gs)]
          BY <4>3, <3>2, <1>1, <1>4
        <5> QED
          BY <4>1, <4>3, <5>1 DEF Innermost
      <4> QED
        BY <4>2, <4>3
    <3> QED
      BY <3>1, <3>2, <1>4
  <2>3. \A i, j \in 1..Len(new) : i <= j => new[j].left <= new[i].left
    BY <1>4, <1>5 DEF GuardsOK
  <2> QED
    BY <2>1, <2>2, <2>3 DEF GuardsOK
<1>7. Innermost(new) = left
  <2>1. new # <<>> /\ new[Len(new)] = g
    BY <1>4
  <2> QED
    BY <2>1 DEF Innermost
<1> QED
  BY <1>4, <1>6, <1>7

\* The innermost guard goes: what it found is what the next one leaves.
LEMMA GuardRemoved ==
  ASSUME NEW gs \in Seq(GuardType), gs # <<>>, GuardsOK(gs)
  PROVE  /\ Front(gs) \in Seq(GuardType) /\ GuardsOK(Front(gs))
         /\ Last(gs).left = Innermost(gs)
         /\ Last(gs).found = Innermost(Front(gs))
<1> DEFINE n == Len(gs)
           new == Front(gs)
<1>1. n \in Nat \ {0} /\ n \in 1..n
  OBVIOUS
<1>2. new = SubSeq(gs, 1, n - 1) /\ Last(gs) = gs[n]
  BY DEF Front, Last
<1>3. new \in Seq(GuardType) /\ Len(new) = n - 1 /\ \A i \in 1..(n - 1) : new[i] = gs[i]
  <2>1. n - 1 \in Int /\ \A i \in 1..(n - 1) : gs[i] \in GuardType
    BY <1>1
  <2> HIDE DEF n
  <2> QED
    BY <1>1, <1>2, <2>1, SubSeqProperties
<1>4. \A i \in 1..(n - 1) : i \in 1..n /\ (i # 1 => i - 1 \in 1..(n - 1))
  BY <1>1
<1>5. GuardsOK(new)
  BY <1>3, <1>4 DEF GuardsOK
<1>6. Last(gs).left = Innermost(gs)
  BY <1>2 DEF Innermost
<1>7. Last(gs).found = Innermost(new)
  <2>1. CASE n = 1
    BY <2>1, <1>1, <1>2, <1>3 DEF Innermost, GuardsOK
  <2>2. CASE n # 1
    <3>1. new # <<>> /\ n - 1 \in 1..(n - 1) /\ new[Len(new)] = gs[n - 1]
      BY <2>2, <1>1, <1>3
    <3>2. gs[n].found = gs[n - 1].left
      BY <2>2, <1>1 DEF GuardsOK
    <3> QED
      BY <3>1, <3>2, <1>2 DEF Innermost
  <2> QED
    BY <2>1, <2>2
<1> QED
  BY <1>3, <1>5, <1>6, <1>7

LEMMA ArmInv ==
  ASSUME Inv, NEW q \in Queries, NEW t \in {1, Budget}, Arm(q, t)
  PROVE  Inv'
<1> DEFINE old == query[q]
           left == Min({ThreadDeadline(q), t})
           gs == Append(old.guards, [left |-> left, found |-> old.budget])
           new == [old EXCEPT !.at = "ready", !.budget = left, !.peer = "watched", !.guards = gs]
<1>1. QueryOK(old, Width[q]) /\ old \in QueryType /\ old.guards \in Seq(GuardType) /\ GuardsOK(old.guards)
  BY DEF Inv, QueryOK, QueryType
<1>2. ThreadDeadline(q) = Innermost(old.guards) /\ old.budget = Innermost(old.guards) /\ old.budget \in Nat
  BY <1>1 DEF ThreadDeadline, Innermost, Last, QueryOK, QueryType
<1>3. t \in Nat /\ t <= Budget
  BY Numbers
<1>4. left \in Nat /\ left = IF Innermost(old.guards) <= t THEN Innermost(old.guards) ELSE t
  BY <1>2, <1>3, MinPair
<1>5. gs \in Seq(GuardType) /\ GuardsOK(gs) /\ Innermost(gs) = left
  <2> HIDE DEF left, old
  <2> QED
    BY <1>1, <1>2, <1>3, <1>4, GuardAdded
<1> HIDE DEF gs, left
<1>6. old.at # "fan" /\ old.cursor = 0 /\ Query(q, new) /\ UNCHANGED <<row, pool>>
  BY DEF Arm, gs, left
<1>7. "ready" \in QueryLabels
  BY DEF QueryLabels
<1>8. new \in QueryType /\ new.guards = gs /\ new.budget = left /\ new.cursor = 0 /\ new.at = "ready"
  BY <1>1, <1>4, <1>5, <1>6, <1>7 DEF QueryType
<1> HIDE DEF new
<1>9. QueryOK(new, Width[q])
  BY <1>5, <1>8, Numbers DEF QueryOK
<1>10. \A i \in Rows(q) : CallOK(new, i, row[<<q, i>>])
  BY <1>6, <1>8, NotFanAtRest, RowsOK, CallsAtRest
<1> QED
  BY <1>6, <1>9, <1>10, QueryStep

LEMMA DisarmInv ==
  ASSUME Inv, NEW q \in Queries, Disarm(q)
  PROVE  Inv'
<1> DEFINE old == query[q]
           g == Last(old.guards)
           gs == Front(old.guards)
           budget == IF old.budget = g.left THEN g.found ELSE old.budget
           at == IF Len(old.guards) = 1 THEN "done" ELSE "ready"
           new == [old EXCEPT !.guards = gs, !.budget = budget, !.at = at]
<1>1. QueryOK(old, Width[q]) /\ old \in QueryType /\ old.guards \in Seq(GuardType) /\ GuardsOK(old.guards)
  BY DEF Inv, QueryOK, QueryType
<1>2. old.at = "ready" /\ old.guards # <<>> /\ Query(q, new) /\ UNCHANGED <<row, pool>>
  BY DEF Disarm
<1>3. gs \in Seq(GuardType) /\ GuardsOK(gs) /\ g.left = Innermost(old.guards) /\ g.found = Innermost(gs)
  BY <1>1, <1>2, GuardRemoved
<1>4. budget = Innermost(gs)
  BY <1>1, <1>3 DEF QueryOK
<1>5. Innermost(gs) \in Nat
  <2>1. gs # <<>> => gs[Len(gs)] \in GuardType
    BY <1>3
  <2> QED
    BY <2>1, Numbers DEF Innermost, GuardType
<1>6. at \in QueryLabels /\ at \in {"ready", "done"}
  BY DEF QueryLabels
<1> HIDE DEF gs, g, budget, at
<1>7. new \in QueryType /\ new.guards = gs /\ new.budget = budget /\ new.at = at
      /\ new.cursor = old.cursor /\ new.failed = old.failed
  BY <1>1, <1>3, <1>4, <1>5, <1>6 DEF QueryType
<1> HIDE DEF new
<1>8. QueryOK(new, Width[q])
  BY <1>1, <1>2, <1>3, <1>4, <1>6, <1>7 DEF QueryOK
<1>9. \A i \in Rows(q) : CallOK(new, i, row[<<q, i>>])
  BY <1>2, <1>7, NotFanAtRest, RowsOK, CallsAtRest
<1> QED
  BY <1>2, <1>8, <1>9, QueryStep

\* Interrupt and Disconnect change only what no conjunct reads.
LEMMA NoticeInv ==
  ASSUME Inv, NEW q \in Queries, Interrupt(q) \/ Disconnect(q)
  PROVE  Inv'
<1> DEFINE old == query[q]
<1>1. PICK new : /\ new \in {[old EXCEPT !.intr = TRUE], [old EXCEPT !.peer = "gone"]}
                 /\ Query(q, new) /\ UNCHANGED <<row, pool>>
  BY DEF Interrupt, Disconnect
<1>2. QueryOK(old, Width[q]) /\ old \in QueryType
  BY DEF Inv, QueryOK
<1>3. new \in QueryType /\ new.at = old.at /\ new.guards = old.guards /\ new.budget = old.budget
      /\ new.cursor = old.cursor /\ new.failed = old.failed
  BY <1>1, <1>2 DEF QueryType
<1>4. QueryOK(new, Width[q])
  BY <1>2, <1>3 DEF QueryOK
<1>5. \A i \in Rows(q) : CallOK(new, i, row[<<q, i>>])
  BY <1>3, RowsOK, CallDepends
<1> QED
  BY <1>1, <1>4, <1>5, QueryStep

LEMMA FanOutEndsInv ==
  ASSUME Inv, NEW q \in Queries, FanOutEnds(q)
  PROVE  Inv'
<1> DEFINE old == query[q]
           at == IF old.guards = <<>> THEN "done" ELSE "ready"
           failed == old.failed \/ old.intr
           new == [old EXCEPT !.at = at, !.failed = failed]
<1>1. QueryOK(old, Width[q]) /\ old \in QueryType
  BY DEF Inv, QueryOK
<1>2. Query(q, new) /\ UNCHANGED <<row, pool>> /\ Active(q) = {} /\ (old.cursor = Width[q] \/ old.failed)
  BY DEF FanOutEnds
<1>3. at \in QueryLabels /\ at \in {"ready", "done"} /\ failed \in BOOLEAN
  BY DEF QueryLabels
<1> HIDE DEF at
<1>4. new \in QueryType /\ new.guards = old.guards /\ new.budget = old.budget /\ new.at = at
      /\ new.cursor = old.cursor /\ (old.failed => new.failed)
  BY <1>1, <1>3 DEF QueryType
<1> HIDE DEF new
<1>5. QueryOK(new, Width[q])
  BY <1>1, <1>2, <1>3, <1>4 DEF QueryOK
<1>6. \A i \in Rows(q) : row[<<q, i>>].at \notin InFlight
  BY <1>2 DEF Active
<1>7. \A i \in Rows(q) : CallOK(new, i, row[<<q, i>>])
  BY <1>4, <1>6, RowsOK, CallsAtRest
<1> QED
  BY <1>2, <1>5, <1>7, QueryStep

LEMMA FanOutInv ==
  ASSUME Inv, NEW q \in Queries, NEW nulls \in SUBSET Rows(q), NEW t \in {1, Unlimited}, FanOut(q, nulls, t)
  PROVE  Inv'
<1> DEFINE old == query[q]
           new == [old EXCEPT !.at = "fan", !.intr = FALSE]
<1>1. QueryOK(old, Width[q]) /\ old \in QueryType
  BY DEF Inv, QueryOK
<1>2. /\ old.at # "fan" /\ old.cursor = 0 /\ Query(q, new) /\ pool' = pool
      /\ row' = [c \in Calls |-> IF c[1] # q THEN row[c]
                                 ELSE IF c[2] \in nulls THEN [row[c] EXCEPT !.at = "null"]
                                 ELSE [row[c] EXCEPT !.left = t]]
  BY DEF FanOut
<1>3. "fan" \in QueryLabels /\ "null" \in RowLabels /\ t \in Nat
  BY Numbers DEF QueryLabels, RowLabels
<1>4. new \in QueryType /\ new.guards = old.guards /\ new.budget = old.budget /\ new.at = "fan"
      /\ new.cursor = 0 /\ new.failed = old.failed
  BY <1>1, <1>2, <1>3 DEF QueryType
<1>5. QueryOK(new, Width[q])
  BY <1>1, <1>4, Numbers DEF QueryOK
<1>6. query' \in [Queries -> QueryType] /\ query'[q] = new /\ \A p \in Queries \ {q} : query'[p] = query[p]
  BY <1>2, <1>4 DEF Inv, Query
<1> HIDE DEF new
<1>7. ASSUME NEW c \in Calls
      PROVE  row'[c] \in RowType /\ CallOK(query'[c[1]], c[2], row'[c])
  <2>1. c[1] \in Queries /\ row[c] \in RowType /\ CallOK(query[c[1]], c[2], row[c])
    BY CallsArePairs DEF Inv
  <2>2. CASE c[1] # q
    <3>1. row'[c] = row[c] /\ query'[c[1]] = query[c[1]]
      BY <2>1, <2>2, <1>2, <1>6
    <3> QED
      BY <2>1, <3>1
  <2>3. CASE c[1] = q
    <3>1. c[2] \in Nat /\ c[2] > 0
      BY CallsArePairs, Numbers DEF Rows
    <3>2. row[c].at \in {"todo", "null"} /\ row[c].armed = FALSE
      BY <2>1, <2>3, <3>1, <1>2 DEF CallOK, RowType, UnderWay
    <3>3. row'[c] = IF c[2] \in nulls THEN [row[c] EXCEPT !.at = "null"] ELSE [row[c] EXCEPT !.left = t]
      BY <2>3, <1>2
    <3>4. row'[c] \in RowType /\ row'[c].at \in {"todo", "null"} /\ row'[c].armed = FALSE
      BY <2>1, <3>2, <3>3, <1>3 DEF RowType
    <3>5. CallOK(new, c[2], row'[c])
      BY <3>1, <3>4, <1>4 DEF CallOK, UnderWay, Timed, InFlight
    <3> QED
      BY <2>3, <3>4, <3>5, <1>6
  <2> QED
    BY <2>2, <2>3
<1>8. row' \in [Calls -> RowType]
  BY <1>2, <1>7
<1>9. \A p \in Queries : QueryOK(query'[p], Width[p])
  BY <1>5, <1>6 DEF Inv
<1>10. PoolOK'
  BY <1>2 DEF Inv, PoolOK
<1> QED
  BY <1>6, <1>7, <1>8, <1>9, <1>10 DEF Inv

LEMMA ClaimInv ==
  ASSUME Inv, NEW q \in Queries, NEW h \in Hosts, Claim(q, h)
  PROVE  Inv'
<1> DEFINE old == query[q]
           n == old.cursor + 1
           c == <<q, n>>
<1>1. QueryOK(old, Width[q]) /\ old \in QueryType /\ old.cursor \in Nat /\ old.at = "fan"
      /\ old.cursor < Width[q] /\ Width[q] \in Nat /\ pool' = pool
  BY Numbers DEF Inv, QueryOK, QueryType, Claim
<1>2. CASE old.intr /\ Cardinality(Posted(q)) > 1
  <2> DEFINE new == [old EXCEPT !.failed = TRUE]
  <2>1. Query(q, new) /\ UNCHANGED <<row, pool>>
    BY <1>2 DEF Claim
  <2>2. new \in QueryType /\ new.at = old.at /\ new.guards = old.guards /\ new.budget = old.budget
        /\ new.cursor = old.cursor /\ new.failed = TRUE
    BY <1>1 DEF QueryType
  <2> HIDE DEF new
  <2>3. QueryOK(new, Width[q])
    BY <1>1, <2>2 DEF QueryOK
  <2>4. \A i \in Rows(q) : CallOK(new, i, row[<<q, i>>])
    BY <2>2, RowsOK, CallDepends
  <2> QED
    BY <2>1, <2>3, <2>4, QueryStep
<1>3. CASE ~(old.intr /\ Cardinality(Posted(q)) > 1)
  <2> DEFINE new == [old EXCEPT !.cursor = n]
             r == IF row[c].at = "null" THEN row[c] ELSE [row[c] EXCEPT !.at = "checkout", !.host = h]
  <2>1. n \in Rows(q) /\ c \in Calls
    BY <1>1, CallsArePairs DEF Rows
  <2>2. row[c] \in RowType /\ CallOK(old, n, row[c])
    BY <2>1, RowsOK DEF Inv
  <2>3. Query(q, new) /\ row' = [row EXCEPT ![c] = r]
    <3>1. row = [row EXCEPT ![c] = row[c]]
      BY <2>1 DEF Inv
    <3> QED
      BY <1>3, <3>1 DEF Claim, Row
  <2>4. new \in QueryType /\ new.at = "fan" /\ new.guards = old.guards /\ new.budget = old.budget
        /\ new.cursor = n /\ new.failed = old.failed
    BY <1>1 DEF QueryType
  <2> HIDE DEF new
  <2>5. QueryOK(new, Width[q])
    BY <1>1, <2>4 DEF QueryOK
  <2>6. row[c].at \in {"todo", "null"} /\ row[c].armed = FALSE
    BY <1>1, <2>2 DEF CallOK, RowType, UnderWay
  <2>7. "checkout" \in RowLabels /\ h \in Hosts \cup {"none"}
    BY DEF RowLabels, InFlight
  <2>8. r \in RowType /\ r.at \in {"checkout", "null"} /\ r.armed = FALSE
    BY <2>2, <2>6, <2>7 DEF RowType
  <2> HIDE DEF r
  <2>9. CallOK(new, n, r)
    BY <1>1, <2>4, <2>8 DEF CallOK, UnderWay, Timed, InFlight
  <2>10. query' \in [Queries -> QueryType] /\ query'[q] = new /\ \A p \in Queries \ {q} : query'[p] = query[p]
    BY <2>3, <2>4 DEF Inv, Query
  <2>11. row' \in [Calls -> RowType] /\ row'[c] = r /\ \A d \in Calls \ {c} : row'[d] = row[d]
    BY <2>1, <2>3, <2>8 DEF Inv
  <2>12. ASSUME NEW d \in Calls
         PROVE  CallOK(query'[d[1]], d[2], row'[d])
    <3>1. d[1] \in Queries /\ d[2] \in Rows(d[1]) /\ d = <<d[1], d[2]>> /\ CallOK(query[d[1]], d[2], row[d])
      BY CallsArePairs DEF Inv
    <3>2. CASE d[1] # q
      <4>1. query'[d[1]] = query[d[1]] /\ row'[d] = row[d]
        BY <3>1, <3>2, <2>10, <2>11
      <4> QED
        BY <3>1, <4>1
    <3>3. CASE d = c
      BY <3>3, <2>9, <2>10, <2>11
    <3>4. CASE d[1] = q /\ d # c
      <4>1. d[2] # n /\ d[2] \in Nat
        BY <3>1, <3>4, <1>1 DEF Rows
      <4>2. row'[d] = row[d] /\ CallOK(old, d[2], row[d])
        BY <3>1, <3>4, <2>11
      <4>3. CallOK(new, d[2], row[d])
        BY <4>1, <4>2, <2>4, <1>1 DEF CallOK
      <4> QED
        BY <3>4, <4>2, <4>3, <2>10
    <3> QED
      BY <3>2, <3>3, <3>4
  <2>13. \A p \in Queries : QueryOK(query'[p], Width[p])
    BY <2>5, <2>10 DEF Inv
  <2>14. PoolOK'
    BY <1>1 DEF Inv, PoolOK
  <2> QED
    BY <2>10, <2>11, <2>12, <2>13, <2>14 DEF Inv
<1> QED
  BY <1>2, <1>3

-----------------------------------------------------------------------------
(* The pool.                                                               *)

HostOK(e) ==
  /\ e = [idle |-> e.idle, age |-> e.age]
  /\ e.idle \in Seq({"open", "closed"}) /\ Len(e.idle) <= MaxIdlePerHost

\* PoolHost leaves at most MaxPoolHosts hosts, h among them.
LEMMA PoolHostOK ==
  ASSUME PoolOK, NEW h, NEW hosts \in Survivors(h)
  PROVE  LET p == PoolHost(h, hosts)
         IN /\ h \in DOMAIN p /\ IsFiniteSet(DOMAIN p) /\ Cardinality(DOMAIN p) <= MaxPoolHosts
            /\ \A x \in DOMAIN p : HostOK(p[x])
<1> DEFINE p == PoolHost(h, hosts)
           fresh == {x \in DOMAIN pool : pool[x].age <= Ttl}
           D == hosts \cup {h}
<1>1. IsFiniteSet(fresh) /\ Cardinality(fresh) \in Nat /\ Cardinality(fresh) <= MaxPoolHosts
  <2>1. fresh \in SUBSET DOMAIN pool /\ Cardinality(DOMAIN pool) \in Nat
    BY FS_CardinalityType DEF PoolOK
  <2>2. IsFiniteSet(fresh) /\ Cardinality(fresh) <= Cardinality(DOMAIN pool)
    BY <2>1, FS_Subset DEF PoolOK
  <2> QED
    BY <2>1, <2>2, FS_CardinalityType, Numbers DEF PoolOK
<1>2. DOMAIN p = D
  BY DEF PoolHost
<1>3. hosts \subseteq fresh /\ IsFiniteSet(D) /\ Cardinality(D) <= MaxPoolHosts
  <2>1. CASE h \in fresh \/ Cardinality(fresh) < MaxPoolHosts
    <3>1. hosts = fresh
      BY <2>1 DEF Survivors
    <3>2. IsFiniteSet(fresh \cup {h})
          /\ Cardinality(fresh \cup {h}) = IF h \in fresh THEN Cardinality(fresh) ELSE Cardinality(fresh) + 1
      BY <1>1, FS_AddElement
    <3> HIDE DEF fresh
    <3> QED
      BY <3>1, <3>2, <2>1, <1>1, Numbers
  <2>2. CASE ~(h \in fresh \/ Cardinality(fresh) < MaxPoolHosts)
    <3>1. PICK x \in fresh : hosts = fresh \ {x}
      BY <2>2 DEF Survivors
    <3>2. IsFiniteSet(hosts) /\ Cardinality(hosts) = Cardinality(fresh) - 1
      BY <3>1, <1>1, FS_RemoveElement
    <3>3. IsFiniteSet(D) /\ Cardinality(D) = Cardinality(hosts) + 1
      BY <3>1, <3>2, <2>2, FS_AddElement
    <3> QED
      BY <3>1, <3>2, <3>3, <1>1, Numbers
  <2> QED
    BY <2>1, <2>2
<1>4. ASSUME NEW x \in D PROVE HostOK(p[x])
  <2>1. CASE x # h
    <3>1. p[x] = pool[x] /\ x \in DOMAIN pool
      BY <2>1, <1>3 DEF PoolHost
    <3> QED
      BY <3>1 DEF PoolOK, HostOK
  <2>2. CASE x = h
    <3> DEFINE idle == IF h \in hosts THEN pool[h].idle ELSE <<>>
    <3>1. p[x] = [idle |-> idle, age |-> 0]
      BY <2>2 DEF PoolHost
    <3>2. idle \in Seq({"open", "closed"}) /\ Len(idle) <= MaxIdlePerHost
      BY <1>3, Numbers DEF PoolOK
    <3> QED
      BY <3>1, <3>2 DEF HostOK
  <2> QED
    BY <2>1, <2>2
<1> QED
  BY <1>2, <1>3, <1>4

\* One host's idle clients change, within the limit.
LEMMA PoolChanged ==
  ASSUME NEW p, NEW h \in DOMAIN p, IsFiniteSet(DOMAIN p), Cardinality(DOMAIN p) <= MaxPoolHosts,
         \A x \in DOMAIN p : HostOK(p[x]),
         NEW idle \in Seq({"open", "closed"}), Len(idle) <= MaxIdlePerHost,
         pool' = [p EXCEPT ![h].idle = idle]
  PROVE  PoolOK'
<1>1. DOMAIN pool' = DOMAIN p
  OBVIOUS
<1>2. \A x \in DOMAIN p : pool'[x] = IF x = h THEN [p[h] EXCEPT !.idle = idle] ELSE p[x]
  OBVIOUS
<1>3. HostOK([p[h] EXCEPT !.idle = idle])
  <2>1. p[h] = [idle |-> p[h].idle, age |-> p[h].age]
    BY DEF HostOK
  <2>2. [p[h] EXCEPT !.idle = idle] = [idle |-> idle, age |-> p[h].age]
    BY <2>1
  <2> QED
    BY <2>2 DEF HostOK
<1>4. \A x \in DOMAIN pool' : HostOK(pool'[x])
  BY <1>1, <1>2, <1>3
<1> QED
  BY <1>1, <1>4 DEF PoolOK, HostOK

LEMMA PoolTaken ==
  ASSUME NEW p, IsFiniteSet(DOMAIN p), Cardinality(DOMAIN p) <= MaxPoolHosts,
         \A x \in DOMAIN p : HostOK(p[x]), pool' = p
  PROVE  PoolOK'
  BY DEF PoolOK, HostOK

-----------------------------------------------------------------------------
(* The calls' own steps.                                                   *)

LEMMA RemainingTimeoutOK ==
  ASSUME NEW gs \in Seq(GuardType), GuardsOK(gs), NEW own \in Nat, NEW late \in Nat
  PROVE  LET left == RemainingTimeout(Min({Innermost(gs), own}))
         IN left \in Nat /\ left <= Fallback /\ Timely(gs, left, late)
<1> DEFINE deadline == Min({Innermost(gs), own})
           left == RemainingTimeout(deadline)
<1>1. gs # <<>> => Len(gs) \in 1..Len(gs) /\ gs[Len(gs)] \in GuardType
  OBVIOUS
<1>2. Innermost(gs) \in Nat
  BY <1>1, Numbers DEF Innermost, GuardType
<1>3. deadline \in Nat /\ deadline <= Innermost(gs)
  BY <1>2, MinPair
<1> HIDE DEF deadline
<1>4. Min({Fallback, deadline}) = IF Fallback <= deadline THEN Fallback ELSE deadline
  BY <1>3, Numbers, MinPair
<1>5. left \in Nat /\ left <= Fallback /\ (deadline # Unlimited => left <= 1 \/ left <= deadline)
  <2>1. CASE deadline = Unlimited
    BY <2>1, Numbers DEF RemainingTimeout
  <2>2. CASE deadline # Unlimited
    <3>1. Min({Fallback, deadline}) \in Nat /\ Min({Fallback, deadline}) <= Fallback
          /\ Min({Fallback, deadline}) <= deadline
      BY <1>3, <1>4, Numbers
    <3>2. left = IF 1 >= Min({Fallback, deadline}) THEN 1 ELSE Min({Fallback, deadline})
      <4> DEFINE m == Min({Fallback, deadline})
      <4>1. left = Max({1, m})
        BY <2>2 DEF RemainingTimeout
      <4>2. m \in Int
        BY <3>1
      <4> HIDE DEF m
      <4>3. Max({1, m}) = IF 1 >= m THEN 1 ELSE m
        BY <4>2, MaxPair
      <4> QED
        BY <4>1, <4>3 DEF m
    <3> QED
      BY <3>1, <3>2, <1>3, Numbers
  <2> QED
    BY <2>1, <2>2
<1> HIDE DEF left
<1>6. ASSUME NEW g \in 1..Len(gs) PROVE left <= 1 \/ left <= gs[g].left + late
  <2>1. gs # <<>> /\ Len(gs) \in 1..Len(gs) /\ gs[Len(gs)] \in GuardType /\ gs[g] \in GuardType
    OBVIOUS
  <2>2. Innermost(gs) <= gs[g].left /\ Innermost(gs) <= Budget
    BY <2>1 DEF Innermost, GuardsOK
  <2>3. gs[g].left \in Nat
    BY <2>1 DEF GuardType
  <2> QED
    BY <1>2, <1>3, <1>5, <2>2, <2>3, Numbers
<1> QED
  BY <1>5, <1>6 DEF Timely, left, deadline

LEMMA CallFacts ==
  ASSUME Inv, NEW c \in Calls
  PROVE  /\ c[1] \in Queries /\ c[2] \in Nat /\ c[2] > 0 /\ row[c] \in RowType
         /\ CallOK(query[c[1]], c[2], row[c])
         /\ QueryOK(query[c[1]], Width[c[1]]) /\ query[c[1]] \in QueryType /\ query[c[1]].cursor \in Nat
         /\ query[c[1]].guards \in Seq(GuardType) /\ GuardsOK(query[c[1]].guards)
         /\ query[c[1]].budget = Innermost(query[c[1]].guards)
<1>1. c[1] \in Queries /\ c[2] \in Nat /\ c[2] > 0
  BY CallsArePairs, Numbers DEF Rows
<1>2. query[c[1]] \in QueryType
  BY <1>1 DEF Inv
<1> QED
  BY <1>1, <1>2 DEF Inv, QueryOK, QueryType

\* In flight and beyond the claim the row's place is free to move on.
LEMMA CallMoves ==
  ASSUME Inv, NEW c \in Calls, row[c].at \in InFlight, NEW r \in RowType,
         r.at \in InFlight \cup {"done"} ,
         r.armed => r.at \in UnderWay \cup {"disarm"},
         r.at \in {"disarm", "recycle"} => r.socket \in {"open", "closed"},
         r.at \in {"disarm", "recycle", "done"} => r.result # "none",
         r.at \in Timed => r.left <= Fallback /\ Timely(query[c[1]].guards, r.left, r.late)
  PROVE  CallOK(query[c[1]], c[2], r)
<1>1. CallOK(query[c[1]], c[2], row[c]) /\ query[c[1]].cursor \in Nat /\ c[2] \in Nat
  BY CallFacts
<1>2. query[c[1]].at = "fan" /\ c[2] <= query[c[1]].cursor
  BY <1>1 DEF CallOK, InFlight
<1>3. r.at # "todo"
  BY DEF InFlight
<1> QED
  BY <1>1, <1>2, <1>3 DEF CallOK

LEMMA CheckoutInv ==
  ASSUME Inv, NEW c \in Calls, Checkout(c)
  PROVE  Inv'
<1> DEFINE h == row[c].host
           left == RemainingTimeout(Min({ContextDeadline(c[1]), row[c].left}))
<1>1. PICK hosts \in Survivors(h) :
        LET p == PoolHost(h, hosts)
            reuse == p[h].idle # <<>>
        IN /\ pool' = IF reuse THEN [p EXCEPT ![h].idle = Front(@)] ELSE p
           /\ Row(c, [row[c] EXCEPT !.at = "guard", !.left = left,
                                    !.socket = IF reuse THEN Last(p[h].idle) ELSE "closed"])
  BY ZenonT(40) DEF Checkout
<1> DEFINE p == PoolHost(h, hosts)
           reuse == p[h].idle # <<>>
           socket == IF reuse THEN Last(p[h].idle) ELSE "closed"
           r == [row[c] EXCEPT !.at = "guard", !.left = left, !.socket = socket]
<1>2. row[c].at = "checkout" /\ row[c] \in RowType /\ UNCHANGED query /\ Row(c, r)
  BY <1>1, CallFacts, SMTT(40) DEF Checkout
<1>3. h \in DOMAIN p /\ IsFiniteSet(DOMAIN p) /\ Cardinality(DOMAIN p) <= MaxPoolHosts
      /\ \A x \in DOMAIN p : HostOK(p[x])
  BY PoolHostOK DEF Inv
<1>4. pool' = IF reuse THEN [p EXCEPT ![h].idle = Front(p[h].idle)] ELSE p
  BY <1>1
<1> HIDE DEF p
<1>5. p[h].idle \in Seq({"open", "closed"}) /\ Len(p[h].idle) <= MaxIdlePerHost
  BY <1>3 DEF HostOK
<1>6. socket \in {"open", "closed"}
  BY <1>5 DEF Last
<1>7. PoolOK'
  <2>1. CASE reuse
    <3>1. Front(p[h].idle) \in Seq({"open", "closed"}) /\ Len(Front(p[h].idle)) <= MaxIdlePerHost
      <4> DEFINE s == p[h].idle
                 m == Len(s) - 1
      <4>1. s \in Seq({"open", "closed"}) /\ m \in Nat /\ m + 1 <= MaxIdlePerHost
            /\ \A i \in 1..m : s[i] \in {"open", "closed"}
        BY <1>5, <2>1
      <4>2. Front(s) = SubSeq(s, 1, m)
        BY DEF Front
      <4> HIDE DEF s, m
      <4>3. SubSeq(s, 1, m) \in Seq({"open", "closed"})
            /\ Len(SubSeq(s, 1, m)) = IF 1 <= m THEN m - 1 + 1 ELSE 0
        <5> DEFINE T == {"open", "closed"}
        <5>1. m \in Int /\ 1 \in Int /\ \A i \in 1..m : s[i] \in T
          BY <4>1
        <5> HIDE DEF T
        <5>2. SubSeq(s, 1, m) \in Seq(T) /\ Len(SubSeq(s, 1, m)) = IF 1 <= m THEN m - 1 + 1 ELSE 0
          BY <5>1, SubSeqProperties
        <5> QED
          BY <5>2 DEF T
      <4>4. Front(s) \in Seq({"open", "closed"}) /\ Len(Front(s)) <= MaxIdlePerHost
        BY <4>1, <4>2, <4>3, Numbers
      <4> QED
        BY <4>4 DEF s
    <3>2. pool' = [p EXCEPT ![h].idle = Front(p[h].idle)]
      BY <1>4, <2>1
    <3> QED
      BY <1>3, <3>1, <3>2, PoolChanged
  <2>2. CASE ~reuse
    BY <2>2, <1>3, <1>4, PoolTaken
  <2> QED
    BY <2>1, <2>2
<1>8. left \in Nat /\ left <= Fallback /\ Timely(query[c[1]].guards, left, row[c].late)
  <2>1. row[c].left \in Nat /\ row[c].late \in Nat
    BY <1>2 DEF RowType
  <2> QED
    BY <2>1, CallFacts, RemainingTimeoutOK DEF ContextDeadline
<1>9. "guard" \in RowLabels /\ socket \in Sockets
  BY <1>6 DEF RowLabels, InFlight, Sockets
<1> HIDE DEF left, socket, h
<1>10. r \in RowType /\ r.at = "guard" /\ r.left = left /\ r.late = row[c].late /\ r.armed = FALSE
  <2>1. row[c].armed = FALSE
    BY <1>2, CallFacts DEF CallOK, RowType, UnderWay
  <2> QED
    BY <1>2, <1>8, <1>9, <2>1 DEF RowType
<1> HIDE DEF r
<1>11. CallOK(query[c[1]], c[2], r)
  BY <1>2, <1>8, <1>10, CallMoves DEF InFlight, Timed
<1> QED
  BY <1>2, <1>7, <1>11, RowStep

LEMMA AddGuardInv ==
  ASSUME Inv, NEW c \in Calls, AddGuard(c)
  PROVE  Inv'
<1> DEFINE r == [row[c] EXCEPT !.at = "send", !.armed = TRUE]
<1>1. row[c].at = "guard" /\ row[c] \in RowType /\ UNCHANGED <<query, pool>> /\ Row(c, r)
      /\ CallOK(query[c[1]], c[2], row[c])
  BY CallFacts DEF AddGuard
<1>2. "send" \in RowLabels
  BY DEF RowLabels, InFlight
<1>3. r \in RowType /\ r.at = "send" /\ r.left = row[c].left /\ r.late = row[c].late
  BY <1>1, <1>2 DEF RowType
<1> HIDE DEF r
<1>4. r.left <= Fallback /\ Timely(query[c[1]].guards, r.left, r.late)
  BY <1>1, <1>3 DEF CallOK, Timed
<1>5. CallOK(query[c[1]], c[2], r)
  BY <1>1, <1>3, <1>4, CallMoves DEF InFlight, UnderWay
<1>6. PoolOK'
  BY <1>1 DEF Inv, PoolOK
<1> QED
  BY <1>1, <1>5, <1>6, RowStep

LEMMA SendInv ==
  ASSUME Inv, NEW c \in Calls, NEW alive \in BOOLEAN, Send(c, alive)
  PROVE  Inv'
<1> DEFINE at == IF alive THEN "waiting" ELSE "connecting"
           socket == IF alive THEN "open" ELSE "closed"
           r == [row[c] EXCEPT !.at = at, !.socket = socket]
<1>1. row[c].at = "send" /\ row[c] \in RowType /\ UNCHANGED <<query, pool>> /\ Row(c, r)
      /\ CallOK(query[c[1]], c[2], row[c])
  BY CallFacts DEF Send
<1>2. at \in RowLabels /\ socket \in Sockets /\ at \in UnderWay
  BY DEF RowLabels, InFlight, Sockets, UnderWay
<1> HIDE DEF at, socket
<1>3. r \in RowType /\ r.at = at /\ r.left = row[c].left /\ r.late = row[c].late
  BY <1>1, <1>2 DEF RowType
<1>4. CallOK(query[c[1]], c[2], r)
  <2>1. r.left <= Fallback /\ Timely(query[c[1]].guards, r.left, r.late)
    BY <1>1, <1>3 DEF CallOK, UnderWay, Timed
  <2>2. row[c].at \in InFlight /\ r.at \in InFlight /\ r.at \in UnderWay
        /\ r.at \notin {"disarm", "recycle", "done"}
    BY <1>1, <1>2, <1>3 DEF InFlight, UnderWay
  <2> HIDE DEF r
  <2> QED
    BY <1>3, <2>1, <2>2, CallMoves
<1>5. PoolOK'
  BY <1>1 DEF Inv, PoolOK
<1> HIDE DEF r
<1> QED
  BY <1>1, <1>4, <1>5, RowStep

\* Returned ends a call under way, with a socket that is open or closed.
LEMMA ReturnedInv ==
  ASSUME Inv, NEW c \in Calls, row[c].at \in UnderWay, NEW result \in {"response", "error"},
         NEW socket \in {"open", "closed"}, Returned(c, result, socket), UNCHANGED <<query, pool>>
  PROVE  Inv'
<1> DEFINE healthy == Healthy(c, result)
           r == [row[c] EXCEPT !.at = "disarm", !.left = 0, !.late = 0, !.result = result,
                               !.socket = socket, !.healthy = healthy]
<1>1. row[c] \in RowType /\ Row(c, r)
  BY CallFacts DEF Returned
<1>2. "disarm" \in RowLabels /\ socket \in Sockets /\ result \in Results /\ healthy \in BOOLEAN
  BY DEF RowLabels, InFlight, Sockets, Results, Healthy
<1> HIDE DEF healthy
<1>3. r \in RowType /\ r.at = "disarm" /\ r.socket = socket /\ r.result = result
  BY <1>1, <1>2 DEF RowType
<1> HIDE DEF r
<1>4. CallOK(query[c[1]], c[2], r)
  BY <1>3, CallMoves DEF InFlight, UnderWay, Timed
<1>5. PoolOK'
  BY DEF Inv, PoolOK
<1> QED
  BY <1>1, <1>4, <1>5, RowStep

LEMMA AnswerInv ==
  ASSUME Inv, NEW c \in Calls, Reply(c) \/ PeerFails(c) \/ TimesOut(c) \/ Aborted(c)
  PROVE  Inv'
<1>1. row[c].at \in UnderWay /\ UNCHANGED <<query, pool>>
  BY DEF Reply, PeerFails, TimesOut, Aborted, Broken, UnderWay
<1>2. \E result \in {"response", "error"}, socket \in {"open", "closed"} : Returned(c, result, socket)
  BY DEF Reply, PeerFails, TimesOut, Aborted, Broken
<1> QED
  BY <1>1, <1>2, ReturnedInv

LEMMA ConnectInv ==
  ASSUME Inv, NEW c \in Calls, NEW ok \in BOOLEAN, Connect(c, ok)
  PROVE  Inv'
<1>1. row[c].at = "connecting" /\ UNCHANGED <<query, pool>>
  BY DEF Connect
<1>2. CASE ok
  <2> DEFINE r == [row[c] EXCEPT !.at = "waiting", !.socket = "open"]
  <2>1. row[c] \in RowType /\ Row(c, r) /\ CallOK(query[c[1]], c[2], row[c])
    BY <1>2, CallFacts DEF Connect
  <2>2. "waiting" \in RowLabels /\ "open" \in Sockets
    BY DEF RowLabels, InFlight, Sockets
  <2>3. r \in RowType /\ r.at = "waiting" /\ r.left = row[c].left /\ r.late = row[c].late
    BY <2>1, <2>2 DEF RowType
  <2> HIDE DEF r
  <2>4. r.left <= Fallback /\ Timely(query[c[1]].guards, r.left, r.late)
    BY <1>1, <2>1, <2>3 DEF CallOK, UnderWay, Timed
  <2>5. CallOK(query[c[1]], c[2], r)
    BY <1>1, <2>3, <2>4, CallMoves DEF InFlight, UnderWay, Timed
  <2>6. PoolOK'
    BY <1>1 DEF Inv, PoolOK
  <2> QED
    BY <1>1, <2>1, <2>5, <2>6, RowStep
<1>3. CASE ~ok
  <2>1. Returned(c, "error", "closed") /\ row[c].at \in UnderWay
    BY <1>1, <1>3 DEF Connect, UnderWay
  <2> QED
    BY <1>1, <2>1, ReturnedInv
<1> QED
  BY <1>2, <1>3

\* A decoded row is done, with a result.
LEMMA DecodedOK ==
  ASSUME Inv, NEW c \in Calls, row[c].at \in InFlight, NEW r \in Decoded(c)
  PROVE  CallOK(query[c[1]], c[2], r)
<1>1. PICK result \in {"response", "error"} : r = [NoRow EXCEPT !.at = "done", !.result = result]
  BY DEF Decoded
<1>2. NoRow \in RowType /\ "done" \in RowLabels /\ result \in Results
  BY Numbers DEF NoRow, RowType, RowLabels, Sockets, Results
<1>3. r.at = "done" /\ r.result = result /\ r.armed = FALSE
  BY <1>1 DEF NoRow
<1>4. r \in RowType
  BY <1>1, <1>2 DEF RowType
<1> QED
  BY <1>3, <1>4, CallMoves DEF UnderWay, Timed

LEMMA DropGuardInv ==
  ASSUME Inv, NEW c \in Calls, DropGuard(c)
  PROVE  Inv'
<1>1. row[c].at = "disarm" /\ UNCHANGED <<query, pool>> /\ row[c].at \in InFlight
  BY DEF DropGuard, InFlight
<1>2. PoolOK'
  BY <1>1 DEF Inv, PoolOK
<1>3. CASE row[c].healthy
  <2> DEFINE r == [row[c] EXCEPT !.at = "recycle", !.armed = FALSE, !.fired = FALSE]
  <2>1. row[c] \in RowType /\ Row(c, r) /\ CallOK(query[c[1]], c[2], row[c])
    BY <1>3, CallFacts DEF DropGuard
  <2>2. "recycle" \in RowLabels
    BY DEF RowLabels, InFlight
  <2>3. r \in RowType /\ r.at = "recycle" /\ r.armed = FALSE /\ r.socket = row[c].socket /\ r.result = row[c].result
    BY <2>1, <2>2 DEF RowType
  <2> HIDE DEF r
  <2>4. r.socket \in {"open", "closed"} /\ r.result # "none"
    BY <1>1, <2>1, <2>3 DEF CallOK
  <2>5. CallOK(query[c[1]], c[2], r)
    BY <1>1, <2>3, <2>4, CallMoves DEF InFlight, UnderWay, Timed
  <2> QED
    BY <1>1, <1>2, <2>1, <2>5, RowStep
<1>4. CASE ~row[c].healthy
  <2>1. PICK r \in Decoded(c) : Row(c, r)
    BY <1>4 DEF DropGuard
  <2> QED
    BY <1>1, <1>2, <2>1, DecodedOK, RowStep
<1> QED
  BY <1>3, <1>4

LEMMA RecycleInv ==
  ASSUME Inv, NEW c \in Calls, Recycle(c)
  PROVE  Inv'
<1> DEFINE h == row[c].host
<1>1. PICK hosts \in Survivors(h) :
        LET p == PoolHost(h, hosts)
        IN pool' = IF HasRoom(p, h) THEN [p EXCEPT ![h].idle = Append(@, row[c].socket)] ELSE p
  BY ZenonT(40) DEF Recycle
<1>2. PICK r \in Decoded(c) : Row(c, r)
  BY DEF Recycle
<1>3. row[c].at = "recycle" /\ row[c].at \in InFlight /\ UNCHANGED query
  BY DEF Recycle, InFlight
<1>4. row[c].socket \in {"open", "closed"}
  BY <1>3, CallFacts DEF CallOK
<1> DEFINE p == PoolHost(h, hosts)
<1>5. h \in DOMAIN p /\ IsFiniteSet(DOMAIN p) /\ Cardinality(DOMAIN p) <= MaxPoolHosts
      /\ \A x \in DOMAIN p : HostOK(p[x])
  BY PoolHostOK DEF Inv
<1>6. pool' = IF HasRoom(p, h) THEN [p EXCEPT ![h].idle = Append(p[h].idle, row[c].socket)] ELSE p
  BY <1>1
<1> HIDE DEF p, h
<1>7. PoolOK'
  <2>1. CASE HasRoom(p, h)
    <3> DEFINE idle == Append(p[h].idle, row[c].socket)
    <3>1. p[h].idle \in Seq({"open", "closed"}) /\ Len(p[h].idle) < MaxIdlePerHost
      BY <1>5, <2>1 DEF HostOK, HasRoom
    <3>2. idle \in Seq({"open", "closed"}) /\ Len(idle) <= MaxIdlePerHost
      BY <1>4, <3>1, Numbers
    <3> HIDE DEF idle
    <3>3. pool' = [p EXCEPT ![h].idle = idle]
      BY <1>6, <2>1 DEF idle
    <3> QED
      BY <1>5, <3>2, <3>3, PoolChanged
  <2>2. CASE ~HasRoom(p, h)
    BY <2>2, <1>5, <1>6, PoolTaken
  <2> QED
    BY <2>1, <2>2
<1>8. CallOK(query[c[1]], c[2], r)
  BY <1>2, <1>3, DecodedOK
<1> QED
  BY <1>2, <1>3, <1>7, <1>8, RowStep

-----------------------------------------------------------------------------
(* Time, and the watchdog.                                                 *)

LEMMA LaterFacts ==
  /\ \A t \in Nat : Later(t) \in Nat /\ Later(t) <= t
  /\ Later(Unlimited) = Unlimited
  /\ \A s, t \in Nat : s <= t /\ t < Unlimited => Later(s) <= Later(t)
  BY Numbers DEF Later

\* The guards an instant later.
LaterGuards(gs) == [g \in DOMAIN gs |-> [left |-> Later(gs[g].left), found |-> Later(gs[g].found)]]

LEMMA GuardsLater ==
  ASSUME NEW gs \in Seq(GuardType), GuardsOK(gs)
  PROVE  /\ LaterGuards(gs) \in Seq(GuardType) /\ Len(LaterGuards(gs)) = Len(gs)
         /\ GuardsOK(LaterGuards(gs)) /\ Innermost(LaterGuards(gs)) = Later(Innermost(gs))
         /\ \A g \in 1..Len(gs) : LaterGuards(gs)[g].left = Later(gs[g].left)
<1> DEFINE new == LaterGuards(gs)
           n == Len(gs)
<1>1. n \in Nat /\ DOMAIN gs = 1..n /\ \A g \in 1..n : gs[g] \in GuardType
  OBVIOUS
<1>2. \A g \in 1..n : gs[g].left \in Nat /\ gs[g].found \in Nat /\ gs[g].left < Unlimited
  BY <1>1, Numbers DEF GuardType, GuardsOK
<1>3. \A g \in 1..n : new[g] = [left |-> Later(gs[g].left), found |-> Later(gs[g].found)]
  BY <1>1 DEF LaterGuards
<1>8. DOMAIN new = 1..n /\ new = [g \in DOMAIN new |-> new[g]]
  BY <1>1 DEF LaterGuards
<1> HIDE DEF new
<1>4. \A g \in 1..n : /\ new[g] \in GuardType
                      /\ new[g].left = Later(gs[g].left) /\ new[g].found = Later(gs[g].found)
  <2> SUFFICES ASSUME NEW g \in 1..n
               PROVE  /\ new[g] \in GuardType
                      /\ new[g].left = Later(gs[g].left) /\ new[g].found = Later(gs[g].found)
    OBVIOUS
  <2> DEFINE a == Later(gs[g].left)
             b == Later(gs[g].found)
  <2>1. a \in Nat /\ b \in Nat
    BY <1>2, LaterFacts
  <2>2. new[g] = [left |-> a, found |-> b]
    BY <1>3
  <2> HIDE DEF a, b
  <2>3. new[g] \in GuardType /\ new[g].left = a /\ new[g].found = b
    BY <2>1, <2>2 DEF GuardType
  <2> QED
    BY <2>3 DEF a, b
<1>5. new \in Seq(GuardType) /\ Len(new) = n
  <2>1. new \in [1..n -> GuardType]
    BY <1>8, <1>4
  <2> HIDE DEF n
  <2> QED
    BY <1>1, <2>1
<1>6. GuardsOK(new)
  <2>1. \A g \in 1..n : new[g].left <= Budget
    <3> SUFFICES ASSUME NEW g \in 1..n PROVE new[g].left <= Budget
      OBVIOUS
    <3>1. gs[g].left <= Budget /\ new[g].left = Later(gs[g].left)
      BY <1>4 DEF GuardsOK
    <3>2. Later(gs[g].left) \in Nat /\ Later(gs[g].left) <= gs[g].left /\ gs[g].left \in Nat
      BY <1>2, LaterFacts
    <3> QED
      BY <3>1, <3>2, Numbers
  <2>2. \A g \in 1..n : new[g].found = IF g = 1 THEN Unlimited ELSE new[g - 1].left
    <3> SUFFICES ASSUME NEW g \in 1..n PROVE new[g].found = IF g = 1 THEN Unlimited ELSE new[g - 1].left
      OBVIOUS
    <3>1. gs[g].found = IF g = 1 THEN Unlimited ELSE gs[g - 1].left
      BY DEF GuardsOK
    <3>2. g # 1 => g - 1 \in 1..n
      BY <1>1
    <3>3. new[g].found = Later(gs[g].found) /\ (g # 1 => new[g - 1].left = Later(gs[g - 1].left))
      BY <1>4, <3>2
    <3> QED
      BY <3>1, <3>3, LaterFacts
  <2>3. \A g, h \in 1..n : g <= h => new[h].left <= new[g].left
    <3> SUFFICES ASSUME NEW g \in 1..n, NEW h \in 1..n, g <= h PROVE new[h].left <= new[g].left
      OBVIOUS
    <3>1. gs[h].left <= gs[g].left
      BY DEF GuardsOK
    <3> QED
      BY <3>1, <1>2, <1>4, LaterFacts
  <2> QED
    BY <1>5, <2>1, <2>2, <2>3 DEF GuardsOK
<1>7. Innermost(new) = Later(Innermost(gs))
  <2>1. CASE gs = <<>>
    <3>1. new = <<>>
      BY <2>1, <1>5
    <3> QED
      BY <2>1, <3>1, LaterFacts DEF Innermost
  <2>2. CASE gs # <<>>
    <3>1. n \in 1..n /\ new # <<>>
      BY <2>2, <1>1, <1>5
    <3> QED
      BY <2>2, <3>1, <1>4, <1>5 DEF Innermost
  <2> QED
    BY <2>1, <2>2
<1> QED
  BY <1>4, <1>5, <1>6, <1>7 DEF new

\* The timeout and the guards run.
LEMMA TimelyLater ==
  ASSUME NEW gs \in Seq(GuardType), GuardsOK(gs), NEW left \in Nat, left <= Fallback, NEW late \in Nat,
         Timely(gs, left, late)
  PROVE  Timely(LaterGuards(gs), Later(left), late)
<1>1. Len(LaterGuards(gs)) = Len(gs) /\ \A g \in 1..Len(gs) : LaterGuards(gs)[g].left = Later(gs[g].left)
  BY GuardsLater
<1>2. ASSUME NEW g \in 1..Len(gs) PROVE Later(left) <= 1 \/ Later(left) <= Later(gs[g].left) + late
  <2>1. gs[g] \in GuardType /\ gs[g].left <= Budget /\ (left <= 1 \/ left <= gs[g].left + late)
    BY DEF GuardsOK, Timely
  <2>2. gs[g].left \in Nat /\ gs[g].left < Unlimited /\ left < Unlimited
    BY <2>1, Numbers DEF GuardType
  <2>3. Later(left) = (IF left = 0 THEN 0 ELSE left - 1)
        /\ Later(gs[g].left) = (IF gs[g].left = 0 THEN 0 ELSE gs[g].left - 1)
    BY <2>2 DEF Later
  <2> QED
    BY <2>1, <2>2, <2>3
<1> QED
  BY <1>1, <1>2 DEF Timely

\* The guards run, and a call whose timeout does not is later by as much.
LEMMA TimelyLate ==
  ASSUME NEW gs \in Seq(GuardType), GuardsOK(gs), NEW left \in Nat, left <= Fallback, NEW late \in Nat,
         Timely(gs, left, late)
  PROVE  Timely(LaterGuards(gs), left, Min({late + 1, Fallback}))
<1>1. Len(LaterGuards(gs)) = Len(gs) /\ \A g \in 1..Len(gs) : LaterGuards(gs)[g].left = Later(gs[g].left)
  BY GuardsLater
<1> DEFINE m == Min({late + 1, Fallback})
<1>2. m = IF late + 1 <= Fallback THEN late + 1 ELSE Fallback
  BY Numbers, MinPair
<1> HIDE DEF m
<1>3. ASSUME NEW g \in 1..Len(gs) PROVE left <= 1 \/ left <= Later(gs[g].left) + m
  <2>1. gs[g] \in GuardType /\ gs[g].left <= Budget /\ (left <= 1 \/ left <= gs[g].left + late)
    BY DEF GuardsOK, Timely
  <2>2. gs[g].left \in Nat /\ gs[g].left < Unlimited
    BY <2>1, Numbers DEF GuardType
  <2>3. Later(gs[g].left) = IF gs[g].left = 0 THEN 0 ELSE gs[g].left - 1
    BY <2>2 DEF Later
  <2> QED
    BY <1>2, <2>1, <2>2, <2>3, Numbers
<1> QED
  BY <1>1, <1>3 DEF Timely, m

\* What an instant does to a call.
LEMMA ElapseFacts ==
  ASSUME NEW r \in RowType
  PROVE  /\ Elapse(r) \in RowType
         /\ Elapse(r).at = r.at /\ Elapse(r).armed = r.armed /\ Elapse(r).fired = r.fired
         /\ Elapse(r).socket = r.socket /\ Elapse(r).result = r.result
         /\ r.at \in {"guard", "send"} => /\ Elapse(r).left = r.left
                                         /\ Elapse(r).late = Min({r.late + 1, Fallback})
         /\ r.at \notin {"guard", "send"} => /\ Elapse(r).left = Later(r.left)
                                            /\ Elapse(r).late = r.late
<1>1. CASE r.at \in {"guard", "send"}
  <2> DEFINE late == Min({r.late + 1, Fallback})
  <2>1. r.late + 1 \in Nat
    BY DEF RowType
  <2>2. late \in Nat
    BY <2>1, Numbers, MinPair
  <2>3. Elapse(r) = [r EXCEPT !.late = late]
    BY <1>1 DEF Elapse
  <2> HIDE DEF late
  <2>4. /\ Elapse(r) \in RowType
        /\ Elapse(r).at = r.at /\ Elapse(r).armed = r.armed /\ Elapse(r).fired = r.fired
        /\ Elapse(r).socket = r.socket /\ Elapse(r).result = r.result
        /\ Elapse(r).left = r.left /\ Elapse(r).late = late
    BY <2>2, <2>3 DEF RowType
  <2> QED
    BY <1>1, <2>4 DEF late
<1>2. CASE r.at \notin {"guard", "send"}
  <2> DEFINE left == Later(r.left)
  <2>1. left \in Nat
    BY LaterFacts DEF RowType
  <2>2. Elapse(r) = [r EXCEPT !.left = left]
    BY <1>2 DEF Elapse
  <2> HIDE DEF left
  <2>3. /\ Elapse(r) \in RowType
        /\ Elapse(r).at = r.at /\ Elapse(r).armed = r.armed /\ Elapse(r).fired = r.fired
        /\ Elapse(r).socket = r.socket /\ Elapse(r).result = r.result
        /\ Elapse(r).left = left /\ Elapse(r).late = r.late
    BY <2>1, <2>2 DEF RowType
  <2> QED
    BY <1>2, <2>3 DEF left
<1> QED
  BY <1>1, <1>2

LEMMA TickInv ==
  ASSUME Inv, Tick
  PROVE  Inv'
<1>1. ASSUME NEW q \in Queries
      PROVE  /\ query'[q] \in QueryType /\ QueryOK(query'[q], Width[q])
             /\ query'[q].guards = LaterGuards(query[q].guards)
             /\ query'[q].at = query[q].at /\ query'[q].cursor = query[q].cursor
  <2> DEFINE old == query[q]
             gs == LaterGuards(old.guards)
             budget == Later(old.budget)
             new == [old EXCEPT !.budget = budget, !.guards = gs]
  <2>1. query'[q] = new
    BY ZenonT(40) DEF Tick, LaterGuards
  <2>2. old \in QueryType /\ QueryOK(old, Width[q]) /\ old.guards \in Seq(GuardType) /\ GuardsOK(old.guards)
        /\ old.budget = Innermost(old.guards) /\ old.budget \in Nat
    BY DEF Inv, QueryOK, QueryType
  <2>3. gs \in Seq(GuardType) /\ GuardsOK(gs) /\ Innermost(gs) = budget /\ budget \in Nat
    BY <2>2, GuardsLater, LaterFacts
  <2> HIDE DEF gs, budget
  <2>4. new \in QueryType /\ new.guards = gs /\ new.budget = budget /\ new.at = old.at
        /\ new.cursor = old.cursor /\ new.failed = old.failed
    BY <2>2, <2>3 DEF QueryType
  <2> HIDE DEF new
  <2>5. QueryOK(new, Width[q])
    BY <2>2, <2>3, <2>4 DEF QueryOK
  <2> QED
    BY <2>1, <2>4, <2>5 DEF gs
<1>2. ASSUME NEW c \in Calls
      PROVE  row'[c] \in RowType /\ CallOK(query'[c[1]], c[2], row'[c])
  <2> DEFINE new == Elapse(row[c])
             q == query[c[1]]
             p == query'[c[1]]
  <2>1. row'[c] = new
    BY DEF Tick
  <2>2. c[1] \in Queries /\ row[c] \in RowType /\ CallOK(q, c[2], row[c])
        /\ q.guards \in Seq(GuardType) /\ GuardsOK(q.guards) /\ row[c].left \in Nat /\ row[c].late \in Nat
    BY CallFacts DEF RowType
  <2>3. p.guards = LaterGuards(q.guards) /\ p.at = q.at /\ p.cursor = q.cursor
    BY <1>1, <2>2
  <2>4. /\ new \in RowType /\ new.at = row[c].at /\ new.armed = row[c].armed
        /\ new.socket = row[c].socket /\ new.result = row[c].result
        /\ row[c].at \in {"guard", "send"} => /\ new.left = row[c].left
                                             /\ new.late = Min({row[c].late + 1, Fallback})
        /\ row[c].at \notin {"guard", "send"} => /\ new.left = Later(row[c].left)
                                                /\ new.late = row[c].late
    BY <2>2, ElapseFacts
  <2> HIDE DEF new, p, q
  <2>5. new.at \in Timed => new.left <= Fallback /\ Timely(p.guards, new.left, new.late)
    <3> SUFFICES ASSUME row[c].at \in Timed
                 PROVE  new.left <= Fallback /\ Timely(p.guards, new.left, new.late)
      BY <2>4
    <3>1. row[c].left <= Fallback /\ Timely(q.guards, row[c].left, row[c].late)
      BY <2>2 DEF CallOK
    <3>2. CASE row[c].at \in {"guard", "send"}
      BY <2>2, <2>3, <2>4, <3>1, <3>2, TimelyLate
    <3>3. CASE row[c].at \notin {"guard", "send"}
      <4>1. \A t \in Nat : t <= Fallback => Later(t) <= Fallback
        <5> SUFFICES ASSUME NEW t \in Nat, t <= Fallback PROVE Later(t) <= Fallback
          OBVIOUS
        <5>1. Later(t) \in Nat /\ Later(t) <= t
          BY LaterFacts
        <5> QED
          BY <5>1, Numbers
      <4> QED
        BY <2>2, <2>3, <2>4, <3>1, <3>3, <4>1, TimelyLater
    <3> QED
      BY <3>2, <3>3
  <2>6. CallOK(p, c[2], new)
    BY <2>2, <2>3, <2>4, <2>5 DEF CallOK
  <2> QED
    BY <2>1, <2>4, <2>6 DEF p
<1>3. query' \in [Queries -> QueryType] /\ row' \in [Calls -> RowType]
  <2>1. DOMAIN query' = Queries /\ query' = [q \in Queries |-> query'[q]]
    BY ZenonT(40) DEF Tick
  <2>2. row' = [c \in Calls |-> row'[c]]
    BY ZenonT(40) DEF Tick
  <2> QED
    BY <1>1, <1>2, <2>1, <2>2
<1>4. PoolOK'
  <2>1. DOMAIN pool' = DOMAIN pool
    BY ZenonT(40) DEF Tick
  <2>2. ASSUME NEW h \in DOMAIN pool PROVE HostOK(pool'[h])
    <3> DEFINE age == Min({pool[h].age + 1, Ttl + 1})
    <3>1. pool'[h] = [pool[h] EXCEPT !.age = age]
      BY ZenonT(40) DEF Tick
    <3>2. HostOK(pool[h])
      BY DEF Inv, PoolOK, HostOK
    <3> HIDE DEF age
    <3>3. pool'[h] = [idle |-> pool[h].idle, age |-> age]
      BY <3>1, <3>2 DEF HostOK
    <3> QED
      BY <3>2, <3>3 DEF HostOK
  <2> QED
    BY <2>1, <2>2 DEF Inv, PoolOK, HostOK
<1> QED
  BY <1>1, <1>2, <1>3, <1>4 DEF Inv

LEMMA DogScanInv ==
  ASSUME Inv, DogScan
  PROVE  Inv'
<1>1. ASSUME NEW q \in Queries
      PROVE  /\ query'[q] \in QueryType /\ QueryOK(query'[q], Width[q])
             /\ query'[q].at = query[q].at /\ query'[q].cursor = query[q].cursor
             /\ query'[q].guards = query[q].guards
  <2> DEFINE old == query[q]
             intr == old.intr \/ (old.guards # <<>> /\ (Overdue(q) \/ old.peer = "gone"))
             new == [old EXCEPT !.intr = intr]
  <2>1. query'[q] = new /\ intr \in BOOLEAN
    BY DEF DogScan
  <2>2. old \in QueryType /\ QueryOK(old, Width[q])
    BY DEF Inv
  <2> HIDE DEF intr
  <2>3. new \in QueryType /\ new.guards = old.guards /\ new.budget = old.budget /\ new.at = old.at
        /\ new.cursor = old.cursor /\ new.failed = old.failed
    BY <2>1, <2>2 DEF QueryType
  <2> HIDE DEF new
  <2>4. QueryOK(new, Width[q])
    BY <2>2, <2>3 DEF QueryOK
  <2> QED
    BY <2>1, <2>3, <2>4
<1>2. row' = row /\ pool' = pool
  BY DEF DogScan
<1>3. \A c \in Calls : CallOK(query'[c[1]], c[2], row'[c])
  BY <1>1, <1>2, CallFacts, CallDepends
<1>4. query' \in [Queries -> QueryType]
  <2>1. query' = [q \in Queries |-> query'[q]]
    BY DEF DogScan
  <2> QED
    BY <1>1, <2>1
<1>5. PoolOK'
  BY <1>2 DEF Inv, PoolOK
<1> QED
  BY <1>1, <1>2, <1>3, <1>4, <1>5 DEF Inv

LEMMA DogVisitInv ==
  ASSUME Inv, NEW c \in Calls, DogVisit(c)
  PROVE  Inv'
<1> DEFINE act == row[c].armed /\ query[c[1]].intr
           socket == IF row[c].at = "waiting" THEN "shut" ELSE "closed"
           r == IF act THEN [row[c] EXCEPT !.armed = FALSE, !.fired = TRUE, !.socket = socket] ELSE row[c]
<1>1. UNCHANGED <<query, pool>> /\ Row(c, r)
  <2>1. row = [row EXCEPT ![c] = row[c]]
    BY DEF Inv
  <2> QED
    BY <2>1 DEF DogVisit, Row
<1>2. row[c] \in RowType /\ CallOK(query[c[1]], c[2], row[c])
  BY CallFacts
<1>3. socket \in Sockets /\ (row[c].at # "waiting" => socket = "closed")
  BY DEF Sockets
<1> HIDE DEF socket
<1>4. r \in RowType /\ r.at = row[c].at /\ r.left = row[c].left /\ r.late = row[c].late
      /\ r.result = row[c].result /\ (r.armed => row[c].armed) /\ r.socket \in {row[c].socket, socket}
  BY <1>2, <1>3 DEF RowType
<1> HIDE DEF r
<1>5. CallOK(query[c[1]], c[2], r)
  BY <1>2, <1>3, <1>4 DEF CallOK
<1>6. PoolOK'
  BY <1>1 DEF Inv, PoolOK
<1> QED
  BY <1>1, <1>5, <1>6, RowStep

LEMMA ResetPoolInv ==
  ASSUME Inv, ResetPool
  PROVE  Inv'
<1>1. query' = query /\ row' = row /\ DOMAIN pool' = {}
  BY DEF ResetPool
<1>2. PoolOK'
  BY <1>1, FS_EmptySet, Numbers DEF PoolOK
<1> QED
  BY <1>1, <1>2 DEF Inv

LEMMA NextInv == Inv /\ [Next]_vars => Inv'
<1> SUFFICES ASSUME Inv, [Next]_vars PROVE Inv'
  OBVIOUS
<1>1. ASSUME NEW q \in Queries, Statement(q) PROVE Inv'
  <2>1. CASE \E t \in {1, Budget} : Arm(q, t)
    BY <2>1, ArmInv
  <2>2. CASE Disarm(q)
    BY <2>2, DisarmInv
  <2>3. CASE \E nulls \in SUBSET Rows(q), t \in {1, Unlimited} : FanOut(q, nulls, t)
    BY <2>3, FanOutInv
  <2>4. CASE \E h \in Hosts : Claim(q, h)
    BY <2>4, ClaimInv
  <2>5. CASE FanOutEnds(q)
    BY <2>5, FanOutEndsInv
  <2>6. CASE Interrupt(q) \/ Disconnect(q)
    BY <2>6, NoticeInv
  <2> QED
    BY <1>1, <2>1, <2>2, <2>3, <2>4, <2>5, <2>6 DEF Statement
<1>2. ASSUME NEW c \in Calls, Progress(c) \/ Reply(c) \/ PeerFails(c) PROVE Inv'
  <2>1. CASE Checkout(c)
    BY <2>1, CheckoutInv
  <2>2. CASE AddGuard(c) \/ Recycle(c)
    BY <2>2, AddGuardInv, RecycleInv
  <2>3. CASE \E b \in BOOLEAN : Send(c, b)
    BY <2>3, SendInv
  <2>4. CASE \E b \in BOOLEAN : Connect(c, b)
    BY <2>4, ConnectInv
  <2>5. CASE TimesOut(c) \/ Aborted(c) \/ Reply(c) \/ PeerFails(c)
    BY <2>5, AnswerInv
  <2>6. CASE DropGuard(c)
    BY <2>6, DropGuardInv
  <2> QED
    BY <1>2, <2>1, <2>2, <2>3, <2>4, <2>5, <2>6 DEF Progress
<1>3. CASE ResetPool
  BY <1>3, ResetPoolInv
<1>4. CASE DogScan
  BY <1>4, DogScanInv
<1>5. CASE \E c \in Calls : DogVisit(c)
  BY <1>5, DogVisitInv
<1>6. CASE Tick
  BY <1>6, TickInv
<1>7. CASE UNCHANGED vars
  BY <1>7 DEF vars, Inv, PoolOK
<1> QED
  BY <1>1, <1>2, <1>3, <1>4, <1>5, <1>6, <1>7 DEF Next

-----------------------------------------------------------------------------
\* Every reachable state of the statements, their calls and the pool keeps Inv.
THEOREM OutboundInv == Spec => []Inv
<1> QED
  BY InitInv, NextInv, PTL DEF Spec

\* QuackapiRemainingTimeoutMillis, QuackapiQueryDeadline::Start and
\* WithPlainClient: whatever guards are nested on a connection, a call started
\* under them, on whatever thread, has at every moment a timeout that outlasts
\* none of them by more than what passed between the setting of the timeout and
\* the request (or a timeout of 1 ms).
THEOREM OutboundDeadlines == Spec => []DeadlineInherited
<1>1. Inv => DeadlineInherited
  <2> SUFFICES ASSUME Inv, NEW c \in Calls, row[c].at \in Timed, NEW g \in DOMAIN query[c[1]].guards
               PROVE  row[c].left <= Max({1, query[c[1]].guards[g].left + row[c].late})
    BY DEF DeadlineInherited, Timed
  <2> DEFINE gs == query[c[1]].guards
  <2>1. gs \in Seq(GuardType) /\ CallOK(query[c[1]], c[2], row[c]) /\ row[c] \in RowType
    BY CallFacts
  <2>2. g \in 1..Len(gs) /\ gs[g] \in GuardType
    BY <2>1
  <2>3. gs[g].left \in Nat /\ row[c].left \in Nat /\ row[c].late \in Nat
    BY <2>1, <2>2 DEF GuardType, RowType
  <2>4. row[c].left <= 1 \/ row[c].left <= gs[g].left + row[c].late
    BY <2>1, <2>2 DEF CallOK, Timely
  <2> DEFINE m == gs[g].left + row[c].late
  <2>5. m \in Int /\ (row[c].left <= 1 \/ row[c].left <= m)
    BY <2>3, <2>4
  <2> HIDE DEF m
  <2>6. Max({1, m}) = IF 1 >= m THEN 1 ELSE m
    BY <2>5, MaxPair
  <2>7. row[c].left <= Max({1, m})
    BY <2>3, <2>5, <2>6
  <2> QED
    BY <2>7 DEF gs, m
<1> QED
  BY <1>1, OutboundInv, PTL

\* FanOutRequests: a statement whose chunk ended without an exception has a
\* result in every row it was to post.
THEOREM OutboundAnswers == Spec => []AnsweredOrRaised
<1>1. Inv => AnsweredOrRaised
  <2> SUFFICES ASSUME Inv, NEW q \in Queries, query[q].at \in {"ready", "done"}, query[q].cursor > 0,
                      ~query[q].failed, NEW i \in Posted(q)
               PROVE  row[<<q, i>>].at = "done" /\ row[<<q, i>>].result # "none"
    BY DEF AnsweredOrRaised
  <2>1. i \in Rows(q) /\ row[<<q, i>>].at # "null"
    BY DEF Posted
  <2>2. QueryOK(query[q], Width[q]) /\ CallOK(query[q], i, row[<<q, i>>])
    BY <2>1, RowsOK DEF Inv
  <2>3. query[q].cursor = Width[q] /\ i <= query[q].cursor
    BY <2>1, <2>2 DEF QueryOK, Rows
  <2>4. row[<<q, i>>].at \notin InFlight
    BY <2>1, NotFanAtRest
  <2>5. row[<<q, i>>] \in RowType
    BY <2>2 DEF CallOK
  <2>6. row[<<q, i>>].at = "done"
    BY <2>1, <2>2, <2>3, <2>4, <2>5 DEF CallOK, RowType, RowLabels
  <2> QED
    BY <2>2, <2>6 DEF CallOK
<1> QED
  BY <1>1, OutboundInv, PTL

\* No step but a visit of the watchdog marks a call as fired.
LEMMA OnlyVisitsFire ==
  ASSUME Inv, [Next]_vars, ~\E d \in Calls : DogVisit(d), NEW c \in Calls
  PROVE  row'[c].fired \in {row[c].fired, FALSE}
<1>1. row \in [Calls -> RowType] /\ \A d \in Calls : row[d] \in RowType
  BY DEF Inv
<1>2. ASSUME NEW d \in Calls, NEW r, Row(d, r), r.fired \in {row[d].fired, FALSE}
      PROVE  row'[c].fired \in {row[c].fired, FALSE}
  BY <1>1, <1>2 DEF Row
<1>3. ASSUME NEW d \in Calls, NEW result, NEW socket, Returned(d, result, socket)
      PROVE  row'[c].fired \in {row[c].fired, FALSE}
  <2> DEFINE r == [row[d] EXCEPT !.at = "disarm", !.left = 0, !.late = 0, !.result = result,
                                 !.socket = socket, !.healthy = Healthy(d, result)]
  <2>1. Row(d, r) /\ r.fired = row[d].fired
    BY <1>1, <1>3 DEF Returned, RowType
  <2> HIDE DEF r
  <2> QED
    BY <1>2, <2>1
<1>4. ASSUME NEW d \in Calls, NEW r \in Decoded(d), Row(d, r)
      PROVE  row'[c].fired \in {row[c].fired, FALSE}
  <2>1. r.fired = FALSE
    BY DEF Decoded, NoRow
  <2> QED
    BY <1>2, <1>4, <2>1
<1>5. ASSUME NEW d \in Calls, Progress(d) \/ Reply(d) \/ PeerFails(d)
      PROVE  row'[c].fired \in {row[c].fired, FALSE}
  <2>1. CASE Checkout(d)
    <3>1. PICK left, socket :
            Row(d, [row[d] EXCEPT !.at = "guard", !.left = left, !.socket = socket])
      BY <2>1, ZenonT(40) DEF Checkout
    <3> DEFINE r == [row[d] EXCEPT !.at = "guard", !.left = left, !.socket = socket]
    <3>2. Row(d, r) /\ r.fired = row[d].fired
      BY <1>1, <3>1 DEF RowType
    <3> HIDE DEF r
    <3> QED
      BY <1>2, <3>2
  <2>2. CASE AddGuard(d) \/ Recycle(d)
    <3>1. CASE AddGuard(d)
      <4> DEFINE r == [row[d] EXCEPT !.at = "send", !.armed = TRUE]
      <4>1. Row(d, r) /\ r.fired = row[d].fired
        BY <1>1, <3>1 DEF AddGuard, RowType
      <4> HIDE DEF r
      <4> QED
        BY <1>2, <4>1
    <3>2. CASE Recycle(d)
      BY <1>4, <3>2 DEF Recycle
    <3> QED
      BY <2>2, <3>1, <3>2
  <2>3. CASE \E b \in BOOLEAN : Send(d, b) \/ (Connect(d, b) /\ b)
    <3>1. PICK at, socket : Row(d, [row[d] EXCEPT !.at = at, !.socket = socket])
      BY <2>3 DEF Send, Connect
    <3> DEFINE r == [row[d] EXCEPT !.at = at, !.socket = socket]
    <3>2. Row(d, r) /\ r.fired = row[d].fired
      BY <1>1, <3>1 DEF RowType
    <3> HIDE DEF r
    <3> QED
      BY <1>2, <3>2
  <2>4. CASE (\E b \in BOOLEAN : Connect(d, b) /\ ~b) \/ TimesOut(d) \/ Aborted(d) \/ Reply(d) \/ PeerFails(d)
    <3>1. \E result, socket : Returned(d, result, socket)
      BY <2>4 DEF Connect, TimesOut, Aborted, Reply, PeerFails, Broken
    <3> QED
      BY <1>3, <3>1
  <2>5. CASE DropGuard(d)
    <3>1. CASE row[d].healthy
      <4> DEFINE r == [row[d] EXCEPT !.at = "recycle", !.armed = FALSE, !.fired = FALSE]
      <4>1. Row(d, r) /\ r.fired = FALSE
        BY <1>1, <2>5, <3>1 DEF DropGuard, RowType
      <4> HIDE DEF r
      <4> QED
        BY <1>2, <4>1
    <3>2. CASE ~row[d].healthy
      BY <1>4, <2>5, <3>2 DEF DropGuard
    <3> QED
      BY <3>1, <3>2
  <2> QED
    BY <1>5, <2>1, <2>2, <2>3, <2>4, <2>5 DEF Progress
<1>6. ASSUME NEW q \in Queries, Statement(q)
      PROVE  row'[c].fired \in {row[c].fired, FALSE}
  <2>1. CASE \E nulls \in SUBSET Rows(q), t \in {1, Unlimited} : FanOut(q, nulls, t)
    BY <1>1, <2>1 DEF FanOut, RowType
  <2>2. CASE \E h \in Hosts : Claim(q, h)
    <3>1. PICK h \in Hosts : Claim(q, h)
      BY <2>2
    <3> DEFINE n == query[q].cursor + 1
               d == <<q, n>>
               r == [row[d] EXCEPT !.at = "checkout", !.host = h]
    <3>2. n \in Rows(q)
      BY <3>1, Numbers, SMTT(40) DEF Claim, Inv, QueryType, Rows
    <3>3. d \in Calls
      BY <3>2, CallsArePairs
    <3>4. row' = row \/ Row(d, r)
      BY <3>1 DEF Claim
    <3>5. r.fired = row[d].fired
      BY <1>1, <3>3 DEF RowType
    <3> HIDE DEF d, r
    <3> QED
      BY <1>2, <3>3, <3>4, <3>5
  <2>3. CASE ~(\E nulls \in SUBSET Rows(q), t \in {1, Unlimited} : FanOut(q, nulls, t))
             /\ ~\E h \in Hosts : Claim(q, h)
    <3>1. row' = row
      BY <1>6, <2>3 DEF Statement, Arm, Disarm, FanOutEnds, Interrupt, Disconnect
    <3> QED
      BY <3>1
  <2> QED
    BY <2>1, <2>2, <2>3
<1>7. CASE Tick
  BY <1>1, <1>7, ElapseFacts DEF Tick
<1>8. CASE ResetPool \/ DogScan \/ UNCHANGED vars
  BY <1>8 DEF ResetPool, DogScan, vars
<1> QED
  BY <1>5, <1>6, <1>7, <1>8 DEF Next

\* A visit fires only an armed call of an interrupted statement.
LEMMA FiredByVisit ==
  ASSUME Inv, [Next]_vars, NEW c \in Calls, row'[c].fired, ~row[c].fired
  PROVE  query[c[1]].intr /\ row[c].at \in {"send", "waiting", "disarm"}
<1>1. PICK d \in Calls : DogVisit(d)
  BY OnlyVisitsFire
<1>2. row'[c] # row[c]
  OBVIOUS
<1>3. d = c /\ row[c].armed /\ query[c[1]].intr /\ row[c].at # "connecting"
  BY <1>1, <1>2 DEF DogVisit, Row, Inv
<1> QED
  BY <1>3, CallFacts DEF CallOK, UnderWay

\* DeadlineWatchdog::Run and ~QuackapiCancellationGuard: the watchdog stops a
\* client only for an interrupted statement and only while the call owns it.
THEOREM OutboundCancellations == Spec => StopHitsOwnCall
<1>1. Inv /\ [Next]_vars =>
        [\A c \in Calls : row'[c].fired /\ ~row[c].fired =>
           /\ query[c[1]].intr
           /\ row[c].at \in {"send", "waiting", "disarm"}]_vars
  BY FiredByVisit
<1> QED
  BY <1>1, InitInv, NextInv, PTL DEF Spec, StopHitsOwnCall

\* ConnectionPool: never more than MAX_POOL_HOSTS hosts, never more than
\* MAX_IDLE_PER_HOST idle clients of one, and none whose socket was shut down
\* in mid-request.
THEOREM OutboundPoolBounded == Spec => []PoolOK
<1>1. Inv => PoolOK
  BY DEF Inv
<1> QED
  BY <1>1, OutboundInv, PTL
=============================================================================
