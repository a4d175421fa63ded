-------------------------- MODULE SelfDispatchProofs --------------------------
(***************************************************************************)
(* quackapi_selfdispatch for any numbers of calls, rows, tasks and threads *)
(* and any cap.                                                            *)
(*                                                                         *)
(* The invariant follows each row from the cursor to a task, to its        *)
(* statements and to its receipt: a row that was begun has its receipt or  *)
(* somebody who runs it, until the call is abandoned (RowsOK); the caller  *)
(* runs rows itself only when no task of the call is left, which it knows  *)
(* from two counters alone (TasksCounted).                                 *)
(***************************************************************************)
EXTENDS SelfDispatch, FiniteSetTheorems, WellFoundedInduction, TLAPS

-----------------------------------------------------------------------------
(* The invariant.                                                          *)

Early == {"idle", "load", "cas", "create"}
CallLabels == Early \cup Over \cup {"inline", "schedule", "wait", "help", "rest", "answer"}
TaskLabels == Steps \cup {"none", "queued", "settled"}

CallType ==
  [at : CallLabels, skip : SUBSET Rows, stmts : Nat, seen : Nat, reserved : Nat, started : Nat, settled : Nat,
   begun : BOOLEAN, cursor : Nat, row : Rows \cup {0}, cancelled : BOOLEAN, done : SUBSET Rows,
   open : SUBSET Rows, expired : BOOLEAN, intr : BOOLEAN, starts : [Rows -> 0..1], stopped : SUBSET Rows,
   late : SUBSET Rows]

TaskType ==
  [at : TaskLabels, own : BOOLEAN, row : Rows \cup {0}, conn : BOOLEAN, result : BOOLEAN, stmt : Nat]

LiveTasks(ts) == {k \in Tasks : ts[k].at \notin {"none", "settled"}}
SettledTasks(ts) == {k \in Tasks : ts[k].at = "settled"}

\* The tasks of a call and the counters of them.
TasksCounted(q, ts) ==
  /\ q.started <= MaxFanout
  /\ \A k \in Tasks : ts[k].at = "none" <=> q.started < k
  /\ q.settled = Cardinality(SettledTasks(ts))
  /\ q.at \in Early => q.started = 0
  /\ q.at = "create" => q.reserved \in 1..MaxFanout
  /\ q.at = "schedule" => q.started < q.reserved /\ q.reserved <= MaxFanout

\* A task t and the row it holds.
TaskOK(t, starts, cursor) ==
  /\ t.at \in {"none", "settled", "claim"} => t.row = 0
  /\ t.at \in {"check", "connect", "submit", "execute"} => t.row # 0
  /\ t.row = 0 \/ ~t.conn => ~t.result /\ t.stmt = 0
  /\ t.at = "connect" => ~t.conn
  /\ t.at = "submit" => t.conn /\ ~t.result
  /\ t.at = "execute" => t.result
  /\ t.row # 0 => t.row <= cursor /\ (t.stmt = 0 /\ ~t.result => starts[t.row] = 0)

\* Nobody else holds the row of a task, a row beyond the cursor has not been begun,
\* and a row that was begun has its receipt or is being run.
RowsOK(q, ts) ==
  /\ \A j, k \in Tasks : ts[j].row = ts[k].row /\ ts[j].row # 0 => j = k
  /\ \A k \in Tasks : TaskOK(ts[k], q.starts, q.cursor)
  /\ LiveTasks(ts) # {} \/ q.at \in Early \cup {"schedule"} =>
       \A r \in Rows : r > q.cursor => q.starts[r] = 0
  /\ q.at \notin Over \cup {"answer"} =>
       \A r \in Rows : q.starts[r] # 0 =>
         \/ r \in q.done \/ r = q.row
         \/ \E k \in Tasks : ts[k].row = r /\ (ts[k].stmt # 0 \/ ts[k].result)

\* The caller runs rows when its tasks are settled, and answers when every row has
\* its receipt or the deadline has passed.
CallerOK(q, ts) ==
  /\ q.at \in {"inline", "rest"} => LiveTasks(ts) = {}
  /\ q.row # 0 => q.at \in {"inline", "rest"}
  /\ q.cancelled => q.at \in Over \cup {"answer"}
  /\ q.at \in {"answer", "returned"} => Rows \ (q.skip \cup q.done) = {} \/ q.expired

CallOK(q, ts) == TasksCounted(q, ts) /\ RowsOK(q, ts) /\ CallerOK(q, ts)

Inv ==
  /\ call \in [Calls -> CallType]
  /\ task \in [Calls -> [Tasks -> TaskType]]
  /\ \A c \in Calls : CallOK(call[c], task[c])
  /\ ReservationsBalanced

-----------------------------------------------------------------------------
(* Minima and counts.                                                      *)

LEMMA LeastOfSet ==
  ASSUME NEW S, S \subseteq Nat, S # {}
  PROVE  Min(S) \in S
<1> DEFINE R == OpToRel(<, Nat)
<1>1. IsWellFoundedOn(R, Nat)
  BY NatLessThanWellFounded
<1>2. \A x, y \in Nat : <<y, x>> \notin R => x <= y
  BY DEF OpToRel
<1> HIDE DEF R
<1>3. PICK x \in S : \A y \in S : ~(<<y, x>> \in R)
  BY <1>1, WFMin
<1>4. \A y \in S : x <= y
  BY <1>2, <1>3
<1> QED
  BY <1>4 DEF Min

LEMMA LeastOfTwo ==
  ASSUME NEW a \in Int, NEW b \in Int
  PROVE  Min({a, b}) \in {a, b} /\ Min({a, b}) <= a /\ Min({a, b}) <= b
<1>1. \E x \in {a, b} : \A y \in {a, b} : x <= y
  OBVIOUS
<1>2. Min({a, b}) \in {a, b} /\ \A y \in {a, b} : Min({a, b}) <= y
  BY <1>1 DEF Min
<1> QED
  BY <1>2

LEMMA TasksFinite == IsFiniteSet(Tasks) /\ Cardinality(Tasks) = MaxFanout /\ MaxFanout \in Nat
<1>1. MaxFanout \in Nat /\ MaxFanout # 0
  BY DispatchAssumption
<1>2. IsFiniteSet(1..MaxFanout) /\ Cardinality(1..MaxFanout) = IF 1 > MaxFanout THEN 0 ELSE MaxFanout - 1 + 1
  BY <1>1, FS_Interval
<1> QED
  BY <1>1, <1>2 DEF Tasks

LEMMA CountOfTasks ==
  ASSUME NEW S \in SUBSET Tasks
  PROVE  IsFiniteSet(S) /\ Cardinality(S) \in Nat
BY TasksFinite, FS_Subset, FS_CardinalityType

\* The tasks lo + 1 .. hi.
LEMMA CountOfRange ==
  ASSUME NEW lo \in Nat, NEW hi \in Nat, lo <= hi, hi <= MaxFanout
  PROVE  LET S == {k \in Tasks : lo < k /\ k <= hi} IN Cardinality(S) = hi - lo
<1> DEFINE S == {k \in Tasks : lo < k /\ k <= hi}
           a == lo + 1
<1>1. a \in Int /\ hi \in Int
  OBVIOUS
<1>2. S = a..hi
  BY TasksFinite DEF Tasks
<1> HIDE DEF a, S
<1>3. Cardinality(a..hi) = IF a > hi THEN 0 ELSE hi - a + 1
  BY <1>1, FS_Interval
<1>4. Cardinality(S) = hi - lo
  BY <1>1, <1>2, <1>3 DEF a
<1> QED
  BY <1>4 DEF S

-----------------------------------------------------------------------------
(* One call changes.                                                       *)

\* What exec_tasks_running admits of a call q with the tasks ts.
Slots(q, ts) ==
  {k \in Tasks :
     \/ ts[k].at \notin {"none", "settled"}
     \/ q.at \in {"create", "schedule"} /\ q.started < k /\ k <= q.reserved}

LEMMA CountedTogether ==
  ASSUME NEW c \in Calls, NEW A \in SUBSET Tasks, NEW B \in SUBSET Tasks,
         NEW P \in SUBSET (Calls \X Tasks), NEW Q \in SUBSET (Calls \X Tasks),
         \A k \in Tasks : (<<c, k>> \in P <=> k \in A) /\ (<<c, k>> \in Q <=> k \in B),
         \A x \in Calls \ {c}, k \in Tasks : <<x, k>> \in P <=> <<x, k>> \in Q
  PROVE  /\ Cardinality(Q) = Cardinality(P) + Cardinality(B) - Cardinality(A)
         /\ Cardinality(Q) \in Nat /\ Cardinality(P) \in Nat
<1> DEFINE R == {p \in P : p[1] # c}
           U == {c} \X A
           V == {c} \X B
<1>1. P = R \cup U /\ R \cap U = {} /\ Q = R \cup V /\ R \cap V = {} /\ R \in SUBSET (Calls \X Tasks)
  <2>1. R = {p \in Q : p[1] # c}
    OBVIOUS
  <2>2. P = R \cup U
    OBVIOUS
  <2>3. Q = R \cup V
    BY <2>1
  <2> QED
    BY <2>2, <2>3
<1>2. /\ IsFiniteSet(A) /\ Cardinality(A) \in Nat /\ IsFiniteSet(B) /\ Cardinality(B) \in Nat
      /\ IsFiniteSet({c}) /\ Cardinality({c}) = 1
  BY CountOfTasks, FS_Singleton
<1>3. IsFiniteSet(R) /\ Cardinality(R) \in Nat
  <2>1. IsFiniteSet(Calls \X Tasks)
    BY TasksFinite, DispatchAssumption, FS_Product
  <2> QED
    BY <1>1, <2>1, FS_Subset, FS_CardinalityType
<1>4. IsFiniteSet(U) /\ Cardinality(U) = Cardinality(A) /\ IsFiniteSet(V) /\ Cardinality(V) = Cardinality(B)
  <2>1. IsFiniteSet(U) /\ Cardinality(U) = 1 * Cardinality(A)
    BY <1>2, FS_Product
  <2>2. IsFiniteSet(V) /\ Cardinality(V) = 1 * Cardinality(B)
    BY <1>2, FS_Product
  <2> QED
    BY <1>2, <2>1, <2>2
<1> HIDE DEF R, U, V
<1>5. Cardinality(R \cup U) = Cardinality(R) + Cardinality(U) - Cardinality(R \cap U)
  BY <1>3, <1>4, FS_Union
<1>6. Cardinality(R \cup V) = Cardinality(R) + Cardinality(V) - Cardinality(R \cap V)
  BY <1>3, <1>4, FS_Union
<1>7. Cardinality({}) = 0
  BY FS_EmptySet
<1>8. Cardinality(P) = Cardinality(R) + Cardinality(A) /\ Cardinality(Q) = Cardinality(R) + Cardinality(B)
  <2>1. Cardinality(P) = Cardinality(R) + Cardinality(A) - 0
    BY <1>1, <1>4, <1>5, <1>7
  <2>2. Cardinality(Q) = Cardinality(R) + Cardinality(B) - 0
    BY <1>1, <1>4, <1>6, <1>7
  <2> QED
    BY <1>2, <1>3, <2>1, <2>2
<1> QED
  BY <1>2, <1>3, <1>8

LEMMA CallStep ==
  ASSUME Inv, NEW c \in Calls, NEW q \in CallType, NEW ts \in [Tasks -> TaskType], CallOK(q, ts),
         call' = [call EXCEPT ![c] = q], task' = [task EXCEPT ![c] = ts],
         running' = running + Cardinality(Slots(q, ts)) - Cardinality(Slots(call[c], task[c])),
         running' <= Cap
  PROVE  Inv'
<1>1. call' \in [Calls -> CallType] /\ \A x \in Calls : call'[x] = IF x = c THEN q ELSE call[x]
  BY DEF Inv
<1>2. task' \in [Calls -> [Tasks -> TaskType]] /\ \A x \in Calls : task'[x] = IF x = c THEN ts ELSE task[x]
  BY DEF Inv
<1>3. \A x \in Calls : CallOK(call'[x], task'[x])
  BY <1>1, <1>2 DEF Inv
<1> DEFINE A == Slots(call[c], task[c])
           B == Slots(q, ts)
           P == {p \in Calls \X Tasks : p[2] \in Slots(call[p[1]], task[p[1]])}
           Q == {p \in Calls \X Tasks : p[2] \in Slots(call'[p[1]], task'[p[1]])}
<1>4. /\ Cardinality(Q) = Cardinality(P) + Cardinality(B) - Cardinality(A)
      /\ Cardinality(Q) \in Nat /\ Cardinality(P) \in Nat
  <2>1. A \in SUBSET Tasks /\ B \in SUBSET Tasks
    BY DEF Slots
  <2>2. P \in SUBSET (Calls \X Tasks) /\ Q \in SUBSET (Calls \X Tasks)
    OBVIOUS
  <2>3. \A k \in Tasks : (<<c, k>> \in P <=> k \in A) /\ (<<c, k>> \in Q <=> k \in B)
    BY <1>1, <1>2
  <2>4. \A x \in Calls \ {c}, k \in Tasks : <<x, k>> \in P <=> <<x, k>> \in Q
    BY <1>1, <1>2
  <2> HIDE DEF A, B, P, Q
  <2>5. ASSUME NEW a \in SUBSET Tasks, NEW b \in SUBSET Tasks,
               NEW u \in SUBSET (Calls \X Tasks), NEW v \in SUBSET (Calls \X Tasks),
               \A k \in Tasks : (<<c, k>> \in u <=> k \in a) /\ (<<c, k>> \in v <=> k \in b),
               \A x \in Calls \ {c}, k \in Tasks : <<x, k>> \in u <=> <<x, k>> \in v
        PROVE  /\ Cardinality(v) = Cardinality(u) + Cardinality(b) - Cardinality(a)
               /\ Cardinality(v) \in Nat /\ Cardinality(u) \in Nat
    BY <2>5, CountedTogether
  <2> QED
    BY <2>1, <2>2, <2>3, <2>4, <2>5
<1>5. P = {p \in Calls \X Tasks : p[2] \in Admitted(p[1])}
  BY DEF Admitted, Slots
<1>6. Q = {p \in Calls \X Tasks : p[2] \in Admitted(p[1])'}
  BY DEF Admitted, Slots
<1>7. running = Cardinality(P)
  BY <1>5 DEF Inv, ReservationsBalanced
<1>8. Cardinality(A) \in Nat /\ Cardinality(B) \in Nat
  BY CountOfTasks DEF Slots
<1> HIDE DEF A, B, P, Q
<1>9. running' = Cardinality(Q)
  <2>1. running' = running + Cardinality(B) - Cardinality(A)
    BY DEF A, B
  <2> QED
    BY <1>4, <1>7, <1>8, <2>1
<1>10. running' \in 0..Cap
  <2>1. Cap \in Nat
    BY DispatchAssumption
  <2> QED
    BY <1>4, <1>9, <2>1
<1>11. ReservationsBalanced'
  BY <1>6, <1>9, <1>10 DEF ReservationsBalanced
<1> QED
  BY <1>1, <1>2, <1>3, <1>11 DEF Inv

\* A step that reserves and settles nothing.
LEMMA QuietStep ==
  ASSUME Inv, NEW c \in Calls, NEW q \in CallType, NEW ts \in [Tasks -> TaskType], CallOK(q, ts),
         call' = [call EXCEPT ![c] = q], task' = [task EXCEPT ![c] = ts], running' = running,
         Slots(q, ts) = Slots(call[c], task[c])
  PROVE  Inv'
<1> DEFINE n == Cardinality(Slots(q, ts))
<1>1. n \in Nat /\ n = Cardinality(Slots(call[c], task[c]))
  BY CountOfTasks DEF Slots
<1>2. running \in Int /\ running <= Cap
  BY DispatchAssumption DEF Inv, ReservationsBalanced
<1> HIDE DEF n
<1>3. running' = running + n - n /\ running' <= Cap
  BY <1>1, <1>2
<1> QED
  BY <1>1, <1>3, CallStep DEF n

LEMMA CallFacts ==
  ASSUME Inv, NEW c \in Calls
  PROVE  /\ call[c] \in CallType /\ task[c] \in [Tasks -> TaskType]
         /\ TasksCounted(call[c], task[c]) /\ RowsOK(call[c], task[c]) /\ CallerOK(call[c], task[c])
         /\ running \in Nat /\ running <= Cap /\ Cap \in Nat
BY DispatchAssumption DEF Inv, CallOK, ReservationsBalanced

\* A call without tasks.
LEMMA NoneLive ==
  ASSUME NEW q \in CallType, NEW ts \in [Tasks -> TaskType], TasksCounted(q, ts), q.started = 0
  PROVE  LiveTasks(ts) = {}
BY TasksFinite DEF TasksCounted, LiveTasks, Tasks

\* tasks_done = tasks scheduled: no task is left.
LEMMA AllSettledNoneLive ==
  ASSUME NEW q \in CallType, NEW ts \in [Tasks -> TaskType], TasksCounted(q, ts), q.settled = q.started
  PROVE  LiveTasks(ts) = {}
<1> DEFINE S == SettledTasks(ts)
           n == q.started
           T == {k \in Tasks : 0 < k /\ k <= n}
<1>1. n \in Nat /\ n <= MaxFanout /\ Cardinality(S) = n /\ \A k \in Tasks : ts[k].at = "none" <=> n < k
  BY DEF TasksCounted, CallType
<1> HIDE DEF n
<1>2. Cardinality(T) = n
  <2>1. Cardinality(T) = n - 0
    BY <1>1, CountOfRange
  <2> QED
    BY <1>1, <2>1
<1>3. S \in SUBSET T
  <2> SUFFICES ASSUME NEW k \in S PROVE k \in T
    OBVIOUS
  <2>1. k \in Tasks /\ ts[k].at # "none"
    BY DEF SettledTasks
  <2> QED
    BY <1>1, <2>1, TasksFinite DEF Tasks
<1>4. IsFiniteSet(T)
  <2>1. T \in SUBSET Tasks
    OBVIOUS
  <2> QED
    BY <2>1, CountOfTasks
<1> HIDE DEF T
<1>5. S = T
  BY <1>1, <1>2, <1>3, <1>4, FS_Subset
<1>6. ASSUME NEW k \in Tasks PROVE ts[k].at \in {"none", "settled"}
  <2>1. CASE k \in S
    BY <2>1 DEF SettledTasks
  <2>2. CASE k \notin S
    <3>1. n < k
      BY <1>1, <1>5, <2>2, TasksFinite DEF T, Tasks
    <3> QED
      BY <1>1, <3>1
  <2> QED
    BY <2>1, <2>2
<1> QED
  BY <1>6 DEF LiveTasks

-----------------------------------------------------------------------------
(* The caller.                                                             *)

\* The call changes, its tasks do not.
LEMMA CallerStep ==
  ASSUME Inv, NEW c \in Calls, NEW p \in CallType, Caller(c, p), UNCHANGED running,
         TasksCounted(p, task[c]), RowsOK(p, task[c]), CallerOK(p, task[c]),
         Slots(p, task[c]) = Slots(call[c], task[c])
  PROVE  Inv'
<1>1. task' = [task EXCEPT ![c] = task[c]] /\ call' = [call EXCEPT ![c] = p]
  BY DEF Caller, Inv
<1>2. task[c] \in [Tasks -> TaskType]
  BY DEF Inv
<1> QED
  BY <1>1, <1>2, QuietStep DEF CallOK

\* From one piece of ExecScalar to another.
LEMMA GotoInv ==
  ASSUME Inv, NEW c \in Calls, NEW label \in CallLabels \ {"idle", "cas", "create"}, Goto(c, label),
         call[c].row = 0,
         label = "load" => call[c].at = "idle",
         label = "schedule" <=> call[c].at \in {"create", "schedule"},
         label = "schedule" => call[c].at = "create",
         label \in {"inline", "rest"} => LiveTasks(task[c]) = {},
         label \notin Over \cup {"answer"} => call[c].at \notin Over \cup {"answer"},
         label \in {"answer", "returned"} => Rows \ (call[c].skip \cup call[c].done) = {} \/ call[c].expired
  PROVE  Inv'
<1> DEFINE q == call[c]
           ts == task[c]
           p == [q EXCEPT !.at = label]
<1>1. /\ q \in CallType /\ ts \in [Tasks -> TaskType]
      /\ TasksCounted(q, ts) /\ RowsOK(q, ts) /\ CallerOK(q, ts)
  BY CallFacts
<1>2. Caller(c, p) /\ UNCHANGED running
  BY DEF Goto
<1> HIDE DEF q, ts
<1>3. /\ p \in CallType /\ p.at = label /\ p.skip = q.skip /\ p.reserved = q.reserved /\ p.started = q.started
      /\ p.settled = q.settled /\ p.cursor = q.cursor /\ p.row = q.row /\ p.cancelled = q.cancelled
      /\ p.done = q.done /\ p.expired = q.expired /\ p.starts = q.starts
  BY <1>1 DEF CallType
<1> HIDE DEF p
<1>4. TasksCounted(p, ts)
  <2>1. MaxFanout \in Nat
    BY TasksFinite
  <2> QED
    BY <1>1, <1>3, <2>1 DEF TasksCounted, Early, CallLabels, Over, q, CallType
<1>5. RowsOK(p, ts)
  BY <1>1, <1>3 DEF RowsOK, Early, CallLabels, Over, q
<1>6. CallerOK(p, ts)
  BY <1>1, <1>3 DEF CallerOK, Over, CallLabels, Early, q, ts
<1>7. Slots(p, ts) = Slots(q, ts)
  BY <1>3 DEF Slots, q, CallLabels, Over, Early
<1> QED
  BY <1>2, <1>3, <1>4, <1>5, <1>6, <1>7, CallerStep DEF q, ts

LEMMA BeginInv ==
  ASSUME Inv, NEW c \in Calls, NEW inline \in BOOLEAN, Begin(c, inline)
  PROVE  Inv'
<1> DEFINE label == IF inline \/ call[c].skip = Rows THEN "inline" ELSE "load"
<1>1. call[c].at = "idle" /\ Goto(c, label)
  BY DEF Begin
<1>2. LiveTasks(task[c]) = {} /\ call[c].row = 0
  BY <1>1, CallFacts, NoneLive DEF TasksCounted, CallerOK, Early
<1> QED
  BY <1>1, <1>2, GotoInv DEF CallLabels, Over, Early

LEMMA CreateInv ==
  ASSUME Inv, NEW c \in Calls, Create(c)
  PROVE  Inv'
<1>1. call[c].at = "create" /\ Goto(c, "schedule")
  BY DEF Create
<1>2. call[c].row = 0
  BY <1>1, CallFacts DEF CallerOK
<1> QED
  BY <1>1, <1>2, GotoInv DEF CallLabels, Over, Early

LEMMA InlineInterruptedInv ==
  ASSUME Inv, NEW c \in Calls, InlineInterrupted(c)
  PROVE  Inv'
BY GotoInv DEF InlineInterrupted, CallLabels, Over, Early

LEMMA InlineDoneInv ==
  ASSUME Inv, NEW c \in Calls, InlineDone(c)
  PROVE  Inv'
<1>1. call[c].at \in {"inline", "rest"} /\ call[c].row = 0 /\ Goto(c, "answer")
  BY DEF InlineDone
<1>2. Rows \ (call[c].skip \cup call[c].done) = {}
  BY DEF InlineDone, Todo
<1> QED
  BY <1>1, <1>2, GotoInv DEF CallLabels, Over, Early

LEMMA TasksDoneInv ==
  ASSUME Inv, NEW c \in Calls, TasksDone(c)
  PROVE  Inv'
<1>1. call[c].at = "wait" /\ call[c].settled = call[c].started /\ Goto(c, "rest")
  BY DEF TasksDone, AllSettled
<1>2. LiveTasks(task[c]) = {} /\ call[c].row = 0
  BY <1>1, CallFacts, AllSettledNoneLive DEF CallerOK
<1> QED
  BY <1>1, <1>2, GotoInv DEF CallLabels, Over, Early

LEMMA HelpInv ==
  ASSUME Inv, NEW c \in Calls, Help(c) \/ HelpDone(c)
  PROVE  Inv'
<1>1. call[c].at \in {"wait", "help"} /\ (Goto(c, "help") \/ Goto(c, "wait"))
  BY DEF Help, HelpDone
<1>2. call[c].row = 0
  BY <1>1, CallFacts DEF CallerOK
<1> QED
  BY <1>1, <1>2, GotoInv DEF CallLabels, Over, Early

LEMMA AnswerInv ==
  ASSUME Inv, NEW c \in Calls, Answer(c)
  PROVE  Inv'
<1>1. call[c].at = "answer" /\ (Goto(c, "threw") \/ Goto(c, "returned"))
  BY DEF Answer
<1>2. call[c].row = 0 /\ (Rows \ (call[c].skip \cup call[c].done) = {} \/ call[c].expired)
  BY <1>1, CallFacts DEF CallerOK
<1> QED
  BY <1>1, <1>2, GotoInv DEF CallLabels, Over, Early

LEMMA TeardownInv ==
  ASSUME Inv, NEW c \in Calls, Teardown(c)
  PROVE  Inv'
<1>1. call[c].at \in {"returned", "threw"} /\ Goto(c, "closing")
  BY DEF Teardown
<1>2. call[c].row = 0
  BY <1>1, CallFacts DEF CallerOK
<1> QED
  BY <1>1, <1>2, GotoInv DEF CallLabels, Over, Early

LEMMA DeniedInv ==
  ASSUME Inv, NEW c \in Calls, Denied(c)
  PROVE  Inv'
<1> DEFINE q == call[c]
           ts == task[c]
           p == [q EXCEPT !.skip = Rows, !.at = "returned"]
<1>1. /\ q \in CallType /\ ts \in [Tasks -> TaskType]
      /\ TasksCounted(q, ts) /\ RowsOK(q, ts) /\ CallerOK(q, ts)
  BY CallFacts
<1>2. q.at = "idle" /\ Caller(c, p) /\ UNCHANGED running
  BY DEF Denied
<1> HIDE DEF q, ts
<1>4. /\ p \in CallType /\ p.at = "returned" /\ p.skip = Rows /\ p.reserved = q.reserved
      /\ p.started = q.started /\ p.settled = q.settled /\ p.cursor = q.cursor /\ p.row = q.row
      /\ p.cancelled = q.cancelled /\ p.done = q.done /\ p.expired = q.expired /\ p.starts = q.starts
  BY <1>1, <1>2 DEF CallType, CallLabels, Over, Early
<1> HIDE DEF p
<1>5. TasksCounted(p, ts)
  BY <1>1, <1>2, <1>4 DEF TasksCounted, Early, Over, CallLabels
<1>6. RowsOK(p, ts)
  BY <1>1, <1>2, <1>4 DEF RowsOK, Early, Over, CallLabels
<1>7. CallerOK(p, ts)
  BY <1>1, <1>2, <1>4 DEF CallerOK, Over
<1>8. Slots(p, ts) = Slots(q, ts)
  BY <1>2, <1>4 DEF Slots
<1> QED
  BY <1>2, <1>4, <1>5, <1>6, <1>7, <1>8, CallerStep DEF q, ts

LEMMA ReserveLoadInv ==
  ASSUME Inv, NEW c \in Calls, ReserveLoad(c)
  PROVE  Inv'
<1> DEFINE q == call[c]
           ts == task[c]
           p == [q EXCEPT !.at = "cas", !.seen = running]
<1>1. /\ q \in CallType /\ ts \in [Tasks -> TaskType]
      /\ TasksCounted(q, ts) /\ RowsOK(q, ts) /\ CallerOK(q, ts)
  BY CallFacts
<1>2. q.at = "load" /\ Caller(c, p) /\ UNCHANGED running
  BY DEF ReserveLoad
<1> HIDE DEF q, ts
<1>3. running \in Nat
  BY CallFacts
<1>4. /\ p \in CallType /\ p.at = "cas" /\ p.skip = q.skip /\ p.reserved = q.reserved
      /\ p.started = q.started /\ p.settled = q.settled /\ p.cursor = q.cursor /\ p.row = q.row
      /\ p.cancelled = q.cancelled /\ p.done = q.done /\ p.expired = q.expired /\ p.starts = q.starts
  BY <1>1, <1>2, <1>3 DEF CallType, CallLabels, Over, Early
<1> HIDE DEF p
<1>5. TasksCounted(p, ts)
  BY <1>1, <1>2, <1>4 DEF TasksCounted, Early, Over, CallLabels
<1>6. RowsOK(p, ts)
  BY <1>1, <1>2, <1>4 DEF RowsOK, Early, Over, CallLabels
<1>7. CallerOK(p, ts)
  BY <1>1, <1>2, <1>4 DEF CallerOK, Over
<1>8. Slots(p, ts) = Slots(q, ts)
  BY <1>2, <1>4 DEF Slots
<1> QED
  BY <1>2, <1>4, <1>5, <1>6, <1>7, <1>8, CallerStep DEF q, ts

\* The cap leaves nothing: the call runs inline.
LEMMA ReserveNone ==
  ASSUME Inv, NEW c \in Calls, call[c].at = "cas",
         Caller(c, [call[c] EXCEPT !.at = "inline", !.seen = 0]), UNCHANGED running
  PROVE  Inv'
<1> DEFINE q == call[c]
           ts == task[c]
           p == [q EXCEPT !.at = "inline", !.seen = 0]
<1>1. /\ q \in CallType /\ ts \in [Tasks -> TaskType]
      /\ TasksCounted(q, ts) /\ RowsOK(q, ts) /\ CallerOK(q, ts)
  BY CallFacts
<1>2. q.at = "cas" /\ Caller(c, p)
  OBVIOUS
<1>3. LiveTasks(ts) = {}
  BY <1>1, <1>2, NoneLive DEF TasksCounted, Early
<1> HIDE DEF q, ts
<1>4. /\ p \in CallType /\ p.at = "inline" /\ p.skip = q.skip /\ p.reserved = q.reserved
      /\ p.started = q.started /\ p.settled = q.settled /\ p.cursor = q.cursor /\ p.row = q.row
      /\ p.cancelled = q.cancelled /\ p.done = q.done /\ p.expired = q.expired /\ p.starts = q.starts
  BY <1>1 DEF CallType, CallLabels, Over, Early
<1> HIDE DEF p
<1>5. TasksCounted(p, ts) /\ RowsOK(p, ts) /\ CallerOK(p, ts)
  BY <1>1, <1>2, <1>3, <1>4 DEF TasksCounted, RowsOK, CallerOK, Early, Over
<1>6. Slots(p, ts) = Slots(q, ts)
  BY <1>2, <1>4 DEF Slots
<1> QED
  BY <1>2, <1>4, <1>5, <1>6, CallerStep DEF q, ts

\* The counter moved: it is compared again with what it is now.
LEMMA ReserveAgain ==
  ASSUME Inv, NEW c \in Calls, call[c].at = "cas", Caller(c, [call[c] EXCEPT !.seen = running]), UNCHANGED running
  PROVE  Inv'
<1> DEFINE q == call[c]
           ts == task[c]
           p == [q EXCEPT !.seen = running]
<1>1. /\ q \in CallType /\ ts \in [Tasks -> TaskType]
      /\ TasksCounted(q, ts) /\ RowsOK(q, ts) /\ CallerOK(q, ts)
      /\ running \in Nat
  BY CallFacts
<1>2. Caller(c, p)
  OBVIOUS
<1> HIDE DEF q, ts
<1>3. /\ p \in CallType /\ p.at = q.at /\ p.skip = q.skip /\ p.reserved = q.reserved
      /\ p.started = q.started /\ p.settled = q.settled /\ p.cursor = q.cursor /\ p.row = q.row
      /\ p.cancelled = q.cancelled /\ p.done = q.done /\ p.expired = q.expired /\ p.starts = q.starts
  BY <1>1 DEF CallType
<1> HIDE DEF p
<1>4. TasksCounted(p, ts) /\ RowsOK(p, ts) /\ CallerOK(p, ts)
  BY <1>1, <1>3 DEF TasksCounted, RowsOK, CallerOK
<1>5. Slots(p, ts) = Slots(q, ts)
  BY <1>3 DEF Slots
<1> QED
  BY <1>2, <1>3, <1>4, <1>5, CallerStep DEF q, ts

\* What a call reserves fits under the cap and the fanout.
LEMMA TakeFits ==
  ASSUME Inv, NEW c \in Calls
  PROVE  LET take == Min({Cap - call[c].seen, Wanted(c)})
         IN take \in Int /\ take <= MaxFanout /\ take <= Cap - call[c].seen
<1> DEFINE n == N - Cardinality(call[c].skip)
           m == Wanted(c)
           left == Cap - call[c].seen
<1>1. call[c].skip \in SUBSET Rows /\ call[c].seen \in Nat /\ Cap \in Nat /\ N \in Nat /\ MaxFanout \in Int
  BY CallFacts, DispatchAssumption DEF CallType
<1>2. IsFiniteSet(Rows)
  BY <1>1, FS_Interval DEF Rows
<1>3. Cardinality(call[c].skip) \in Nat
  BY <1>1, <1>2, FS_Subset, FS_CardinalityType
<1>4. n \in Int /\ left \in Int
  BY <1>1, <1>3
<1> HIDE DEF n
<1>5. m = Min({n, MaxFanout})
  BY DEF Wanted, n
<1>6. m \in Int /\ m <= MaxFanout
  BY <1>1, <1>4, <1>5, LeastOfTwo, ZenonT(40)
<1> HIDE DEF m, left
<1>7. Min({left, m}) \in Int /\ Min({left, m}) <= left /\ Min({left, m}) <= m
  BY <1>4, <1>6, LeastOfTwo
<1>8. Min({left, m}) <= MaxFanout
  BY <1>1, <1>6, <1>7
<1> QED
  BY <1>7, <1>8 DEF left, m

\* compare_exchange: the tasks 1..take of the call are admitted.
LEMMA ReserveTaken ==
  ASSUME Inv, NEW c \in Calls, call[c].at = "cas", NEW take \in Int, take > 0, take <= MaxFanout,
         take <= Cap - running, running' = running + take,
         Caller(c, [call[c] EXCEPT !.at = "create", !.seen = 0, !.reserved = take])
  PROVE  Inv'
<1> DEFINE q == call[c]
           ts == task[c]
           p == [q EXCEPT !.at = "create", !.seen = 0, !.reserved = take]
<1>1. /\ q \in CallType /\ ts \in [Tasks -> TaskType]
      /\ TasksCounted(q, ts) /\ RowsOK(q, ts) /\ CallerOK(q, ts)
      /\ running \in Nat /\ Cap \in Nat
  BY CallFacts
<1>2. q.at = "cas" /\ task' = [task EXCEPT ![c] = ts] /\ call' = [call EXCEPT ![c] = p]
  BY DEF Caller, Inv
<1>3. LiveTasks(ts) = {}
  BY <1>1, <1>2, NoneLive DEF TasksCounted, Early
<1> HIDE DEF q, ts
<1>4. /\ p \in CallType /\ p.at = "create" /\ p.skip = q.skip /\ p.reserved = take /\ p.started = q.started
      /\ p.settled = q.settled /\ p.cursor = q.cursor /\ p.row = q.row /\ p.cancelled = q.cancelled
      /\ p.done = q.done /\ p.expired = q.expired /\ p.starts = q.starts
  <2>1. take \in Nat /\ 0 \in Nat /\ "create" \in CallLabels
    BY DEF CallLabels, Early
  <2> QED
    BY <1>1, <2>1 DEF CallType
<1> HIDE DEF p
<1>5. TasksCounted(p, ts) /\ RowsOK(p, ts) /\ CallerOK(p, ts)
  BY <1>1, <1>2, <1>4, TasksFinite DEF TasksCounted, RowsOK, CallerOK, Early, Over
<1>6. Cardinality(Slots(p, ts)) = take
  <2>1. Slots(p, ts) = {k \in Tasks : 0 < k /\ k <= take}
    BY <1>1, <1>2, <1>3, <1>4 DEF Slots, LiveTasks, TasksCounted, Early
  <2>2. Cardinality({k \in Tasks : 0 < k /\ k <= take}) = take - 0
    BY CountOfRange
  <2> QED
    BY <2>1, <2>2
<1>7. Cardinality(Slots(q, ts)) = 0
  <2>1. Slots(q, ts) = {}
    BY <1>2, <1>3 DEF Slots, LiveTasks
  <2> QED
    BY <2>1, FS_EmptySet
<1>8. running' = running + Cardinality(Slots(p, ts)) - Cardinality(Slots(q, ts)) /\ running' <= Cap
  BY <1>1, <1>6, <1>7
<1> QED
  BY <1>1, <1>2, <1>4, <1>5, <1>8, CallStep DEF q, ts, CallOK

LEMMA ReserveCasInv ==
  ASSUME Inv, NEW c \in Calls, ReserveCas(c)
  PROVE  Inv'
<1> DEFINE take == Min({Cap - call[c].seen, Wanted(c)})
<1>1. take \in Int /\ take <= MaxFanout /\ take <= Cap - call[c].seen
  BY TakeFits
<1>2. /\ call[c].at = "cas"
      /\ IF take <= 0 THEN Caller(c, [call[c] EXCEPT !.at = "inline", !.seen = 0]) /\ UNCHANGED running
         ELSE IF running = call[c].seen
         THEN /\ running' = running + take
              /\ Caller(c, [call[c] EXCEPT !.at = "create", !.seen = 0, !.reserved = take])
         ELSE Caller(c, [call[c] EXCEPT !.seen = running]) /\ UNCHANGED running
  BY DEF ReserveCas
<1> HIDE DEF take
<1>3. CASE take <= 0
  BY <1>2, <1>3, ReserveNone
<1>4. CASE ~(take <= 0) /\ running = call[c].seen
  <2>1. take > 0 /\ take <= Cap - running
    BY <1>1, <1>4
  <2> QED
    BY <1>1, <1>2, <1>4, <2>1, ReserveTaken
<1>5. CASE ~(take <= 0) /\ running # call[c].seen
  BY <1>2, <1>5, ReserveAgain
<1> QED
  BY <1>3, <1>4, <1>5

LEMMA CreateFailsInv ==
  ASSUME Inv, NEW c \in Calls, CreateFails(c)
  PROVE  Inv'
<1> DEFINE q == call[c]
           ts == task[c]
           p == [q EXCEPT !.at = "threw", !.reserved = 0]
<1>1. /\ q \in CallType /\ ts \in [Tasks -> TaskType]
      /\ TasksCounted(q, ts) /\ RowsOK(q, ts) /\ CallerOK(q, ts)
      /\ running \in Nat /\ Cap \in Nat /\ running <= Cap
  BY CallFacts
<1>2. /\ q.at = "create" /\ task' = [task EXCEPT ![c] = ts] /\ call' = [call EXCEPT ![c] = p]
      /\ running' = running - q.reserved
  BY DEF CreateFails, Caller, Inv
<1>3. LiveTasks(ts) = {} /\ q.reserved \in Nat /\ q.started = 0 /\ q.reserved <= MaxFanout
  BY <1>1, <1>2, NoneLive DEF TasksCounted, Early, CallType
<1> HIDE DEF q, ts
<1>4. /\ p \in CallType /\ p.at = "threw" /\ p.skip = q.skip /\ p.reserved = 0 /\ p.started = q.started
      /\ p.settled = q.settled /\ p.cursor = q.cursor /\ p.row = q.row /\ p.cancelled = q.cancelled
      /\ p.done = q.done /\ p.expired = q.expired /\ p.starts = q.starts
  BY <1>1 DEF CallType, CallLabels, Over
<1> HIDE DEF p
<1>5. TasksCounted(p, ts) /\ RowsOK(p, ts) /\ CallerOK(p, ts)
  BY <1>1, <1>2, <1>3, <1>4 DEF TasksCounted, RowsOK, CallerOK, Early, Over
<1>6. Cardinality(Slots(q, ts)) = q.reserved
  <2> DEFINE n == q.reserved
  <2>1. Slots(q, ts) = {k \in Tasks : 0 < k /\ k <= n}
    BY <1>2, <1>3 DEF Slots, LiveTasks
  <2>2. n \in Nat /\ n <= MaxFanout
    BY <1>3
  <2> HIDE DEF n
  <2>3. Cardinality({k \in Tasks : 0 < k /\ k <= n}) = n - 0
    BY <2>2, CountOfRange
  <2>4. Cardinality(Slots(q, ts)) = n
    BY <2>1, <2>2, <2>3
  <2> QED
    BY <2>4 DEF n
<1>7. Cardinality(Slots(p, ts)) = 0
  <2>1. Slots(p, ts) = {}
    BY <1>3, <1>4 DEF Slots, LiveTasks
  <2> QED
    BY <2>1, FS_EmptySet
<1>8. running' = running + Cardinality(Slots(p, ts)) - Cardinality(Slots(q, ts)) /\ running' <= Cap
  BY <1>1, <1>2, <1>3, <1>6, <1>7
<1> QED
  BY <1>1, <1>2, <1>4, <1>5, <1>8, CallStep DEF q, ts, CallOK

\* One task changes.
LEMMA SettledCount ==
  ASSUME NEW ts \in [Tasks -> TaskType], NEW us \in [Tasks -> TaskType], NEW k \in Tasks,
         \A j \in Tasks \ {k} : us[j] = ts[j], ts[k].at # "settled"
  PROVE  /\ us[k].at # "settled" => Cardinality(SettledTasks(us)) = Cardinality(SettledTasks(ts))
         /\ us[k].at = "settled" => Cardinality(SettledTasks(us)) = Cardinality(SettledTasks(ts)) + 1
<1> DEFINE S == SettledTasks(ts)
<1>1. SettledTasks(us) = IF us[k].at = "settled" THEN S \cup {k} ELSE S
  BY DEF SettledTasks
<1>2. k \notin S /\ IsFiniteSet(S) /\ Cardinality(S) \in Nat
  BY CountOfTasks DEF SettledTasks
<1> HIDE DEF S
<1>3. Cardinality(S \cup {k}) = Cardinality(S) + 1
  BY <1>2, FS_AddElement
<1> QED
  BY <1>1, <1>3 DEF S

LEMMA FreshTasks ==
  /\ NoTask \in TaskType /\ Queued \in TaskType /\ Settled \in TaskType
  /\ NoTask.at = "none" /\ Queued.at = "queued" /\ Settled.at = "settled"
  /\ NoTask.row = 0 /\ Queued.row = 0 /\ Settled.row = 0
  /\ ~NoTask.result /\ ~Queued.result /\ ~Settled.result
  /\ NoTask.stmt = 0 /\ Queued.stmt = 0 /\ Settled.stmt = 0
BY DEF NoTask, Queued, Settled, TaskType, TaskLabels, Steps

LEMMA ScheduleInv ==
  ASSUME Inv, NEW c \in Calls, Schedule(c)
  PROVE  Inv'
<1> DEFINE q == call[c]
           ts == task[c]
           k == q.started + 1
           at == IF k = q.reserved THEN "wait" ELSE "schedule"
           p == [q EXCEPT !.started = k, !.at = at]
           us == [ts EXCEPT ![k] = Queued]
<1>1. /\ q \in CallType /\ ts \in [Tasks -> TaskType]
      /\ TasksCounted(q, ts) /\ RowsOK(q, ts) /\ CallerOK(q, ts)
      /\ q.started \in Nat /\ q.reserved \in Nat /\ MaxFanout \in Nat
  BY CallFacts, TasksFinite DEF CallType
<1>2. /\ q.at = "schedule" /\ UNCHANGED running
      /\ call' = [call EXCEPT ![c] = p] /\ task' = [task EXCEPT ![c] = us]
  BY DEF Schedule, Inv
<1>3. q.started < q.reserved /\ q.reserved <= MaxFanout
  BY <1>1, <1>2 DEF TasksCounted
<1>4. k \in Tasks /\ k \in Nat /\ k <= q.reserved
  BY <1>1, <1>3 DEF Tasks
<1>5. ts[k].at = "none" /\ ts[k].row = 0
  BY <1>1, <1>4 DEF TasksCounted, RowsOK, TaskOK
<1>6. at \in {"wait", "schedule"} /\ at \in CallLabels /\ (at = "wait" <=> k = q.reserved)
  BY DEF CallLabels
<1>7. k > q.started /\ \A j \in Tasks \ {k} : q.started < j <=> k < j
  BY <1>1, <1>4 DEF Tasks
<1> HIDE DEF q, ts, k, at
<1>8. /\ p \in CallType /\ p.at = at /\ p.skip = q.skip /\ p.reserved = q.reserved /\ p.started = k
      /\ p.settled = q.settled /\ p.cursor = q.cursor /\ p.row = q.row /\ p.cancelled = q.cancelled
      /\ p.done = q.done /\ p.expired = q.expired /\ p.starts = q.starts
  BY <1>1, <1>4, <1>6 DEF CallType
<1>9. /\ us \in [Tasks -> TaskType] /\ us[k] = Queued /\ \A j \in Tasks \ {k} : us[j] = ts[j]
      /\ Cardinality(SettledTasks(us)) = Cardinality(SettledTasks(ts))
  <2>1. Queued \in TaskType /\ ts[k].at # "settled"
    BY <1>5, FreshTasks
  <2>2. us \in [Tasks -> TaskType] /\ us[k] = Queued /\ \A j \in Tasks \ {k} : us[j] = ts[j]
    BY <1>1, <1>4, <2>1
  <2> HIDE DEF us
  <2>3. Cardinality(SettledTasks(us)) = Cardinality(SettledTasks(ts))
    BY <1>1, <1>4, <2>1, <2>2, SettledCount, FreshTasks
  <2> QED
    BY <2>2, <2>3
<1> HIDE DEF p, us
<1>10. TasksCounted(p, us)
  <2>1. \A j \in Tasks : us[j].at = "none" <=> k < j
    BY <1>1, <1>4, <1>7, <1>9, FreshTasks DEF TasksCounted
  <2>2. k <= MaxFanout /\ (at = "schedule" => k < q.reserved)
    BY <1>1, <1>3, <1>4, <1>6
  <2> QED
    BY <1>1, <1>3, <1>6, <1>8, <1>9, <2>1, <2>2 DEF TasksCounted, Early
<1>11. RowsOK(p, us)
  <2>1. \A j \in Tasks : us[j].row = ts[j].row /\ TaskOK(us[j], p.starts, p.cursor)
    BY <1>1, <1>5, <1>8, <1>9, FreshTasks DEF RowsOK, TaskOK
  <2>2. \A r \in Rows : r > p.cursor => p.starts[r] = 0
    BY <1>1, <1>2, <1>8 DEF RowsOK
  <2>3. ASSUME NEW r \in Rows, p.starts[r] # 0
        PROVE  \/ r \in p.done \/ r = p.row
               \/ \E j \in Tasks : us[j].row = r /\ (us[j].stmt # 0 \/ us[j].result)
    <3>1. \/ r \in q.done \/ r = q.row
          \/ \E j \in Tasks : ts[j].row = r /\ (ts[j].stmt # 0 \/ ts[j].result)
      BY <1>1, <1>2, <1>8, <2>3 DEF RowsOK, Over
    <3>2. r # 0
      BY DEF Rows
    <3> QED
      BY <1>5, <1>8, <1>9, <3>1, <3>2
  <2> QED
    BY <1>1, <2>1, <2>2, <2>3 DEF RowsOK
<1>12. CallerOK(p, us)
  BY <1>1, <1>2, <1>6, <1>8 DEF CallerOK, Over
<1>13. Slots(p, us) = Slots(q, ts)
  <2>1. ASSUME NEW j \in Tasks PROVE j \in Slots(p, us) <=> j \in Slots(q, ts)
    <3>1. CASE j = k
      BY <1>2, <1>4, <1>7, <1>9, <3>1, FreshTasks DEF Slots
    <3>2. CASE j # k
      <4>1. us[j] = ts[j] /\ (q.started < j <=> k < j) /\ j \in Nat
        BY <1>7, <1>9, <3>2 DEF Tasks
      <4>2. at = "wait" => ~(k < j /\ j <= q.reserved)
        BY <1>1, <1>4, <1>6, <4>1
      <4> QED
        BY <1>2, <1>6, <1>8, <4>1, <4>2 DEF Slots
    <3> QED
      BY <3>1, <3>2
  <2> QED
    BY <2>1 DEF Slots
<1> QED
  BY <1>2, <1>8, <1>9, <1>10, <1>11, <1>12, <1>13, QuietStep DEF q, ts, CallOK

\* The slots of a call that is scheduling its tasks.
LEMMA SlotsWhileScheduling ==
  ASSUME NEW q \in CallType, NEW ts \in [Tasks -> TaskType], TasksCounted(q, ts), q.at = "schedule"
  PROVE  /\ Cardinality(Slots(q, ts)) = Cardinality(LiveTasks(ts)) + (q.reserved - q.started)
         /\ Cardinality(LiveTasks(ts)) \in Nat
<1> DEFINE lo == q.started
           hi == q.reserved
           L == LiveTasks(ts)
           R == {k \in Tasks : lo < k /\ k <= hi}
<1>1. lo \in Nat /\ hi \in Nat /\ lo <= hi /\ hi <= MaxFanout
  BY DEF TasksCounted, CallType
<1>2. Slots(q, ts) = L \cup R
  BY DEF Slots, LiveTasks
<1>3. L \cap R = {}
  BY DEF LiveTasks, TasksCounted
<1>4. IsFiniteSet(L) /\ Cardinality(L) \in Nat
  BY CountOfTasks DEF LiveTasks
<1> HIDE DEF lo, hi, L
<1>5. Cardinality(R) = hi - lo
  BY <1>1, CountOfRange
<1>6. IsFiniteSet(R)
  <2>1. R \in SUBSET Tasks
    OBVIOUS
  <2> QED
    BY <2>1, CountOfTasks
<1> HIDE DEF R
<1>7. Cardinality(L \cup R) = Cardinality(L) + Cardinality(R) - Cardinality(L \cap R)
  BY <1>4, <1>6, FS_Union
<1>8. Cardinality(L \cap R) = 0
  BY <1>3, FS_EmptySet
<1> QED
  BY <1>1, <1>2, <1>4, <1>5, <1>7, <1>8 DEF lo, hi, L

\* The task could not be made.
LEMMA ScheduleNotMade ==
  ASSUME Inv, NEW c \in Calls, ScheduleFails(c, FALSE)
  PROVE  Inv'
<1> DEFINE q == call[c]
           ts == task[c]
           k == q.started
           at == IF k = 0 THEN "inline" ELSE "wait"
           p == [q EXCEPT !.started = k, !.reserved = k, !.settled = q.settled, !.at = at]
<1>1. /\ q \in CallType /\ ts \in [Tasks -> TaskType]
      /\ TasksCounted(q, ts) /\ RowsOK(q, ts) /\ CallerOK(q, ts)
      /\ q.started \in Nat /\ q.reserved \in Nat /\ q.settled \in Nat /\ MaxFanout \in Nat
      /\ running \in Nat /\ running <= Cap /\ Cap \in Nat
  BY CallFacts, TasksFinite DEF CallType
<1>2. /\ q.at = "schedule" /\ running' = running - (q.reserved - q.started)
      /\ call' = [call EXCEPT ![c] = p] /\ task' = [task EXCEPT ![c] = ts]
  <2> DEFINE add == IF FALSE THEN 1 ELSE 0
  <2>1. /\ q.at = "schedule" /\ running' = running - (q.reserved - q.started) /\ task' = task
        /\ call' = [call EXCEPT ![c] = [call[c] EXCEPT !.started = call[c].started + add,
             !.reserved = call[c].started + add, !.settled = call[c].settled + add,
             !.at = IF call[c].started + add = 0 THEN "inline" ELSE "wait"]]
    BY DEF ScheduleFails
  <2>2. q.started + add = k /\ q.settled + add = q.settled
    BY <1>1
  <2>3. task' = [task EXCEPT ![c] = ts]
    BY <2>1 DEF Inv
  <2> HIDE DEF add
  <2>4. call' = [call EXCEPT ![c] = p]
    BY <2>1, <2>2
  <2> QED
    BY <2>1, <2>3, <2>4
<1>3. q.started < q.reserved /\ (k = 0 => LiveTasks(ts) = {})
  BY <1>1, <1>2, NoneLive DEF TasksCounted
<1>4. at \in {"wait", "inline"} /\ at \in CallLabels /\ (at = "inline" <=> k = 0)
  BY DEF CallLabels
<1> HIDE DEF q, ts, at
<1>5. /\ p \in CallType /\ p.at = at /\ p.skip = q.skip /\ p.reserved = q.started /\ p.started = q.started
      /\ p.settled = q.settled /\ p.cursor = q.cursor /\ p.row = q.row /\ p.cancelled = q.cancelled
      /\ p.done = q.done /\ p.expired = q.expired /\ p.starts = q.starts
  BY <1>1, <1>4 DEF CallType
<1> HIDE DEF p
<1>6. TasksCounted(p, ts) /\ RowsOK(p, ts) /\ CallerOK(p, ts)
  BY <1>1, <1>2, <1>3, <1>4, <1>5 DEF TasksCounted, RowsOK, CallerOK, Early, Over
<1>7. Slots(p, ts) = LiveTasks(ts)
  BY <1>4, <1>5 DEF Slots, LiveTasks
<1>8. /\ Cardinality(Slots(q, ts)) = Cardinality(LiveTasks(ts)) + (q.reserved - q.started)
      /\ Cardinality(LiveTasks(ts)) \in Nat
  BY <1>1, <1>2, SlotsWhileScheduling
<1>9. running' = running + Cardinality(Slots(p, ts)) - Cardinality(Slots(q, ts)) /\ running' <= Cap
  BY <1>1, <1>2, <1>3, <1>7, <1>8
<1> QED
  BY <1>1, <1>2, <1>5, <1>6, <1>9, CallStep DEF q, ts, CallOK

\* The task was made and refused: its destructor settles it.
LEMMA ScheduleRefused ==
  ASSUME Inv, NEW c \in Calls, ScheduleFails(c, TRUE)
  PROVE  Inv'
<1> DEFINE q == call[c]
           ts == task[c]
           k == q.started + 1
           settled == q.settled + 1
           p == [q EXCEPT !.started = k, !.reserved = k, !.settled = settled, !.at = "wait"]
           us == [ts EXCEPT ![k] = Settled]
<1>1. /\ q \in CallType /\ ts \in [Tasks -> TaskType]
      /\ TasksCounted(q, ts) /\ RowsOK(q, ts) /\ CallerOK(q, ts)
      /\ q.started \in Nat /\ q.reserved \in Nat /\ q.settled \in Nat /\ MaxFanout \in Nat
      /\ running \in Nat /\ running <= Cap /\ Cap \in Nat
  BY CallFacts, TasksFinite DEF CallType
<1>2. /\ q.at = "schedule" /\ running' = running - (q.reserved - q.started)
      /\ call' = [call EXCEPT ![c] = p] /\ task' = [task EXCEPT ![c] = us]
  <2> DEFINE add == IF TRUE THEN 1 ELSE 0
  <2>1. /\ q.at = "schedule" /\ running' = running - (q.reserved - q.started)
        /\ task' = [task EXCEPT ![c][call[c].started + add] = Settled]
        /\ call' = [call EXCEPT ![c] = [call[c] EXCEPT !.started = call[c].started + add,
             !.reserved = call[c].started + add, !.settled = call[c].settled + add,
             !.at = IF call[c].started + add = 0 THEN "inline" ELSE "wait"]]
    BY DEF ScheduleFails
  <2>2. q.started + add = k /\ q.settled + add = settled /\ k # 0
    BY <1>1
  <2> HIDE DEF add
  <2>3. call' = [call EXCEPT ![c] = p]
    BY <2>1, <2>2
  <2>4. task' = [task EXCEPT ![c] = us]
    BY <2>1, <2>2 DEF Inv
  <2> QED
    BY <2>1, <2>3, <2>4
<1>3. q.started < q.reserved /\ q.reserved <= MaxFanout
  BY <1>1, <1>2 DEF TasksCounted
<1>4. k \in Tasks /\ k \in Nat /\ k <= MaxFanout /\ settled \in Nat
  BY <1>1, <1>3 DEF Tasks
<1>5. ts[k].at = "none" /\ ts[k].row = 0
  BY <1>1, <1>4 DEF TasksCounted, RowsOK, TaskOK
<1>6. k > q.started /\ \A j \in Tasks \ {k} : q.started < j <=> k < j
  BY <1>1, <1>4 DEF Tasks
<1>7. settled = q.settled + 1
  OBVIOUS
<1> HIDE DEF q, ts, k, settled
<1>8. /\ p \in CallType /\ p.at = "wait" /\ p.skip = q.skip /\ p.reserved = k /\ p.started = k
      /\ p.settled = settled /\ p.cursor = q.cursor /\ p.row = q.row /\ p.cancelled = q.cancelled
      /\ p.done = q.done /\ p.expired = q.expired /\ p.starts = q.starts
  BY <1>1, <1>4 DEF CallType, CallLabels
<1>9. /\ us \in [Tasks -> TaskType] /\ us[k] = Settled /\ \A j \in Tasks \ {k} : us[j] = ts[j]
      /\ Cardinality(SettledTasks(us)) = Cardinality(SettledTasks(ts)) + 1
  <2>1. Settled \in TaskType /\ ts[k].at # "settled"
    BY <1>5, FreshTasks
  <2>2. us \in [Tasks -> TaskType] /\ us[k] = Settled /\ \A j \in Tasks \ {k} : us[j] = ts[j]
    BY <1>1, <1>4, <2>1
  <2> HIDE DEF us
  <2>3. Cardinality(SettledTasks(us)) = Cardinality(SettledTasks(ts)) + 1
    BY <1>1, <1>4, <2>1, <2>2, SettledCount, FreshTasks
  <2> QED
    BY <2>2, <2>3
<1> HIDE DEF p, us
<1>10. TasksCounted(p, us)
  <2>1. \A j \in Tasks : us[j].at = "none" <=> k < j
    BY <1>1, <1>4, <1>6, <1>9, FreshTasks DEF TasksCounted
  <2> QED
    BY <1>1, <1>4, <1>7, <1>8, <1>9, <2>1 DEF TasksCounted, Early
<1>11. RowsOK(p, us)
  <2>1. \A j \in Tasks : us[j].row = ts[j].row /\ TaskOK(us[j], p.starts, p.cursor)
    BY <1>1, <1>5, <1>8, <1>9, FreshTasks DEF RowsOK, TaskOK
  <2>2. \A r \in Rows : r > p.cursor => p.starts[r] = 0
    BY <1>1, <1>2, <1>8 DEF RowsOK
  <2>3. ASSUME NEW r \in Rows, p.starts[r] # 0
        PROVE  \/ r \in p.done \/ r = p.row
               \/ \E j \in Tasks : us[j].row = r /\ (us[j].stmt # 0 \/ us[j].result)
    <3>1. \/ r \in q.done \/ r = q.row
          \/ \E j \in Tasks : ts[j].row = r /\ (ts[j].stmt # 0 \/ ts[j].result)
      BY <1>1, <1>2, <1>8, <2>3 DEF RowsOK, Over
    <3>2. r # 0
      BY DEF Rows
    <3> QED
      BY <1>5, <1>8, <1>9, <3>1, <3>2
  <2> QED
    BY <1>1, <2>1, <2>2, <2>3 DEF RowsOK
<1>12. CallerOK(p, us)
  BY <1>1, <1>2, <1>8 DEF CallerOK, Over
<1>13. Slots(p, us) = LiveTasks(ts)
  BY <1>5, <1>8, <1>9, FreshTasks DEF Slots, LiveTasks
<1>14. /\ Cardinality(Slots(q, ts)) = Cardinality(LiveTasks(ts)) + (q.reserved - q.started)
       /\ Cardinality(LiveTasks(ts)) \in Nat
  BY <1>1, <1>2, SlotsWhileScheduling
<1>15. running' = running + Cardinality(Slots(p, us)) - Cardinality(Slots(q, ts)) /\ running' <= Cap
  BY <1>1, <1>2, <1>3, <1>13, <1>14
<1> QED
  BY <1>2, <1>8, <1>9, <1>10, <1>11, <1>12, <1>15, CallStep DEF q, ts, CallOK

LEMMA ScheduleFailsInv ==
  ASSUME Inv, NEW c \in Calls, NEW made \in BOOLEAN, ScheduleFails(c, made)
  PROVE  Inv'
<1>1. CASE made = TRUE
  BY <1>1, ScheduleRefused
<1>2. CASE made = FALSE
  BY <1>2, ScheduleNotMade
<1> QED
  BY <1>1, <1>2

\* The caller begins a row: nobody has begun it before.
LEMMA RunExecRowInv ==
  ASSUME Inv, NEW c \in Calls, RunExecRow(c)
  PROVE  Inv'
<1> DEFINE q == call[c]
           ts == task[c]
           r == Min(Todo(c))
           starts == [q.starts EXCEPT ![r] = q.starts[r] + 1]
           p == [q EXCEPT !.row = r, !.starts = starts]
<1>1. /\ q \in CallType /\ ts \in [Tasks -> TaskType]
      /\ TasksCounted(q, ts) /\ RowsOK(q, ts) /\ CallerOK(q, ts)
      /\ q.starts \in [Rows -> 0..1]
  BY CallFacts DEF CallType
<1>2. q.at \in {"inline", "rest"} /\ q.row = 0 /\ Todo(c) # {} /\ Caller(c, p) /\ UNCHANGED running
  BY DEF RunExecRow
<1>3. r \in Rows /\ r \notin q.done /\ r # 0
  <2> DEFINE S == Todo(c)
  <2>1. S \subseteq Rows /\ Rows \subseteq Nat /\ 0 \notin Rows /\ S \cap q.done = {} /\ S # {}
    BY <1>2, DispatchAssumption DEF Todo, Rows
  <2>2. S \subseteq Nat
    BY <2>1
  <2> HIDE DEF S
  <2>3. Min(S) \in S
    BY <2>1, <2>2, LeastOfSet
  <2> QED
    BY <2>1, <2>3 DEF S
<1>4. LiveTasks(ts) = {}
  BY <1>1, <1>2 DEF CallerOK
<1>5. \A k \in Tasks : ts[k].row = 0
  BY <1>1, <1>4 DEF LiveTasks, RowsOK, TaskOK
<1>6. q.starts[r] = 0
  BY <1>1, <1>2, <1>3, <1>5 DEF RowsOK, Over
<1> HIDE DEF q, ts, r
<1>7. starts \in [Rows -> 0..1] /\ \A x \in Rows : x # r => starts[x] = q.starts[x]
  BY <1>1, <1>3, <1>6
<1> HIDE DEF starts
<1>8. /\ p \in CallType /\ p.at = q.at /\ p.skip = q.skip /\ p.reserved = q.reserved
      /\ p.started = q.started /\ p.settled = q.settled /\ p.cursor = q.cursor /\ p.row = r
      /\ p.cancelled = q.cancelled /\ p.done = q.done /\ p.expired = q.expired /\ p.starts = starts
  BY <1>1, <1>3, <1>7 DEF CallType
<1> HIDE DEF p
<1>9. TasksCounted(p, ts)
  BY <1>1, <1>8 DEF TasksCounted
<1>10. RowsOK(p, ts)
  <2>1. \A k \in Tasks : TaskOK(ts[k], p.starts, p.cursor)
    BY <1>1, <1>5, <1>8 DEF RowsOK, TaskOK
  <2>2. \A x \in Rows : p.starts[x] # 0 => x \in p.done \/ x = p.row
    <3>1. \A x \in Rows : x # r /\ q.starts[x] # 0 => x \in q.done
      <4>1. \A x \in Rows : x # 0
        BY DEF Rows
      <4> QED
        BY <1>1, <1>2, <1>5, <4>1 DEF RowsOK, Over
    <3> QED
      BY <1>7, <1>8, <3>1
  <2> QED
    BY <1>1, <1>2, <1>4, <1>8, <2>1, <2>2 DEF RowsOK, Early
<1>11. CallerOK(p, ts)
  BY <1>1, <1>2, <1>8 DEF CallerOK
<1>12. Slots(p, ts) = Slots(q, ts)
  BY <1>8 DEF Slots
<1> QED
  BY <1>2, <1>8, <1>9, <1>10, <1>11, <1>12, CallerStep DEF q, ts

LEMMA RowEndsInv ==
  ASSUME Inv, NEW c \in Calls, RowEnds(c)
  PROVE  Inv'
<1> DEFINE q == call[c]
           ts == task[c]
           done == q.done \cup {q.row}
           p == [q EXCEPT !.row = 0, !.done = done]
<1>1. /\ q \in CallType /\ ts \in [Tasks -> TaskType]
      /\ TasksCounted(q, ts) /\ RowsOK(q, ts) /\ CallerOK(q, ts)
      /\ q.row \in Rows \cup {0} /\ q.done \in SUBSET Rows
  BY CallFacts DEF CallType
<1>2. q.row # 0 /\ Caller(c, p) /\ UNCHANGED running
  BY DEF RowEnds
<1>3. done \in SUBSET Rows
  BY <1>1, <1>2
<1> HIDE DEF q, ts, done
<1>4. /\ p \in CallType /\ p.at = q.at /\ p.skip = q.skip /\ p.reserved = q.reserved
      /\ p.started = q.started /\ p.settled = q.settled /\ p.cursor = q.cursor /\ p.row = 0
      /\ p.cancelled = q.cancelled /\ p.done = done /\ p.expired = q.expired
      /\ p.starts = q.starts
  BY <1>1, <1>3 DEF CallType
<1> HIDE DEF p
<1>5. q.at \in {"inline", "rest"}
  BY <1>1, <1>2 DEF CallerOK
<1>6. TasksCounted(p, ts) /\ CallerOK(p, ts)
  BY <1>1, <1>4, <1>5 DEF TasksCounted, CallerOK, done
<1>7. RowsOK(p, ts)
  BY <1>1, <1>4, <1>5 DEF RowsOK, Over, done
<1>8. Slots(p, ts) = Slots(q, ts)
  BY <1>4 DEF Slots
<1> QED
  BY <1>2, <1>4, <1>6, <1>7, <1>8, CallerStep DEF q, ts

\* AbandonExecCall, after which nothing is said of rows that were begun.
LEMMA AbandonInv ==
  ASSUME Inv, NEW c \in Calls, NEW label \in {"threw", "answer"}, Abandon(c, label), call[c].at = "wait",
         label = "answer" => call[c].expired
  PROVE  Inv'
<1> DEFINE q == call[c]
           ts == task[c]
           p == [q EXCEPT !.cancelled = TRUE, !.stopped = q.open, !.at = label]
<1>1. /\ q \in CallType /\ ts \in [Tasks -> TaskType]
      /\ TasksCounted(q, ts) /\ RowsOK(q, ts) /\ CallerOK(q, ts)
  BY CallFacts
<1>2. q.at = "wait" /\ Caller(c, p) /\ UNCHANGED running /\ (label = "answer" => q.expired)
  BY DEF Abandon
<1>3. q.row = 0
  BY <1>1, <1>2 DEF CallerOK
<1> HIDE DEF q, ts
<1>4. /\ p \in CallType /\ p.at = label /\ p.skip = q.skip /\ p.reserved = q.reserved
      /\ p.started = q.started /\ p.settled = q.settled /\ p.cursor = q.cursor /\ p.row = q.row
      /\ p.cancelled = TRUE /\ p.done = q.done /\ p.expired = q.expired /\ p.starts = q.starts
  BY <1>1 DEF CallType, CallLabels, Over
<1> HIDE DEF p
<1>5. TasksCounted(p, ts) /\ RowsOK(p, ts) /\ CallerOK(p, ts)
  BY <1>1, <1>2, <1>3, <1>4 DEF TasksCounted, RowsOK, CallerOK, Early, Over
<1>6. Slots(p, ts) = Slots(q, ts)
  BY <1>2, <1>4 DEF Slots
<1> QED
  BY <1>2, <1>4, <1>5, <1>6, CallerStep DEF q, ts

LEMMA GiveUpInv ==
  ASSUME Inv, NEW c \in Calls, GiveUpInterrupted(c) \/ GiveUpExpired(c)
  PROVE  Inv'
<1>1. CASE GiveUpInterrupted(c)
  BY <1>1, AbandonInv DEF GiveUpInterrupted
<1>2. CASE GiveUpExpired(c)
  BY <1>2, AbandonInv DEF GiveUpExpired
<1> QED
  BY <1>1, <1>2

\* A deadline or an interrupt.
LEMMA SignalInv ==
  ASSUME Inv, NEW c \in Calls, Expire(c) \/ Interrupt(c)
  PROVE  Inv'
<1> DEFINE q == call[c]
           ts == task[c]
<1>1. /\ q \in CallType /\ ts \in [Tasks -> TaskType]
      /\ TasksCounted(q, ts) /\ RowsOK(q, ts) /\ CallerOK(q, ts)
  BY CallFacts
<1>2. PICK p : Caller(c, p) /\ (p = [q EXCEPT !.expired = TRUE] \/ p = [q EXCEPT !.intr = TRUE])
  BY DEF Expire, Interrupt
<1>3. UNCHANGED running
  BY DEF Expire, Interrupt
<1> HIDE DEF q, ts
<1>4. /\ p \in CallType /\ p.at = q.at /\ p.skip = q.skip /\ p.reserved = q.reserved /\ p.started = q.started
      /\ p.settled = q.settled /\ p.cursor = q.cursor /\ p.row = q.row /\ p.cancelled = q.cancelled
      /\ p.done = q.done /\ (q.expired => p.expired) /\ p.starts = q.starts
  BY <1>1, <1>2, ZenonT(60) DEF CallType
<1>5. TasksCounted(p, ts) /\ RowsOK(p, ts) /\ CallerOK(p, ts)
  BY <1>1, <1>4 DEF TasksCounted, RowsOK, CallerOK
<1>6. Slots(p, ts) = Slots(q, ts)
  BY <1>4 DEF Slots
<1> QED
  BY <1>2, <1>3, <1>4, <1>5, <1>6, CallerStep DEF q, ts

\* A call that has not begun, or whose connection is gone.
LEMMA NewCallOK ==
  ASSUME NEW p \in CallType, NEW us \in [Tasks -> TaskType], p.at \in {"idle", "closed"},
         p.started = 0, p.settled = 0, p.row = 0, ~p.cancelled, p.starts = [r \in Rows |-> 0],
         us = [k \in Tasks |-> NoTask]
  PROVE  CallOK(p, us) /\ Slots(p, us) = {}
<1>1. \A k \in Tasks : us[k] = NoTask /\ 0 < k
  BY DEF Tasks
<1>2. TasksCounted(p, us)
  <2>1. SettledTasks(us) = {}
    BY <1>1, FreshTasks DEF SettledTasks
  <2>2. Cardinality({}) = 0
    BY FS_EmptySet
  <2> QED
    BY <1>1, <2>1, <2>2, FreshTasks, TasksFinite DEF TasksCounted
<1>3. RowsOK(p, us)
  <2>1. \A k \in Tasks : TaskOK(us[k], p.starts, p.cursor)
    BY <1>1, FreshTasks DEF TaskOK
  <2>2. \A r \in Rows : p.starts[r] = 0
    OBVIOUS
  <2> QED
    BY <1>1, <2>1, <2>2, FreshTasks DEF RowsOK
<1>4. CallerOK(p, us)
  BY DEF CallerOK
<1>5. Slots(p, us) = {}
  BY <1>1, FreshTasks DEF Slots
<1> QED
  BY <1>2, <1>3, <1>4, <1>5 DEF CallOK

LEMMA NewCallType ==
  /\ NoCall \in CallType /\ NoCall.at = "idle" /\ NoCall.started = 0 /\ NoCall.settled = 0 /\ NoCall.row = 0
  /\ NoCall.cancelled = FALSE /\ NoCall.starts = [r \in Rows |-> 0]
<1>1. [r \in Rows |-> 0] \in [Rows -> 0..1] /\ {} \in SUBSET Rows /\ 0 \in Rows \cup {0} /\ 1 \in Nat
  OBVIOUS
<1> DEFINE starts == [r \in Rows |-> 0]
<1>2. NoCall = [at |-> "idle", skip |-> {}, stmts |-> 1, seen |-> 0, reserved |-> 0, started |-> 0, settled |-> 0,
           begun |-> FALSE, cursor |-> 0, row |-> 0, cancelled |-> FALSE, done |-> {}, open |-> {},
           expired |-> FALSE, intr |-> FALSE, starts |-> starts, stopped |-> {}, late |-> {}]
  BY DEF NoCall
<1>3. starts \in [Rows -> 0..1]
  BY <1>1
<1> HIDE DEF starts
<1>4. "idle" \in CallLabels
  BY DEF CallLabels, Early
<1>5. /\ NoCall \in CallType /\ NoCall.at = "idle" /\ NoCall.started = 0 /\ NoCall.settled = 0 /\ NoCall.row = 0
      /\ NoCall.cancelled = FALSE /\ NoCall.starts = starts
  BY <1>1, <1>2, <1>3, <1>4 DEF CallType
<1> QED
  BY <1>5 DEF starts

LEMMA DrainedInv ==
  ASSUME Inv, NEW c \in Calls, Drained(c)
  PROVE  Inv'
<1> DEFINE p == [NoCall EXCEPT !.at = "closed"]
           us == [k \in Tasks |-> NoTask]
<1>1. call[c].at = "closing" /\ (\A k \in Tasks : task[c][k].at \in {"none", "settled"})
      /\ call' = [call EXCEPT ![c] = p] /\ task' = [task EXCEPT ![c] = us] /\ running' = running
  BY DEF Drained
<1>2. Slots(call[c], task[c]) = {}
  BY <1>1 DEF Slots
<1>3. us \in [Tasks -> TaskType]
  BY FreshTasks
<1>4. /\ p \in CallType /\ p.at = "closed" /\ p.started = 0 /\ p.settled = 0 /\ p.row = 0 /\ ~p.cancelled
      /\ p.starts = [r \in Rows |-> 0]
  <2> DEFINE starts == [r \in Rows |-> 0]
  <2>1. NoCall \in CallType /\ NoCall.started = 0 /\ NoCall.settled = 0 /\ NoCall.row = 0
        /\ NoCall.cancelled = FALSE /\ NoCall.starts = starts
    BY NewCallType
  <2> HIDE DEF starts
  <2>2. /\ p \in CallType /\ p.at = "closed" /\ p.started = 0 /\ p.settled = 0 /\ p.row = 0 /\ ~p.cancelled
        /\ p.starts = starts
    BY <2>1 DEF CallType, CallLabels, Over
  <2> QED
    BY <2>2 DEF starts
<1> HIDE DEF p, us
<1>5. CallOK(p, us) /\ Slots(p, us) = {}
  BY <1>3, <1>4, NewCallOK DEF us
<1> QED
  BY <1>1, <1>2, <1>3, <1>4, <1>5, QuietStep

-----------------------------------------------------------------------------
(* A task.                                                                 *)

\* A task that ends, of an abandoned call or without a row.
LEMMA SettleInv ==
  ASSUME Inv, NEW c \in Calls, NEW k \in Tasks, Settle(c, k), task[c][k].at \notin {"none", "settled"},
         task[c][k].row = 0 \/ call[c].at \in Over \cup {"answer"}
  PROVE  Inv'
<1> DEFINE q == call[c]
           ts == task[c]
           settled == q.settled + 1
           open == q.open \ {ts[k].row}
           p == [q EXCEPT !.settled = settled, !.begun = TRUE, !.open = open]
           us == [ts EXCEPT ![k] = Settled]
<1>1. /\ q \in CallType /\ ts \in [Tasks -> TaskType]
      /\ TasksCounted(q, ts) /\ RowsOK(q, ts) /\ CallerOK(q, ts)
      /\ q.settled \in Nat /\ q.open \in SUBSET Rows /\ running \in Nat /\ running <= Cap /\ Cap \in Nat
  BY CallFacts DEF CallType
<1>2. /\ ts[k].at \notin {"none", "settled"} /\ running' = running - 1
      /\ call' = [call EXCEPT ![c] = p] /\ task' = [task EXCEPT ![c] = us]
  BY DEF Settle, Inv
<1>3. settled \in Nat /\ open \in SUBSET Rows /\ settled = q.settled + 1
  BY <1>1
<1>4. ts[k].row = 0 \/ q.at \in Over \cup {"answer"}
  OBVIOUS
<1> HIDE DEF q, ts, settled, open
<1>5. /\ p \in CallType /\ p.at = q.at /\ p.skip = q.skip /\ p.reserved = q.reserved
      /\ p.started = q.started /\ p.settled = settled /\ p.cursor = q.cursor /\ p.row = q.row
      /\ p.cancelled = q.cancelled /\ p.done = q.done /\ p.expired = q.expired /\ p.starts = q.starts
  BY <1>1, <1>3 DEF CallType
<1>6. us \in [Tasks -> TaskType] /\ us[k] = Settled /\ \A j \in Tasks \ {k} : us[j] = ts[j]
  BY <1>1, FreshTasks
<1> HIDE DEF p, us
<1>7. Cardinality(SettledTasks(us)) = Cardinality(SettledTasks(ts)) + 1
  BY <1>1, <1>2, <1>6, SettledCount, FreshTasks
<1>8. TasksCounted(p, us)
  <2>1. \A j \in Tasks : us[j].at = "none" <=> ts[j].at = "none"
    BY <1>2, <1>6, FreshTasks
  <2> QED
    BY <1>1, <1>3, <1>5, <1>7, <2>1 DEF TasksCounted
<1>9. LiveTasks(us) \subseteq LiveTasks(ts) /\ LiveTasks(ts) # {}
  BY <1>2, <1>6, FreshTasks DEF LiveTasks
<1>10. RowsOK(p, us)
  <2>1. \A j \in Tasks : (us[j].row # 0 => us[j].row = ts[j].row) /\ TaskOK(us[j], p.starts, p.cursor)
    BY <1>1, <1>5, <1>6, FreshTasks DEF RowsOK, TaskOK
  <2>2. \A i, j \in Tasks : us[i].row = us[j].row /\ us[i].row # 0 => i = j
    BY <1>1, <2>1 DEF RowsOK
  <2>3. \A r \in Rows : r > p.cursor => p.starts[r] = 0
    BY <1>1, <1>5, <1>9 DEF RowsOK
  <2>4. ASSUME p.at \notin Over \cup {"answer"}, NEW r \in Rows, p.starts[r] # 0
        PROVE  \/ r \in p.done \/ r = p.row
               \/ \E j \in Tasks : us[j].row = r /\ (us[j].stmt # 0 \/ us[j].result)
    <3>1. \/ r \in q.done \/ r = q.row
          \/ \E j \in Tasks : ts[j].row = r /\ (ts[j].stmt # 0 \/ ts[j].result)
      BY <1>1, <1>5, <2>4 DEF RowsOK
    <3>2. r # 0 /\ ts[k].row = 0
      BY <1>4, <1>5, <2>4 DEF Rows
    <3> QED
      BY <1>5, <1>6, <3>1, <3>2
  <2> QED
    BY <2>1, <2>2, <2>3, <2>4 DEF RowsOK
<1>11. CallerOK(p, us)
  BY <1>1, <1>5, <1>9 DEF CallerOK
<1>12. Cardinality(Slots(p, us)) = Cardinality(Slots(q, ts)) - 1 /\ Cardinality(Slots(q, ts)) \in Nat
  <2> DEFINE S == Slots(q, ts)
  <2>1. k \in S
    BY <1>2 DEF Slots
  <2>2. Slots(p, us) = S \ {k}
    <3>1. q.at \in {"create", "schedule"} => ~(q.started < k)
      BY <1>1, <1>2 DEF TasksCounted
    <3> QED
      BY <1>5, <1>6, <3>1, FreshTasks DEF Slots
  <2>3. IsFiniteSet(S) /\ Cardinality(S) \in Nat
    BY CountOfTasks DEF Slots
  <2> HIDE DEF S
  <2>4. Cardinality(S \ {k}) = Cardinality(S) - 1
    BY <2>1, <2>3, FS_RemoveElement
  <2> QED
    BY <2>2, <2>3, <2>4 DEF S
<1>13. running' = running + Cardinality(Slots(p, us)) - Cardinality(Slots(q, ts)) /\ running' <= Cap
  BY <1>1, <1>2, <1>12
<1> QED
  BY <1>2, <1>5, <1>6, <1>8, <1>10, <1>11, <1>13, CallStep DEF q, ts, CallOK

\* A piece of a step that leaves its task unsettled.
LEMMA WorkStep ==
  ASSUME Inv, NEW c \in Calls, NEW k \in Tasks, NEW u \in TaskType, NEW p \in CallType,
         Task(c, k, u), call' = [call EXCEPT ![c] = p],
         task[c][k].at \notin {"none", "settled"}, u.at \notin {"none", "settled"},
         p.at = call[c].at, p.skip = call[c].skip, p.reserved = call[c].reserved, p.started = call[c].started,
         p.settled = call[c].settled, p.row = call[c].row, p.cancelled = call[c].cancelled,
         p.expired = call[c].expired, call[c].done \subseteq p.done,
         RowsOK(p, [task[c] EXCEPT ![k] = u])
  PROVE  Inv'
<1> DEFINE q == call[c]
           ts == task[c]
           us == [ts EXCEPT ![k] = u]
<1>1. /\ q \in CallType /\ ts \in [Tasks -> TaskType]
      /\ TasksCounted(q, ts) /\ RowsOK(q, ts) /\ CallerOK(q, ts)
  BY CallFacts
<1>2. task' = [task EXCEPT ![c] = us] /\ running' = running /\ RowsOK(p, us)
  BY DEF Task, Inv
<1>3. us \in [Tasks -> TaskType] /\ us[k] = u /\ \A j \in Tasks \ {k} : us[j] = ts[j]
  BY <1>1
<1>4. ts[k].at \notin {"none", "settled"} /\ q.done \subseteq p.done
      /\ p.at = q.at /\ p.skip = q.skip /\ p.reserved = q.reserved /\ p.started = q.started
      /\ p.settled = q.settled /\ p.row = q.row /\ p.cancelled = q.cancelled /\ p.expired = q.expired
  OBVIOUS
<1> HIDE DEF q, ts, us
<1>5. Cardinality(SettledTasks(us)) = Cardinality(SettledTasks(ts))
  BY <1>1, <1>3, <1>4, SettledCount
<1>6. TasksCounted(p, us)
  <2>1. \A j \in Tasks : us[j].at = "none" <=> ts[j].at = "none"
    BY <1>3, <1>4
  <2> QED
    BY <1>1, <1>4, <1>5, <2>1 DEF TasksCounted
<1>7. LiveTasks(us) = LiveTasks(ts)
  BY <1>3, <1>4 DEF LiveTasks
<1>8. CallerOK(p, us)
  BY <1>1, <1>4, <1>7 DEF CallerOK
<1>9. Slots(p, us) = Slots(q, ts)
  BY <1>3, <1>4 DEF Slots
<1> QED
  BY <1>2, <1>3, <1>6, <1>8, <1>9, QuietStep DEF q, ts, CallOK

\* A piece that keeps the row of its task, and what was begun.
LEMMA SameRow ==
  ASSUME Inv, NEW c \in Calls, NEW k \in Tasks, NEW u \in TaskType, NEW p \in CallType,
         task[c][k].at \notin {"none", "settled"}, u.row = task[c][k].row,
         task[c][k].stmt # 0 \/ task[c][k].result => u.stmt # 0 \/ u.result,
         TaskOK(u, call[c].starts, call[c].cursor),
         p.at = call[c].at, p.cursor = call[c].cursor, p.starts = call[c].starts, p.done = call[c].done,
         p.row = call[c].row
  PROVE  RowsOK(p, [task[c] EXCEPT ![k] = u])
<1> DEFINE q == call[c]
           ts == task[c]
           us == [ts EXCEPT ![k] = u]
<1>1. RowsOK(q, ts) /\ ts \in [Tasks -> TaskType]
  BY CallFacts
<1>2. us \in [Tasks -> TaskType] /\ us[k] = u /\ \A j \in Tasks \ {k} : us[j] = ts[j]
  BY <1>1
<1>3. /\ ts[k].at \notin {"none", "settled"} /\ u.row = ts[k].row
      /\ ts[k].stmt # 0 \/ ts[k].result => u.stmt # 0 \/ u.result
      /\ TaskOK(u, q.starts, q.cursor)
      /\ p.at = q.at /\ p.cursor = q.cursor /\ p.starts = q.starts /\ p.done = q.done /\ p.row = q.row
  OBVIOUS
<1> HIDE DEF q, ts, us
<1>4. \A j \in Tasks : us[j].row = ts[j].row /\ TaskOK(us[j], p.starts, p.cursor)
                      /\ (ts[j].stmt # 0 \/ ts[j].result => us[j].stmt # 0 \/ us[j].result)
  BY <1>1, <1>2, <1>3 DEF RowsOK
<1>5. LiveTasks(ts) # {}
  BY <1>3 DEF LiveTasks
<1>6. RowsOK(p, us)
  BY <1>1, <1>3, <1>4, <1>5 DEF RowsOK
<1> QED
  BY <1>6 DEF us, ts

LEMMA BeginStepGoesOn ==
  ASSUME Inv, NEW c \in Calls, NEW k \in Tasks, NEW own \in BOOLEAN, BeginStep(c, k, own), ~call[c].cancelled
  PROVE  Inv'
<1> DEFINE q == call[c]
           t == task[c][k]
           label == IF t.row = 0 THEN "claim" ELSE "check"
           u == [t EXCEPT !.at = label, !.own = own]
           p == [q EXCEPT !.begun = TRUE]
<1>1. q \in CallType /\ t \in TaskType /\ TaskOK(t, q.starts, q.cursor)
  BY CallFacts DEF RowsOK
<1>2. t.at = "queued" /\ Task(c, k, u) /\ call' = [call EXCEPT ![c] = p]
  BY DEF BeginStep, Inv
<1>3. label \in TaskLabels /\ label \in {"claim", "check"} /\ (label = "claim" <=> t.row = 0)
  BY <1>1 DEF TaskLabels, Steps, TaskType
<1> HIDE DEF label
<1>4. /\ u \in TaskType /\ u.at = label /\ u.row = t.row /\ u.conn = t.conn
      /\ u.result = t.result /\ u.stmt = t.stmt
  BY <1>1, <1>3 DEF TaskType
<1>5. /\ p \in CallType /\ p.cursor = q.cursor /\ p.starts = q.starts /\ p.done = q.done
      /\ p.at = q.at /\ p.skip = q.skip /\ p.reserved = q.reserved /\ p.started = q.started
      /\ p.settled = q.settled /\ p.row = q.row /\ p.cancelled = q.cancelled /\ p.expired = q.expired
  BY <1>1 DEF CallType
<1>6. u.at \notin {"none", "settled"} /\ t.at \notin {"none", "settled"} /\ TaskOK(u, q.starts, q.cursor)
  BY <1>1, <1>2, <1>3, <1>4 DEF TaskOK
<1>7. t.stmt # 0 \/ t.result => u.stmt # 0 \/ u.result
  BY <1>1, <1>2, <1>3, <1>4 DEF TaskType, TaskOK
<1> HIDE DEF u, p
<1>8. RowsOK(p, [task[c] EXCEPT ![k] = u])
  BY <1>4, <1>5, <1>6, <1>7, SameRow
<1> QED
  BY <1>2, <1>4, <1>5, <1>6, <1>8, WorkStep

LEMMA BeginStepInv ==
  ASSUME Inv, NEW c \in Calls, NEW k \in Tasks, NEW own \in BOOLEAN, BeginStep(c, k, own)
  PROVE  Inv'
<1>1. CASE call[c].cancelled
  <2>1. task[c][k].at = "queued" /\ Settle(c, k)
    BY <1>1 DEF BeginStep
  <2>2. call[c].at \in Over \cup {"answer"}
    BY <1>1, CallFacts DEF CallerOK
  <2> QED
    BY <2>1, <2>2, SettleInv
<1>2. CASE ~call[c].cancelled
  BY <1>2, BeginStepGoesOn
<1> QED
  BY <1>1, <1>2

\* cursor.fetch_add(1): the row has not been begun by anybody.
LEMMA ClaimInv ==
  ASSUME Inv, NEW c \in Calls, NEW k \in Tasks, Claim(c, k)
  PROVE  Inv'
<1> DEFINE q == call[c]
           ts == task[c]
           t == ts[k]
           i == q.cursor + 1
           at == IF i \in q.skip THEN "claim" ELSE "check"
           row == IF i \in q.skip THEN 0 ELSE i
           u == [t EXCEPT !.at = at, !.row = row]
           p == [q EXCEPT !.cursor = i]
           us == [ts EXCEPT ![k] = u]
<1>1. /\ q \in CallType /\ ts \in [Tasks -> TaskType]
      /\ TasksCounted(q, ts) /\ RowsOK(q, ts) /\ CallerOK(q, ts)
      /\ q.cursor \in Nat /\ q.starts \in [Rows -> 0..1] /\ t \in TaskType /\ TaskOK(t, q.starts, q.cursor)
      /\ N \in Nat
  BY CallFacts, DispatchAssumption, SMTT(40) DEF CallType, RowsOK
<1>2. t.at = "claim" /\ t.row = 0
  BY <1>1 DEF Claim, TaskOK
<1>3. CASE i > N
  BY <1>2, <1>3, SettleInv DEF Claim
<1>4. CASE ~(i > N)
  <2>1. Task(c, k, u) /\ call' = [call EXCEPT ![c] = p]
    BY <1>4 DEF Claim
  <2>2. i \in Rows /\ i \in Nat /\ i > q.cursor
    BY <1>1, <1>4 DEF Rows
  <2>3. q.starts[i] = 0 /\ \A r \in Rows : r > q.cursor => q.starts[r] = 0
    <3>1. LiveTasks(ts) # {}
      BY <1>2 DEF LiveTasks
    <3> QED
      BY <1>1, <2>2, <3>1 DEF RowsOK
  <2>4. /\ row \in Rows \cup {0} /\ at \in TaskLabels /\ (row = 0 \/ row = i) /\ at \in {"claim", "check"}
        /\ (at = "claim" <=> row = 0)
    BY <2>2 DEF TaskLabels, Steps, Rows
  <2>5. \A x \in Rows \cup {0} : x # 0 /\ x <= q.cursor => x <= i /\ x # i
    BY <1>1, <2>2 DEF Rows
  <2>6. \A r \in Rows : r > i => r > q.cursor
    BY <1>1, <2>2 DEF Rows
  <2>7. i <= i
    BY <2>2
  <2> HIDE DEF q, ts, at, row, i
  <2>8. u \in TaskType /\ u.at = at /\ u.row = row /\ u.conn = t.conn /\ u.result = t.result /\ u.stmt = t.stmt
    BY <1>1, <2>4 DEF TaskType
  <2>9. /\ p \in CallType /\ p.cursor = i /\ p.starts = q.starts /\ p.done = q.done
        /\ p.at = q.at /\ p.skip = q.skip /\ p.reserved = q.reserved /\ p.started = q.started
      /\ p.settled = q.settled /\ p.row = q.row /\ p.cancelled = q.cancelled /\ p.expired = q.expired
    BY <1>1, <2>2 DEF CallType
  <2>10. us \in [Tasks -> TaskType] /\ us[k] = u /\ \A j \in Tasks \ {k} : us[j] = ts[j]
    <3> HIDE DEF u
    <3> QED
      BY <1>1, <2>8
  <2> HIDE DEF u, p, us
  <2>11. TaskOK(u, p.starts, p.cursor)
    BY <1>1, <1>2, <2>3, <2>4, <2>7, <2>8, <2>9 DEF TaskOK
  <2>12. \A j \in Tasks \ {k} : ts[j].row \in Rows \cup {0} /\ (ts[j].row # 0 => ts[j].row <= q.cursor)
    BY <1>1 DEF RowsOK, TaskOK, TaskType
  <2>13. \A j \in Tasks \ {k} : TaskOK(us[j], p.starts, p.cursor) /\ (us[j].row # 0 => us[j].row # i)
    BY <1>1, <2>5, <2>9, <2>10, <2>12 DEF RowsOK, TaskOK
  <2>14. \A x, y \in Tasks : us[x].row = us[y].row /\ us[x].row # 0 => x = y
    BY <1>1, <2>4, <2>8, <2>10, <2>13 DEF RowsOK
  <2>15. ASSUME p.at \notin Over \cup {"answer"}, NEW r \in Rows, p.starts[r] # 0
         PROVE  \/ r \in p.done \/ r = p.row
                \/ \E j \in Tasks : us[j].row = r /\ (us[j].stmt # 0 \/ us[j].result)
    <3>1. \/ r \in q.done \/ r = q.row
          \/ \E j \in Tasks : ts[j].row = r /\ (ts[j].stmt # 0 \/ ts[j].result)
      BY <1>1, <2>9, <2>15 DEF RowsOK
    <3>2. r # 0
      BY DEF Rows
    <3> QED
      BY <1>2, <2>9, <2>10, <3>1, <3>2
  <2>16. RowsOK(p, us)
    BY <2>3, <2>6, <2>9, <2>10, <2>11, <2>13, <2>14, <2>15 DEF RowsOK
  <2> QED
    BY <1>2, <2>1, <2>4, <2>8, <2>9, <2>16, WorkStep DEF q, ts, us
<1> QED
  BY <1>3, <1>4

\* The row has its receipt.
LEMMA FinishInv ==
  ASSUME Inv, NEW c \in Calls, NEW k \in Tasks, Finish(c, k), task[c][k].at \notin {"none", "settled"},
         task[c][k].row # 0
  PROVE  Inv'
<1> DEFINE q == call[c]
           ts == task[c]
           done == q.done \cup {ts[k].row}
           open == q.open \ {ts[k].row}
           p == [q EXCEPT !.done = done, !.open = open]
           us == [ts EXCEPT ![k] = Queued]
<1>1. /\ q \in CallType /\ ts \in [Tasks -> TaskType]
      /\ TasksCounted(q, ts) /\ RowsOK(q, ts) /\ CallerOK(q, ts)
      /\ q.done \in SUBSET Rows /\ q.open \in SUBSET Rows /\ ts[k].row \in Rows \cup {0}
  BY CallFacts DEF CallType, TaskType
<1>2. Task(c, k, Queued) /\ call' = [call EXCEPT ![c] = p]
  BY DEF Finish
<1>3. done \in SUBSET Rows /\ open \in SUBSET Rows /\ q.done \subseteq done /\ ts[k].row \in done
      /\ ts[k].at \notin {"none", "settled"}
  BY <1>1
<1> HIDE DEF q, ts, done, open
<1>4. /\ p \in CallType /\ p.cursor = q.cursor /\ p.starts = q.starts /\ p.done = done
      /\ p.at = q.at /\ p.skip = q.skip /\ p.reserved = q.reserved /\ p.started = q.started
      /\ p.settled = q.settled /\ p.row = q.row /\ p.cancelled = q.cancelled /\ p.expired = q.expired
  BY <1>1, <1>3 DEF CallType
<1>5. us \in [Tasks -> TaskType] /\ us[k] = Queued /\ \A j \in Tasks \ {k} : us[j] = ts[j]
  BY <1>1, FreshTasks
<1> HIDE DEF p, us
<1>6. RowsOK(p, us)
  <2>1. \A j \in Tasks : (us[j].row # 0 => us[j].row = ts[j].row) /\ TaskOK(us[j], p.starts, p.cursor)
    BY <1>1, <1>4, <1>5, FreshTasks DEF RowsOK, TaskOK
  <2>2. \A i, j \in Tasks : us[i].row = us[j].row /\ us[i].row # 0 => i = j
    BY <1>1, <2>1 DEF RowsOK
  <2>3. \A r \in Rows : r > p.cursor => p.starts[r] = 0
    <3>1. LiveTasks(ts) # {}
      BY <1>3 DEF LiveTasks
    <3> QED
      BY <1>1, <1>4, <3>1 DEF RowsOK
  <2>4. ASSUME p.at \notin Over \cup {"answer"}, NEW r \in Rows, p.starts[r] # 0
        PROVE  \/ r \in p.done \/ r = p.row
               \/ \E j \in Tasks : us[j].row = r /\ (us[j].stmt # 0 \/ us[j].result)
    <3>1. \/ r \in q.done \/ r = q.row
          \/ \E j \in Tasks : ts[j].row = r /\ (ts[j].stmt # 0 \/ ts[j].result)
      BY <1>1, <1>4, <2>4 DEF RowsOK
    <3> QED
      BY <1>3, <1>4, <1>5, <3>1
  <2> QED
    BY <2>1, <2>2, <2>3, <2>4 DEF RowsOK
<1>7. Queued \in TaskType /\ Queued.at \notin {"none", "settled"}
  BY FreshTasks
<1> QED
  BY <1>2, <1>3, <1>4, <1>6, <1>7, WorkStep DEF q, ts, us

LEMMA CheckGoesOn ==
  ASSUME Inv, NEW c \in Calls, NEW k \in Tasks, Check(c, k), ~(call[c].cancelled \/ call[c].expired)
  PROVE  Inv'
<1> DEFINE q == call[c]
           t == task[c][k]
           label == IF ~t.conn THEN "connect" ELSE IF t.result THEN "execute" ELSE "submit"
           u == [t EXCEPT !.at = label]
           p == q
<1>1. q \in CallType /\ t \in TaskType /\ TaskOK(t, q.starts, q.cursor)
  BY CallFacts DEF RowsOK
<1>2. t.at = "check" /\ Task(c, k, u) /\ call' = [call EXCEPT ![c] = p]
  BY DEF Check, Inv
<1>3. label \in {"connect", "execute", "submit"} /\ label \in TaskLabels
      /\ (label = "connect" => ~t.conn) /\ (label = "execute" => t.result) /\ (label = "submit" => t.conn /\ ~t.result)
  BY <1>1 DEF TaskLabels, Steps, TaskType
<1> HIDE DEF label
<1>4. /\ u \in TaskType /\ u.at = label
      /\ u.row = t.row /\ u.conn = t.conn /\ u.result = t.result /\ u.stmt = t.stmt
  BY <1>1, <1>3 DEF TaskType
<1>5. /\ p \in CallType /\ p.cursor = q.cursor /\ p.starts = q.starts /\ p.done = q.done
      /\ p.at = q.at /\ p.skip = q.skip /\ p.reserved = q.reserved /\ p.started = q.started
      /\ p.settled = q.settled /\ p.row = q.row /\ p.cancelled = q.cancelled /\ p.expired = q.expired
  BY <1>1 DEF CallType
<1>6. u.at \notin {"none", "settled"} /\ t.at \notin {"none", "settled"} /\ TaskOK(u, q.starts, q.cursor)
  BY <1>1, <1>2, <1>3, <1>4 DEF TaskOK, TaskType
<1>7. t.stmt # 0 \/ t.result => u.stmt # 0 \/ u.result
  BY <1>1, <1>2, <1>3, <1>4 DEF TaskType, TaskOK
<1> HIDE DEF u, p
<1>8. RowsOK(p, [task[c] EXCEPT ![k] = u])
  BY <1>4, <1>5, <1>6, <1>7, SameRow
<1> QED
  BY <1>2, <1>4, <1>5, <1>6, <1>8, WorkStep

\* The row of a task in the middle of its step.
LEMMA StepHasRow ==
  ASSUME Inv, NEW c \in Calls, NEW k \in Tasks, task[c][k].at \in {"check", "connect", "submit", "execute"}
  PROVE  task[c][k].row # 0 /\ task[c][k].at \notin {"none", "settled"}
BY CallFacts DEF RowsOK, TaskOK

LEMMA CheckInv ==
  ASSUME Inv, NEW c \in Calls, NEW k \in Tasks, Check(c, k)
  PROVE  Inv'
<1>1. CASE call[c].cancelled \/ call[c].expired
  BY <1>1, StepHasRow, FinishInv DEF Check
<1>2. CASE ~(call[c].cancelled \/ call[c].expired)
  BY <1>2, CheckGoesOn
<1> QED
  BY <1>1, <1>2

LEMMA FinishedInv ==
  ASSUME Inv, NEW c \in Calls, NEW k \in Tasks, ConnectFails(c, k) \/ ExecuteLast(c, k)
  PROVE  Inv'
BY StepHasRow, FinishInv DEF ConnectFails, ExecuteLast

LEMMA ExecuteMoreInv ==
  ASSUME Inv, NEW c \in Calls, NEW k \in Tasks, ExecuteMore(c, k)
  PROVE  Inv'
<1> DEFINE q == call[c]
           t == task[c][k]
           u == [t EXCEPT !.at = "queued", !.own = FALSE]
           p == q
<1>1. q \in CallType /\ t \in TaskType /\ TaskOK(t, q.starts, q.cursor)
  BY CallFacts DEF RowsOK
<1>2. t.at = "execute" /\ Task(c, k, u) /\ call' = [call EXCEPT ![c] = p]
  BY DEF ExecuteMore, Inv
<1>3. /\ u \in TaskType /\ u.at = "queued" /\ u.row = t.row /\ u.conn = t.conn /\ u.result = t.result
      /\ u.stmt = t.stmt
  BY <1>1 DEF TaskType, TaskLabels, Steps
<1>4. /\ p \in CallType /\ p.cursor = q.cursor /\ p.starts = q.starts /\ p.done = q.done
      /\ p.at = q.at /\ p.skip = q.skip /\ p.reserved = q.reserved /\ p.started = q.started
      /\ p.settled = q.settled /\ p.row = q.row /\ p.cancelled = q.cancelled /\ p.expired = q.expired
  BY <1>1 DEF CallType
<1>5. u.at \notin {"none", "settled"} /\ t.at \notin {"none", "settled"} /\ TaskOK(u, q.starts, q.cursor)
  BY <1>1, <1>2, <1>3 DEF TaskOK
<1>6. t.stmt # 0 \/ t.result => u.stmt # 0 \/ u.result
  BY <1>1, <1>2, <1>3 DEF TaskType, TaskOK
<1> HIDE DEF u, p
<1>7. RowsOK(p, [task[c] EXCEPT ![k] = u])
  BY <1>3, <1>4, <1>5, <1>6, SameRow
<1> QED
  BY <1>2, <1>3, <1>4, <1>5, <1>7, WorkStep

LEMMA ExecuteNextInv ==
  ASSUME Inv, NEW c \in Calls, NEW k \in Tasks, ExecuteNext(c, k)
  PROVE  Inv'
<1> DEFINE q == call[c]
           t == task[c][k]
           n == t.stmt + 1
           u == [t EXCEPT !.at = "queued", !.own = FALSE, !.result = FALSE, !.stmt = n]
           p == q
<1>1. q \in CallType /\ t \in TaskType /\ TaskOK(t, q.starts, q.cursor)
  BY CallFacts DEF RowsOK
<1>2. t.at = "execute" /\ Task(c, k, u) /\ call' = [call EXCEPT ![c] = p]
  BY DEF ExecuteNext, Inv
<1>3. n \in Nat /\ n # 0 /\ "queued" \in TaskLabels
  BY <1>1 DEF TaskType, TaskLabels
<1> HIDE DEF n
<1>4. /\ u \in TaskType /\ u.at = "queued" /\ u.row = t.row /\ u.conn = t.conn /\ u.result = FALSE
      /\ u.stmt = n
  BY <1>1, <1>3 DEF TaskType
<1>5. /\ p \in CallType /\ p.cursor = q.cursor /\ p.starts = q.starts /\ p.done = q.done
      /\ p.at = q.at /\ p.skip = q.skip /\ p.reserved = q.reserved /\ p.started = q.started
      /\ p.settled = q.settled /\ p.row = q.row /\ p.cancelled = q.cancelled /\ p.expired = q.expired
  BY <1>1 DEF CallType
<1>6. u.at \notin {"none", "settled"} /\ t.at \notin {"none", "settled"} /\ TaskOK(u, q.starts, q.cursor)
  BY <1>1, <1>2, <1>3, <1>4 DEF TaskOK, TaskType
<1>7. t.stmt # 0 \/ t.result => u.stmt # 0 \/ u.result
  BY <1>1, <1>2, <1>3, <1>4 DEF TaskType, TaskOK
<1> HIDE DEF u, p
<1>8. RowsOK(p, [task[c] EXCEPT ![k] = u])
  BY <1>4, <1>5, <1>6, <1>7, SameRow
<1> QED
  BY <1>2, <1>4, <1>5, <1>6, <1>8, WorkStep

LEMMA ConnectInv ==
  ASSUME Inv, NEW c \in Calls, NEW k \in Tasks, Connect(c, k)
  PROVE  Inv'
<1> DEFINE q == call[c]
           t == task[c][k]
           u == [t EXCEPT !.at = "submit", !.conn = TRUE]
           open == q.open \cup {t.row}
           p == [q EXCEPT !.open = open]
<1>1. q \in CallType /\ t \in TaskType /\ TaskOK(t, q.starts, q.cursor)
  BY CallFacts DEF RowsOK
<1>2. t.at = "connect" /\ Task(c, k, u) /\ call' = [call EXCEPT ![c] = p]
  BY DEF Connect, Inv
<1>3. u \in TaskType /\ u.at = "submit" /\ u.row = t.row /\ u.conn = TRUE /\ u.result = t.result /\ u.stmt = t.stmt
  BY <1>1 DEF TaskType, TaskLabels, Steps
<1>4. open \in SUBSET Rows
  BY <1>1, <1>2 DEF CallType, TaskType, TaskOK
<1> HIDE DEF open
<1>5. /\ p \in CallType /\ p.cursor = q.cursor /\ p.starts = q.starts /\ p.done = q.done
      /\ p.at = q.at /\ p.skip = q.skip /\ p.reserved = q.reserved /\ p.started = q.started
      /\ p.settled = q.settled /\ p.row = q.row /\ p.cancelled = q.cancelled /\ p.expired = q.expired
  BY <1>1, <1>4 DEF CallType
<1>6. u.at \notin {"none", "settled"} /\ t.at \notin {"none", "settled"} /\ TaskOK(u, q.starts, q.cursor)
  BY <1>1, <1>2, <1>3 DEF TaskOK
<1>7. t.stmt # 0 \/ t.result => u.stmt # 0 \/ u.result
  BY <1>3
<1> HIDE DEF u, p
<1>8. RowsOK(p, [task[c] EXCEPT ![k] = u])
  BY <1>3, <1>5, <1>6, <1>7, SameRow
<1> QED
  BY <1>2, <1>3, <1>5, <1>6, <1>8, WorkStep

\* A statement begins: the first of its row, of which none has begun, or a later one.
LEMMA SubmitInv ==
  ASSUME Inv, NEW c \in Calls, NEW k \in Tasks, Submit(c, k)
  PROVE  Inv'
<1> DEFINE q == call[c]
           ts == task[c]
           t == ts[k]
           r == t.row
           n == q.starts[r] + (IF t.stmt = 0 THEN 1 ELSE 0)
           starts == [q.starts EXCEPT ![r] = n]
           late == q.late \cup (IF q.cancelled THEN {r} \ q.stopped ELSE {})
           p == [q EXCEPT !.starts = starts, !.late = late]
           u == [t EXCEPT !.at = "execute", !.result = TRUE]
           us == [ts EXCEPT ![k] = u]
<1>1. /\ q \in CallType /\ ts \in [Tasks -> TaskType]
      /\ TasksCounted(q, ts) /\ RowsOK(q, ts) /\ CallerOK(q, ts)
      /\ q.starts \in [Rows -> 0..1] /\ q.late \in SUBSET Rows /\ t \in TaskType /\ TaskOK(t, q.starts, q.cursor)
      /\ q.cursor \in Nat
  BY CallFacts, ZenonT(40) DEF CallType, RowsOK
<1>2. t.at = "submit" /\ Task(c, k, u) /\ call' = [call EXCEPT ![c] = p]
  BY DEF Submit
<1>3. r \in Rows /\ r <= q.cursor /\ r # 0 /\ t.stmt \in Nat /\ (t.stmt = 0 => q.starts[r] = 0) /\ ~t.result
  BY <1>1, <1>2 DEF TaskOK, TaskType
<1>4. n \in 0..1 /\ late \in SUBSET Rows /\ (n = 0 => q.starts[r] = 0)
  BY <1>1, <1>3
<1> HIDE DEF q, ts, n, late
<1>5. starts \in [Rows -> 0..1] /\ starts[r] = n /\ \A x \in Rows \ {r} : starts[x] = q.starts[x]
  BY <1>1, <1>3, <1>4
<1> HIDE DEF starts
<1>6. /\ p \in CallType /\ p.cursor = q.cursor /\ p.starts = starts /\ p.done = q.done
      /\ p.at = q.at /\ p.skip = q.skip /\ p.reserved = q.reserved /\ p.started = q.started
      /\ p.settled = q.settled /\ p.row = q.row /\ p.cancelled = q.cancelled /\ p.expired = q.expired
  BY <1>1, <1>4, <1>5 DEF CallType
<1>7. u \in TaskType /\ u.at = "execute" /\ u.row = r /\ u.conn = t.conn /\ u.result = TRUE /\ u.stmt = t.stmt
  BY <1>1 DEF TaskType, TaskLabels, Steps
<1> HIDE DEF p, u
<1>8. us \in [Tasks -> TaskType] /\ us[k] = u /\ \A j \in Tasks \ {k} : us[j] = ts[j]
  BY <1>1, <1>7
<1> HIDE DEF us
<1>9. RowsOK(p, us)
  <2>1. \A j \in Tasks : us[j].row = ts[j].row
    BY <1>7, <1>8
  <2>2. \A i, j \in Tasks : us[i].row = us[j].row /\ us[i].row # 0 => i = j
    BY <1>1, <2>1 DEF RowsOK
  <2>3. ASSUME NEW j \in Tasks PROVE TaskOK(us[j], p.starts, p.cursor)
    <3>1. CASE j = k
      BY <1>1, <1>2, <1>3, <1>6, <1>7, <1>8, <3>1 DEF TaskOK
    <3>2. CASE j # k
      <4>1. us[j] = ts[j] /\ TaskOK(ts[j], q.starts, q.cursor) /\ ts[j].row # r /\ ts[j].row \in Rows \cup {0}
        BY <1>1, <1>3, <1>8, <3>2 DEF RowsOK, TaskType
      <4>2. ts[j].row # 0 => starts[ts[j].row] = q.starts[ts[j].row]
        BY <1>5, <4>1
      <4> QED
        BY <1>6, <4>1, <4>2 DEF TaskOK
    <3> QED
      BY <3>1, <3>2
  <2>4. \A x \in Rows : x > p.cursor => p.starts[x] = 0
    <3>1. LiveTasks(ts) # {}
      BY <1>2 DEF LiveTasks
    <3>2. \A x \in Rows : x > q.cursor => q.starts[x] = 0 /\ x # r
      BY <1>1, <1>3, <3>1 DEF RowsOK, Rows
    <3> QED
      BY <1>5, <1>6, <3>2
  <2>5. ASSUME p.at \notin Over \cup {"answer"}, NEW x \in Rows, p.starts[x] # 0
        PROVE  \/ x \in p.done \/ x = p.row
               \/ \E j \in Tasks : us[j].row = x /\ (us[j].stmt # 0 \/ us[j].result)
    <3>1. CASE x = r
      BY <1>7, <1>8, <3>1
    <3>2. CASE x # r
      <4>1. \/ x \in q.done \/ x = q.row
            \/ \E j \in Tasks : ts[j].row = x /\ (ts[j].stmt # 0 \/ ts[j].result)
        BY <1>1, <1>5, <1>6, <2>5, <3>2 DEF RowsOK
      <4> QED
        BY <1>6, <1>8, <3>2, <4>1
    <3> QED
      BY <3>1, <3>2
  <2> QED
    BY <2>2, <2>3, <2>4, <2>5 DEF RowsOK
<1> QED
  BY <1>2, <1>6, <1>7, <1>9, WorkStep DEF q, ts, us

LEMMA CancelInv ==
  ASSUME Inv, NEW c \in Calls, NEW k \in Tasks, Cancel(c, k)
  PROVE  Inv'
BY SettleInv DEF Cancel, Over

-----------------------------------------------------------------------------
(* The theorems.                                                           *)

LEMMA InitInv == Init => Inv
<1> SUFFICES ASSUME Init PROVE Inv
  OBVIOUS
<1>1. PICK w \in Workloads :
        call = [c \in Calls |-> IF c \in DOMAIN w THEN [NoCall EXCEPT !.skip = w[c].nulls, !.stmts = w[c].stmts]
                                ELSE [NoCall EXCEPT !.at = "closed"]]
  BY DEF Init
<1> DEFINE us == [k \in Tasks |-> NoTask]
<1>2. task = [c \in Calls |-> us] /\ us \in [Tasks -> TaskType]
  BY FreshTasks DEF Init
<1>3. ASSUME NEW c \in Calls
      PROVE  call[c] \in CallType /\ CallOK(call[c], us) /\ Slots(call[c], us) = {}
  <2> DEFINE q == call[c]
             starts == [r \in Rows |-> 0]
  <2>1. NoCall \in CallType /\ NoCall.at = "idle" /\ NoCall.started = 0 /\ NoCall.settled = 0 /\ NoCall.row = 0
        /\ NoCall.cancelled = FALSE /\ NoCall.starts = starts
    BY NewCallType
  <2> HIDE DEF starts
  <2>2. /\ q \in CallType /\ q.at \in {"idle", "closed"} /\ q.started = 0 /\ q.settled = 0 /\ q.row = 0
        /\ ~q.cancelled /\ q.starts = starts
    <3>1. CASE c \in DOMAIN w
      <4> DEFINE nulls == w[c].nulls
                 stmts == w[c].stmts
      <4>1. nulls \in SUBSET Rows /\ stmts \in Nat
        BY <3>1, DispatchAssumption DEF Rows
      <4>2. q = [NoCall EXCEPT !.skip = nulls, !.stmts = stmts]
        BY <1>1, <3>1
      <4> HIDE DEF q, nulls, stmts
      <4> QED
        BY <2>1, <4>1, <4>2 DEF CallType
    <3>2. CASE c \notin DOMAIN w
      <4>1. q = [NoCall EXCEPT !.at = "closed"] /\ "closed" \in CallLabels
        BY <1>1, <3>2 DEF CallLabels, Over
      <4> HIDE DEF q
      <4> QED
        BY <2>1, <4>1 DEF CallType
    <3> QED
      BY <3>1, <3>2
  <2> HIDE DEF q
  <2>3. CallOK(q, us) /\ Slots(q, us) = {}
    BY <1>2, <2>2, NewCallOK DEF starts
  <2> QED
    BY <2>2, <2>3 DEF q
<1>4. ReservationsBalanced
  <2>1. \A c \in Calls : task[c] = us
    BY <1>2
  <2>2. \A c \in Calls : Admitted(c) = {}
    BY <1>3, <2>1 DEF Admitted, Slots
  <2>3. {p \in Calls \X Tasks : p[2] \in Admitted(p[1])} = {}
    BY <2>2
  <2>4. running = 0 /\ Cap \in Nat /\ Cardinality({}) = 0
    BY FS_EmptySet, DispatchAssumption DEF Init
  <2> QED
    BY <2>3, <2>4 DEF ReservationsBalanced
<1>5. call = [c \in Calls |-> call[c]]
  BY <1>1
<1> HIDE DEF us
<1>6. call \in [Calls -> CallType]
  BY <1>3, <1>5
<1> QED
  BY <1>2, <1>3, <1>4, <1>6 DEF Inv

LEMMA NextInv == Inv /\ [Next]_vars => Inv'
<1> SUFFICES ASSUME Inv, [Next]_vars PROVE Inv'
  OBVIOUS
<1>1. ASSUME NEW c \in Calls, Start(c) PROVE Inv'
  BY <1>1, DeniedInv, BeginInv DEF Start
<1>2. ASSUME NEW c \in Calls, Advance(c) PROVE Inv'
  BY <1>2, ReserveLoadInv, ReserveCasInv, CreateInv, CreateFailsInv, ScheduleInv, ScheduleFailsInv,
     RunExecRowInv, RowEndsInv, InlineInterruptedInv, InlineDoneInv, TasksDoneInv, GiveUpInv, HelpInv,
     AnswerInv, DrainedInv DEF Advance
<1>3. ASSUME NEW c \in Calls, Teardown(c) \/ Expire(c) \/ Interrupt(c) PROVE Inv'
  BY <1>3, TeardownInv, SignalInv
<1>4. ASSUME NEW c \in Calls, NEW k \in Tasks, Take(c, k) PROVE Inv'
  BY <1>4, BeginStepInv DEF Take
<1>5. ASSUME NEW c \in Calls, NEW k \in Tasks, Work(c, k) PROVE Inv'
  BY <1>5, ClaimInv, CheckInv, ConnectInv, FinishedInv, SubmitInv, ExecuteMoreInv, ExecuteNextInv
     DEF Work, Executed
<1>6. ASSUME NEW c \in Calls, NEW k \in Tasks, Cancel(c, k) PROVE Inv'
  BY <1>6, CancelInv
<1>7. CASE UNCHANGED vars
  BY <1>7 DEF vars, Inv, ReservationsBalanced, Admitted
<1> QED
  BY <1>1, <1>2, <1>3, <1>4, <1>5, <1>6, <1>7 DEF Next

\* Rows, tasks and counters of every call agree (ExecCall).
THEOREM DispatchInv == Spec => []Inv
BY InitInv, NextInv, PTL DEF Spec

\* No row is executed twice, by two tasks or by a task and the caller, which takes
\* the rows without a receipt when tasks_done has reached the tasks scheduled
\* (ExecScalar, ExecExecutorTask::ExecuteTaskStep).
THEOREM DispatchRowsOnce == Spec => []EachRowOnce
<1>1. Inv => EachRowOnce
  BY DEF Inv, CallType, EachRowOnce
<1> QED
  BY <1>1, DispatchInv, PTL

\* A row is answered as timed out only after the deadline of its call (ExecScalar).
THEOREM DispatchTimeouts == Spec => []TimeoutIsTrue
<1>1. Inv => TimeoutIsTrue
  BY DEF Inv, CallOK, CallerOK, TimeoutIsTrue, Todo
<1> QED
  BY <1>1, DispatchInv, PTL

\* exec_tasks_running counts the admitted tasks of all calls and never passes the
\* cap (ReserveExecTasks, ReleaseExecTasks).
THEOREM DispatchReservations == Spec => []ReservationsBalanced
<1>1. Inv => ReservationsBalanced
  BY DEF Inv
<1> QED
  BY <1>1, DispatchInv, PTL
=============================================================================
