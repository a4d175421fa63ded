---------------------------- MODULE SelfDispatch ----------------------------
(***************************************************************************)
(* quackapi_selfdispatch(sql): a scalar function that runs the rows of its *)
(* argument as SQL of their own, on tasks of DuckDB's scheduler (ExecCall, *)
(* ExecScalar, ExecOperation, ExecExecutorTask, ReserveExecTasks:          *)
(* src/src/quackapi_http_fetch.cpp).                                       *)
(*                                                                         *)
(* The caller is itself a thread of the scheduler.  It reserves a number   *)
(* of tasks without waiting, schedules them, and waits for them; if nobody *)
(* has begun one it works on them itself.  It gives up at its deadline or  *)
(* when interrupted, while its tasks may be in the middle of a step: they  *)
(* share the ExecCall and end on their own.                                *)
(***************************************************************************)
EXTENDS Integers, FiniteSets, FiniteSetsExt

CONSTANTS
  Calls,          \* the calls that are made, each by a thread of the scheduler
  Threads,        \* TaskScheduler::NumberOfThreads
  N,              \* rows of a call
  Workloads,      \* calls made together: the rows of each that are NULL, its statements per row
  MaxFanout,      \* MAX_OUTBOUND_FANOUT
  Cap             \* quackapi_selfdispatch_max_threads

ASSUME DispatchAssumption ==
  /\ IsFiniteSet(Calls) /\ Threads \in Nat \ {0}
  /\ N \in Nat \ {0} /\ MaxFanout \in Nat \ {0} /\ Cap \in Nat
  /\ \A w \in Workloads : DOMAIN w \subseteq Calls /\ \A c \in DOMAIN w : w[c].nulls \subseteq 1..N /\ w[c].stmts \in Nat

Rows  == 1..N
Tasks == 1..MaxFanout

VARIABLES
  running,  \* exec_tasks_running, over all calls
  call,     \* the ExecCall and its caller
  task      \* the tasks of each call

vars == <<running, call, task>>

\* at        the next piece of ExecScalar
\* skip      rows that are NULL
\* stmts     statements a row has at most
\* seen      the counter as loaded by ReserveExecTasks
\* reserved  tasks the call may schedule
\* started   tasks scheduled
\* settled   tasks_done
\* begun     tasks_started > 0
\* cursor    rows claimed
\* row       the row the caller runs itself
\* open      rows whose connection is in ExecCall::running
\* expired   the call's deadline has passed
\* intr      the caller's query was interrupted
\* starts    history: how often each row was begun
\* stopped   history: rows that AbandonExecCall interrupted
\* late      history: rows not stopped, of which a statement began after that
NoCall == [at |-> "idle", skip |-> {}, stmts |-> 1, seen |-> 0, reserved |-> 0, started |-> 0, settled |-> 0,
           begun |-> FALSE, cursor |-> 0, row |-> 0, cancelled |-> FALSE, done |-> {}, open |-> {},
           expired |-> FALSE, intr |-> FALSE, starts |-> [r \in Rows |-> 0], stopped |-> {}, late |-> {}]

\* at      none, queued, settled, or the next piece of its step
\* own     the step is run by the caller
\* row     the row of its ExecOperation, 0 if it has none
\* conn    the operation has its connection
\* result  a statement is under way
\* stmt    statements finished
NoTask  == [at |-> "none", own |-> FALSE, row |-> 0, conn |-> FALSE, result |-> FALSE, stmt |-> 0]
Queued  == [NoTask EXCEPT !.at = "queued"]
Settled == [NoTask EXCEPT !.at = "settled"]

Over == {"returned", "threw", "closing", "closed"}
Steps == {"claim", "check", "connect", "submit", "execute"}
Active(c) == call[c].at \notin {"idle"} \cup Over
Todo(c) == Rows \ (call[c].skip \cup call[c].done)

-----------------------------------------------------------------------------
(* The caller.                                                             *)

Caller(c, q) == call' = [call EXCEPT ![c] = q] /\ UNCHANGED task
Goto(c, label) == Caller(c, [call[c] EXCEPT !.at = label]) /\ UNCHANGED running

\* A bound policy answers every row with 403.
Denied(c) ==
  /\ call[c].at = "idle"
  /\ Caller(c, [call[c] EXCEPT !.skip = Rows, !.at = "returned"]) /\ UNCHANGED running

\* A call without rows, inside a native task or with one thread runs inline.
Begin(c, inline) ==
  /\ call[c].at = "idle"
  /\ Goto(c, IF inline \/ call[c].skip = Rows THEN "inline" ELSE "load")

\* ReserveExecTasks loads the counter ...
ReserveLoad(c) ==
  /\ call[c].at = "load"
  /\ Caller(c, [call[c] EXCEPT !.at = "cas", !.seen = running]) /\ UNCHANGED running

Wanted(c) == Min({N - Cardinality(call[c].skip), MaxFanout})

\* Mutant: the counter is stored, not compared.
ReserveStore(c) ==
  LET take == Min({Cap - call[c].seen, Wanted(c)}) IN
  /\ call[c].at = "cas"
  /\ IF take <= 0
       THEN Caller(c, [call[c] EXCEPT !.at = "inline", !.seen = 0]) /\ UNCHANGED running
       ELSE /\ running' = call[c].seen + take
            /\ Caller(c, [call[c] EXCEPT !.at = "create", !.seen = 0, !.reserved = take])

\* ... and raises it if it has not changed since, never above the cap.
ReserveCas(c) ==
  LET take == Min({Cap - call[c].seen, Wanted(c)}) IN
  /\ call[c].at = "cas"
  /\ IF take <= 0 THEN Caller(c, [call[c] EXCEPT !.at = "inline", !.seen = 0]) /\ UNCHANGED running
     ELSE IF running = call[c].seen
     THEN /\ running' = running + take
          /\ Caller(c, [call[c] EXCEPT !.at = "create", !.seen = 0, !.reserved = take])
     ELSE Caller(c, [call[c] EXCEPT !.seen = running]) /\ UNCHANGED running

Create(c) == call[c].at = "create" /\ Goto(c, "schedule")

\* The executor cannot be made: the reservation is given back.
CreateFails(c) ==
  /\ call[c].at = "create"
  /\ running' = running - call[c].reserved
  /\ Caller(c, [call[c] EXCEPT !.at = "threw", !.reserved = 0])

Schedule(c) ==
  LET k == call[c].started + 1 IN
  /\ call[c].at = "schedule"
  /\ call' = [call EXCEPT ![c].started = k, ![c].at = IF k = call[c].reserved THEN "wait" ELSE "schedule"]
  /\ task' = [task EXCEPT ![c][k] = Queued]
  /\ UNCHANGED running

\* The task cannot be made, or it is made and the scheduler refuses it: its
\* destructor settles it.  The rest of the reservation is given back.
ScheduleFails(c, made) ==
  LET k == call[c].started + (IF made THEN 1 ELSE 0) IN
  /\ call[c].at = "schedule"
  /\ running' = running - (call[c].reserved - call[c].started)
  /\ call' = [call EXCEPT ![c] = [call[c] EXCEPT !.started = k, !.reserved = k,
                !.settled = @ + (IF made THEN 1 ELSE 0), !.at = IF k = 0 THEN "inline" ELSE "wait"]]
  /\ task' = IF made THEN [task EXCEPT ![c][k] = Settled] ELSE task

\* RunExecRow on the caller's thread: the rows not done yet, in order.
RunExecRow(c) ==
  LET r == Min(Todo(c)) IN
  /\ call[c].at \in {"inline", "rest"} /\ call[c].row = 0
  /\ call[c].at = "inline" => ~call[c].intr
  /\ Todo(c) # {}
  /\ Caller(c, [call[c] EXCEPT !.row = r, !.starts[r] = @ + 1]) /\ UNCHANGED running

RowEnds(c) ==
  /\ call[c].row # 0
  /\ Caller(c, [call[c] EXCEPT !.row = 0, !.done = @ \cup {call[c].row}]) /\ UNCHANGED running

\* The loop of the inline path sees an interrupt before each row.
InlineInterrupted(c) == call[c].at = "inline" /\ call[c].row = 0 /\ call[c].intr /\ Goto(c, "threw")
InlineDone(c) ==
  /\ call[c].at \in {"inline", "rest"} /\ call[c].row = 0
  /\ Todo(c) = {}
  /\ call[c].at = "inline" => ~call[c].intr
  /\ Goto(c, "answer")

AllSettled(c) == call[c].settled = call[c].started

\* Mutant: the rows without a receipt are not looked for.
TasksDoneAnswer(c) == call[c].at = "wait" /\ AllSettled(c) /\ Goto(c, "answer")

\* A call whose tasks are all settled goes on to the rows without a receipt.
TasksDone(c) == call[c].at = "wait" /\ AllSettled(c) /\ Goto(c, "rest")

\* AbandonExecCall: cancelled, and the open connections are interrupted.  The
\* mutex is free for a moment before; a task that settles in it leaves less to
\* stop.
Abandon(c, label) ==
  /\ Caller(c, [call[c] EXCEPT !.cancelled = TRUE, !.stopped = call[c].open, !.at = label])
  /\ UNCHANGED running

GiveUpInterrupted(c) == call[c].at = "wait" /\ ~AllSettled(c) /\ call[c].intr /\ Abandon(c, "threw")
GiveUpExpired(c) ==
  /\ call[c].at = "wait" /\ ~AllSettled(c)
  /\ ~call[c].intr /\ call[c].expired
  /\ Abandon(c, "answer")

\* Mutant: the caller only waits.
HelpNot(c) == FALSE /\ Goto(c, "help")

\* Nobody has begun a task: the caller works on them, until all are settled.
Help(c) == call[c].at = "wait" /\ ~AllSettled(c) /\ ~call[c].begun /\ Goto(c, "help")
HelpDone(c) == call[c].at = "help" /\ AllSettled(c) /\ Goto(c, "wait")

\* Rows without a receipt are answered as timed out.
Answer(c) == call[c].at = "answer" /\ Goto(c, IF call[c].intr THEN "threw" ELSE "returned")

\* The caller's connection goes: ~ExecAbandonedRows cancels and drains.
Teardown(c) == call[c].at \in {"returned", "threw"} /\ Goto(c, "closing")
Drained(c) ==
  /\ call[c].at = "closing"
  /\ \A k \in Tasks : task[c][k].at \in {"none", "settled"}
  /\ call' = [call EXCEPT ![c] = [NoCall EXCEPT !.at = "closed"]]
  /\ task' = [task EXCEPT ![c] = [k \in Tasks |-> NoTask]]
  /\ UNCHANGED running

-----------------------------------------------------------------------------
(* A task.                                                                 *)

Settle(c, k) ==
  /\ running' = running - 1
  /\ task' = [task EXCEPT ![c][k] = Settled]
  /\ call' = [call EXCEPT ![c] = [call[c] EXCEPT !.settled = @ + 1, !.begun = TRUE, !.open = @ \ {task[c][k].row}]]

Task(c, k, t) == task' = [task EXCEPT ![c][k] = t] /\ UNCHANGED running

\* ExecuteTaskStep: an abandoned call's task ends.
BeginStep(c, k, own) ==
  /\ task[c][k].at = "queued"
  /\ IF call[c].cancelled
       THEN Settle(c, k)
       ELSE /\ Task(c, k, [task[c][k] EXCEPT !.at = IF task[c][k].row = 0 THEN "claim" ELSE "check",
                                             !.own = own])
            /\ call' = [call EXCEPT ![c].begun = TRUE]

\* cursor.fetch_add(1), past the rows that are skipped.
Claim(c, k) ==
  LET i == call[c].cursor + 1 IN
  /\ task[c][k].at = "claim"
  /\ IF i > N THEN Settle(c, k)
     ELSE /\ call' = [call EXCEPT ![c].cursor = i]
          /\ Task(c, k, [task[c][k] EXCEPT !.at = IF i \in call[c].skip THEN "claim" ELSE "check",
                                           !.row = IF i \in call[c].skip THEN 0 ELSE i])

\* Mutant: the receipt is not marked as done.
FinishUnmarked(c, k) ==
  /\ Task(c, k, Queued)
  /\ call' = [call EXCEPT ![c] = [call[c] EXCEPT !.open = @ \ {task[c][k].row}]]

\* The row has its receipt and the operation is destroyed.
Finish(c, k) ==
  /\ Task(c, k, Queued)
  /\ call' = [call EXCEPT ![c] = [call[c] EXCEPT !.done = @ \cup {task[c][k].row}, !.open = @ \ {task[c][k].row}]]

\* ExecOperation::Step: cancelled and the deadline are looked at once.
Check(c, k) ==
  /\ task[c][k].at = "check"
  /\ IF call[c].cancelled \/ call[c].expired
       THEN Finish(c, k)
       ELSE /\ Task(c, k, [task[c][k] EXCEPT !.at =
                  IF ~task[c][k].conn THEN "connect" ELSE IF task[c][k].result THEN "execute" ELSE "submit"])
            /\ UNCHANGED call

\* The connection is opened and put into ExecCall::running.
Connect(c, k) ==
  /\ task[c][k].at = "connect"
  /\ Task(c, k, [task[c][k] EXCEPT !.at = "submit", !.conn = TRUE])
  /\ call' = [call EXCEPT ![c].open = @ \cup {task[c][k].row}]

\* A null byte, no statement or an exception.
ConnectFails(c, k) == task[c][k].at = "connect" /\ Finish(c, k)

Submit(c, k) ==
  LET r == task[c][k].row IN
  /\ task[c][k].at = "submit"
  /\ Task(c, k, [task[c][k] EXCEPT !.at = "execute", !.result = TRUE])
  /\ call' = [call EXCEPT ![c] = [call[c] EXCEPT !.starts[r] = @ + (IF task[c][k].stmt = 0 THEN 1 ELSE 0),
                                           !.late = @ \cup (IF call[c].cancelled THEN {r} \ call[c].stopped ELSE {})]]

\* One task of the engine: the statement is not finished,
ExecuteMore(c, k) ==
  /\ task[c][k].at = "execute"
  /\ Task(c, k, [task[c][k] EXCEPT !.at = "queued", !.own = FALSE]) /\ UNCHANGED call
\* it is, and another one follows,
ExecuteNext(c, k) ==
  /\ task[c][k].at = "execute"
  /\ task[c][k].stmt + 1 < call[c].stmts
  /\ Task(c, k, [task[c][k] EXCEPT !.at = "queued", !.own = FALSE, !.result = FALSE, !.stmt = @ + 1]) /\ UNCHANGED call
\* or it was the last, or it failed.
ExecuteLast(c, k) == task[c][k].at = "execute" /\ Finish(c, k)

\* BaseExecutorTask::Cancel, when the caller's connection goes.
Cancel(c, k) == call[c].at = "closing" /\ task[c][k].at = "queued" /\ Settle(c, k)

-----------------------------------------------------------------------------
(* The environment.                                                        *)

Expire(c) ==
  /\ Active(c) /\ ~call[c].expired
  /\ Caller(c, [call[c] EXCEPT !.expired = TRUE]) /\ UNCHANGED running
Interrupt(c) ==
  /\ Active(c) /\ ~call[c].intr
  /\ Caller(c, [call[c] EXCEPT !.intr = TRUE]) /\ UNCHANGED running

Init ==
  /\ running = 0
  /\ \E w \in Workloads :
       call = [c \in Calls |-> IF c \in DOMAIN w THEN [NoCall EXCEPT !.skip = w[c].nulls, !.stmts = w[c].stmts]
                               ELSE [NoCall EXCEPT !.at = "closed"]]
  /\ task = [c \in Calls |-> [k \in Tasks |-> NoTask]]

\* A thread is in no call and in no step.
FreeThread ==
  Cardinality({c \in Calls : Active(c)})
    + Cardinality({p \in Calls \X Tasks : task[p[1]][p[2]].at \in Steps /\ ~task[p[1]][p[2]].own}) < Threads

Start(c) ==
  /\ FreeThread
  /\ Denied(c) \/ \E inline \in BOOLEAN : Begin(c, inline)

Advance(c) ==
  \/ ReserveLoad(c) \/ ReserveCas(c) \/ Create(c) \/ CreateFails(c) \/ Schedule(c)
  \/ \E made \in BOOLEAN : ScheduleFails(c, made)
  \/ RunExecRow(c) \/ RowEnds(c) \/ InlineInterrupted(c) \/ InlineDone(c)
  \/ TasksDone(c) \/ GiveUpInterrupted(c) \/ GiveUpExpired(c) \/ Help(c) \/ HelpDone(c)
  \/ Answer(c) \/ Drained(c)

\* A free thread takes a task of any call; a caller that helps takes its own,
\* one at a time.
Take(c, k) ==
  \/ FreeThread /\ BeginStep(c, k, FALSE)
  \/ /\ call[c].at = "help" /\ \A j \in Tasks : ~task[c][j].own
     /\ BeginStep(c, k, TRUE)

Executed(c, k) == ExecuteNext(c, k) \/ ExecuteLast(c, k)
Work(c, k) ==
  \/ Claim(c, k) \/ Check(c, k) \/ Connect(c, k) \/ ConnectFails(c, k) \/ Submit(c, k)
  \/ ExecuteMore(c, k) \/ Executed(c, k)

Next ==
  \E c \in Calls :
    \/ Start(c) \/ Advance(c) \/ Teardown(c) \/ Expire(c) \/ Interrupt(c)
    \/ \E k \in Tasks : Take(c, k) \/ Work(c, k) \/ Cancel(c, k)

Spec == Init /\ [][Next]_vars

\* Threads run, and the scheduler hands out every queued task while a thread
\* is free.  No deadline need pass and nothing need be interrupted.
ThreadsRun ==
  \A c \in Calls :
    /\ WF_vars(Advance(c))
    /\ \A k \in Tasks : WF_vars(Take(c, k) \/ Work(c, k) \/ Cancel(c, k))

\* A statement consists of finitely many tasks of the engine.  Nothing is assumed
\* of the statements of a call that was abandoned.
StatementsEnd == \A c \in Calls : \A k \in Tasks : SF_vars(~call[c].cancelled /\ Executed(c, k))

FairSpec == Spec /\ ThreadsRun /\ StatementsEnd

-----------------------------------------------------------------------------
(* Properties.                                                             *)

\* A row is executed at most once: not by two tasks, and not by a task and
\* again by the caller, which runs the rows it finds without a receipt after
\* its tasks are settled (ExecScalar).
EachRowOnce == \A c \in Calls : \A r \in Rows : call[c].starts[r] <= 1

\* The tasks of a call that exec_tasks_running admits: those not yet settled, and
\* those reserved and not yet made.
Admitted(c) ==
  {k \in Tasks :
     \/ task[c][k].at \notin {"none", "settled"}
     \/ call[c].at \in {"create", "schedule"} /\ call[c].started < k /\ k <= call[c].reserved}

\* exec_tasks_running counts exactly the admitted tasks of all calls, through
\* failed executors, refused tasks, abandoned calls and cancelled tasks, and
\* concurrent calls never pass quackapi_selfdispatch_max_threads together
\* (ReserveExecTasks).
ReservationsBalanced ==
  /\ running = Cardinality({p \in Calls \X Tasks : p[2] \in Admitted(p[1])})
  /\ running \in 0..Cap

\* A call returns a row as timed out only if its deadline has passed: whatever
\* the scheduler refused, the caller has run itself (ExecScalar).
TimeoutIsTrue == \A c \in Calls : call[c].at = "returned" /\ Todo(c) # {} => call[c].expired

\* What the comment on AbandonExecCall says: "no row or statement starts after
\* this, and every running row is interrupted".
NothingStartsAfterAbandon == \A c \in Calls : call[c].late = {}

\* A call returns though every thread of the scheduler may be a caller that
\* waits for its tasks, and though no deadline passes: then the callers work
\* on their tasks themselves (ExecScalar).  And a connection that goes drains
\* although a statement of an abandoned row may never end: the tasks see that
\* the call was abandoned (~ExecAbandonedRows).
Ends(c) == (Active(c) \/ call[c].at = "closing") ~> call[c].at \in {"returned", "threw", "closed"}
=============================================================================
