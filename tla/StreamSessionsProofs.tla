------------------------ MODULE StreamSessionsProofs ------------------------
(***************************************************************************)
(* The session slots and the access-log rows of a server with any number   *)
(* of workers.                                                             *)
(*                                                                         *)
(* The inductive invariant says of each worker by itself whether it owns a *)
(* slot and a row at its place in the code (Sound), and of the counter     *)
(* that it is the number of workers that have raised it (Counted).  The    *)
(* two cardinalities of SlotsCounted are one here, since a worker that is  *)
(* about to refuse holds no slot.                                          *)
(***************************************************************************)
EXTENDS StreamSessions, FiniteSetTheorems, TLAPS

Kinds == {"none", "http", "sse", "ws", "upgraded"}
Logs == 0..1
WorkerType == [at : Labels, kind : Kinds, slot : BOOLEAN, logs : Logs]

Early  == {"connection", "http", "check", "over"}
Owning == {"prepare", "handshake", "open", "closing"}

\* What a worker holds and has logged at each place.
Sound(q) ==
  /\ q \in WorkerType
  /\ q.at = "idle" \/ q.at \in Early => ~q.slot
  /\ q.at \in Owning => q.slot
  /\ q.at \in Early \cup {"prepare", "handshake", "open"} => q.logs = 0
  /\ q.at = "closing" => q.logs = 1
  /\ q.at = "leaving" => (q.logs = 0 <=> q.slot)

\* Units of the counter that are due to a worker.
Units(q) == IF q.slot \/ q.at = "over" THEN 1 ELSE 0

Counting == {w \in Workers : Units(worker[w]) = 1}

Inv ==
  /\ running \in BOOLEAN
  /\ socket \in {"open", "closed", "joined"}
  /\ queue \in 0..MaxQueued
  /\ arrived \in 0..MaxConnections
  /\ worker \in [Workers -> WorkerType]
  /\ \A w \in Workers : Sound(worker[w])
  /\ sessions = Cardinality(Counting)
  /\ Cardinality(Holding) <= SessionLimit

\* Sets of workers are finite, and those that count are those that hold a slot or refuse.
LEMMA CountingSplit ==
  ASSUME Inv
  PROVE  /\ IsFiniteSet(Counting) /\ IsFiniteSet(Holding) /\ IsFiniteSet({w \in Workers : worker[w].at = "over"})
         /\ Cardinality(Counting) \in Nat
         /\ Cardinality(Counting) = Cardinality(Holding) + Cardinality({w \in Workers : worker[w].at = "over"})
         /\ Cardinality(Holding) \in Nat
         /\ Cardinality(Counting) <= Cardinality(Workers)
         /\ Cardinality(Holding) <= Cardinality(Counting)
<1> DEFINE Over == {w \in Workers : worker[w].at = "over"}
<1>1. IsFiniteSet(Workers)
  BY SessionAssumption
<1>2. Counting \in SUBSET Workers /\ Holding \in SUBSET Workers /\ Over \in SUBSET Workers
  BY DEF Counting, Holding
<1>3. IsFiniteSet(Counting) /\ IsFiniteSet(Holding) /\ IsFiniteSet(Over) /\ Cardinality(Counting) <= Cardinality(Workers)
  BY <1>1, <1>2, FS_Subset
<1>4. Counting = Holding \cup Over /\ Holding \cap Over = {}
  BY DEF Inv, Counting, Holding, Units, Sound, Early
<1>5. Cardinality(Counting) = Cardinality(Holding) + Cardinality(Over) - Cardinality(Holding \cap Over)
  BY <1>3, <1>4, FS_Union
<1>6. Cardinality(Holding \cap Over) = 0
  BY <1>4, FS_EmptySet
<1>7. Cardinality(Counting) \in Nat /\ Cardinality(Holding) \in Nat /\ Cardinality(Over) \in Nat
  BY <1>3, FS_CardinalityType
<1> QED
  BY <1>3, <1>5, <1>6, <1>7

\* A worker goes on as q, and the counter moves by what q has more than it had.
LEMMA StepInv ==
  ASSUME Inv, NEW w \in Workers, NEW q, Sound(q),
         worker' = [worker EXCEPT ![w] = q],
         sessions' = sessions + Units(q) - Units(worker[w]),
         q.slot /\ ~worker[w].slot => sessions < SessionLimit,
         running' \in BOOLEAN, socket' \in {"open", "closed", "joined"},
         queue' \in 0..MaxQueued, arrived' \in 0..MaxConnections
  PROVE  Inv'
<1>1. worker' \in [Workers -> WorkerType] /\ worker'[w] = q /\ \A v \in Workers \ {w} : worker'[v] = worker[v]
  BY DEF Inv, Sound
<1>2. \A v \in Workers : Sound(worker[v])'
  BY <1>1 DEF Inv, Sound
<1>3. sessions' = Cardinality(Counting')
  <2>1. Counting' = IF Units(q) = 1 THEN Counting \cup {w} ELSE Counting \ {w}
    BY <1>1 DEF Counting, Units
  <2>2. w \in Counting <=> Units(worker[w]) = 1
    BY DEF Counting
  <2>3. Units(q) \in {0, 1} /\ Units(worker[w]) \in {0, 1}
    BY DEF Units
  <2>4. /\ Cardinality(Counting \cup {w}) = IF w \in Counting THEN Cardinality(Counting) ELSE Cardinality(Counting) + 1
        /\ Cardinality(Counting \ {w}) = IF w \in Counting THEN Cardinality(Counting) - 1 ELSE Cardinality(Counting)
    BY CountingSplit, FS_AddElement, FS_RemoveElement
  <2> QED
    BY <2>1, <2>2, <2>3, <2>4, CountingSplit DEF Inv
<1>4. Cardinality(Holding') <= SessionLimit
  <2>1. Holding' = IF q.slot THEN Holding \cup {w} ELSE Holding \ {w}
    BY <1>1 DEF Holding
  <2>2. w \in Holding <=> worker[w].slot
    BY DEF Holding
  <2>3. /\ Cardinality(Holding \cup {w}) = IF w \in Holding THEN Cardinality(Holding) ELSE Cardinality(Holding) + 1
        /\ Cardinality(Holding \ {w}) = IF w \in Holding THEN Cardinality(Holding) - 1 ELSE Cardinality(Holding)
    BY CountingSplit, FS_AddElement, FS_RemoveElement
  <2>4. SessionLimit \in Int
    BY SessionAssumption, FS_CardinalityType DEF SessionLimit
  <2>5. Cardinality(Holding) <= sessions /\ Cardinality(Holding) \in Nat /\ sessions \in Nat
    BY CountingSplit DEF Inv
  <2> QED
    BY <2>1, <2>2, <2>3, <2>4, <2>5 DEF Inv
<1>5. SessionLimit' = SessionLimit
  BY DEF SessionLimit
<1> QED
  BY <1>1, <1>2, <1>3, <1>4, <1>5 DEF Inv

\* Steps that leave the counter to Release.
LEMMA ReleaseInv ==
  ASSUME Inv, NEW w \in Workers, NEW q, Sound(q), Release(w, q),
         q.at # "over" /\ worker[w].at # "over",
         q.slot => worker[w].slot
  PROVE  Inv'
<1>1. sessions \in Nat
  BY CountingSplit DEF Inv
<1>2. sessions' = sessions + Units(q) - Units(worker[w])
  BY <1>1 DEF Release, Units
<1> QED
  BY <1>2, StepInv DEF Release, Step, Inv

\* Init and what follows from the invariant.
LEMMA InitInv == Init => Inv
<1> SUFFICES ASSUME Init PROVE Inv
  OBVIOUS
<1>1. worker = [w \in Workers |-> Idle]
  BY DEF Init
<1>2. Sound(Idle)
  BY DEF Sound, Idle, WorkerType, Labels, Kinds, Logs, Early, Owning
<1>3. Counting = {} /\ Holding = {}
  BY <1>1 DEF Counting, Holding, Units, Idle
<1>4. Cardinality(Workers) \in Nat
  BY SessionAssumption, FS_CardinalityType
<1>5. SessionLimit >= 0
  BY <1>4 DEF SessionLimit
<1> QED
  BY <1>1, <1>2, <1>3, <1>5, FS_EmptySet, SessionAssumption DEF Init, Inv, Sound

\* One step per action.
LEMMA NextInv ==
  ASSUME Inv, [Next]_vars
  PROVE  Inv'
<1>1. CASE Accept
  BY <1>1, SessionAssumption DEF Inv, Accept, Counting, Holding, SessionLimit, Sound, Units
<1>2. ASSUME NEW w \in Workers, Take(w) PROVE Inv'
  <2> DEFINE q == [worker[w] EXCEPT !.at = "connection"]
  <2>1. worker[w] \in WorkerType /\ worker[w] = Idle
    BY <1>2 DEF Inv, Take
  <2>2. q \in WorkerType
    BY <2>1 DEF WorkerType, Labels
  <2>3. Sound(q) /\ ~q.slot /\ Units(q) = 0 /\ Units(worker[w]) = 0
    BY <2>1, <2>2 DEF Idle, Units, Sound, WorkerType, Early, Owning
  <2>4. sessions' = sessions + Units(q) - Units(worker[w])
    BY <1>2, <2>3, CountingSplit DEF Take, Inv
  <2>5. queue' \in 0..MaxQueued
    BY <1>2, SessionAssumption DEF Take, Inv
  <2> QED
    BY <1>2, <2>3, <2>4, <2>5, StepInv DEF Take, Inv
<1>3. ASSUME NEW w \in Workers, Hangup(w) PROVE Inv'
  <2> DEFINE q == [worker[w] EXCEPT !.at = "idle"]
  <2>1. worker[w] \in WorkerType /\ Sound(worker[w])
    BY DEF Inv
  <2>2. "idle" \in Labels
    BY <1>3, <2>1 DEF Hangup, Sound, Early, Labels, Kinds, Logs
  <2>3. q \in WorkerType
    BY <2>1, <2>2 DEF WorkerType
  <2>4. Sound(q)
    BY <1>3, <2>1, <2>3 DEF Hangup, Sound, WorkerType, Early, Owning
  <2> QED
    BY <1>3, <2>4, ReleaseInv DEF Hangup, Inv, WorkerType
<1>4. ASSUME NEW w \in Workers, Serve(w) PROVE Inv'
  <2> DEFINE q == [worker[w] EXCEPT !.at = "leaving", !.logs = @ + 1]
  <2>1. worker[w] \in WorkerType /\ Sound(worker[w])
    BY DEF Inv
  <2>2. "leaving" \in Labels /\ worker[w].logs + 1 \in Logs
    BY <1>4, <2>1 DEF Serve, Sound, Early, Labels, Kinds, Logs
  <2>3. q \in WorkerType
    BY <2>1, <2>2 DEF WorkerType
  <2>4. Sound(q)
    BY <1>4, <2>1, <2>3 DEF Serve, Sound, WorkerType, Early, Owning
  <2> QED
    BY <1>4, <2>4, ReleaseInv DEF Serve, Inv, WorkerType
<1>5. ASSUME NEW w \in Workers, NEW kind \in {"http", "sse", "ws"}, Request(w, kind) PROVE Inv'
  <2> DEFINE at == IF kind = "http" THEN "http" ELSE "check"
             q == [Idle EXCEPT !.at = at, !.kind = kind]
  <2>1. at \in Labels /\ kind \in Kinds /\ Idle \in WorkerType /\ at \in Early \ {"over"}
    BY DEF Labels, Kinds, Logs, Idle, WorkerType, Early
  <2> HIDE DEF at
  <2>2. q \in WorkerType
    BY <2>1 DEF WorkerType
  <2>3. q.at = at /\ q.slot = FALSE /\ q.logs = 0
    BY DEF Idle
  <2>4. Sound(q)
    BY <2>1, <2>2, <2>3 DEF Sound, Early, Owning
  <2> QED
    BY <1>5, <2>1, <2>3, <2>4, ReleaseInv DEF Request, Inv, at, Early
<1>6. ASSUME NEW w \in Workers, Decline(w) PROVE Inv'
  <2> DEFINE q == [worker[w] EXCEPT !.at = "leaving", !.logs = @ + 1]
  <2>1. worker[w] \in WorkerType /\ Sound(worker[w])
    BY DEF Inv
  <2>2. "leaving" \in Labels /\ worker[w].logs + 1 \in Logs
    BY <1>6, <2>1 DEF Decline, Sound, Early, Labels, Kinds, Logs
  <2>3. q \in WorkerType
    BY <2>1, <2>2 DEF WorkerType
  <2>4. Sound(q)
    BY <1>6, <2>1, <2>3 DEF Decline, Sound, WorkerType, Early, Owning
  <2> QED
    BY <1>6, <2>4, ReleaseInv DEF Decline, Inv, WorkerType
<1>7. ASSUME NEW w \in Workers, Acquire(w) PROVE Inv'
  <2>1. /\ worker[w] \in WorkerType /\ worker[w].at = "check" /\ ~worker[w].slot /\ worker[w].logs = 0
        /\ "over" \in Labels /\ "prepare" \in Labels
    BY <1>7 DEF Inv, Sound, Acquire, Early, Labels
  <2>2. sessions \in Nat /\ sessions' = sessions + 1
    BY <1>7, CountingSplit DEF Acquire, Inv
  <2>3. CASE sessions >= SessionLimit
    <3> DEFINE q == [worker[w] EXCEPT !.at = "over"]
    <3>1. q \in WorkerType
      BY <2>1 DEF WorkerType
    <3>2. Sound(q) /\ Units(q) = 1 /\ Units(worker[w]) = 0 /\ ~q.slot
      BY <2>1, <3>1 DEF Units, Sound, WorkerType, Early, Owning
    <3>3. worker' = [worker EXCEPT ![w] = q] /\ UNCHANGED <<running, socket, queue, arrived>>
      BY <1>7, <2>3 DEF Acquire, Step
    <3> HIDE DEF q
    <3>4. sessions' = sessions + Units(q) - Units(worker[w])
      BY <2>2, <3>2
    <3> QED
      BY <3>2, <3>3, <3>4, StepInv DEF Inv
  <2>4. CASE ~(sessions >= SessionLimit)
    <3> DEFINE q == [worker[w] EXCEPT !.at = "prepare", !.slot = TRUE]
    <3>1. q \in WorkerType
      BY <2>1 DEF WorkerType
    <3>2. Sound(q) /\ Units(q) = 1 /\ Units(worker[w]) = 0
      BY <2>1, <3>1 DEF Units, Sound, WorkerType, Early, Owning
    <3>3. worker' = [worker EXCEPT ![w] = q] /\ UNCHANGED <<running, socket, queue, arrived>>
      BY <1>7, <2>4 DEF Acquire, Step
    <3>4. sessions < SessionLimit
      BY <2>2, <2>4, SessionAssumption, FS_CardinalityType DEF SessionLimit
    <3> HIDE DEF q
    <3>5. sessions' = sessions + Units(q) - Units(worker[w])
      BY <2>2, <3>2
    <3> QED
      BY <3>2, <3>3, <3>4, <3>5, StepInv DEF Inv
  <2> QED
    BY <2>3, <2>4
<1>8. ASSUME NEW w \in Workers, Refuse(w) PROVE Inv'
  <2> DEFINE q == [worker[w] EXCEPT !.at = "leaving", !.logs = @ + 1]
  <2>1. worker[w] \in WorkerType /\ Sound(worker[w])
    BY DEF Inv
  <2>2. "leaving" \in Labels /\ worker[w].logs + 1 \in Logs
    BY <1>8, <2>1 DEF Refuse, Sound, Early, Labels, Logs
  <2>3. q \in WorkerType
    BY <2>1, <2>2 DEF WorkerType
  <2>4. Sound(q) /\ ~q.slot /\ Units(q) = 0 /\ Units(worker[w]) = 1
    BY <1>8, <2>1, <2>3 DEF Refuse, Sound, WorkerType, Units, Early, Owning
  <2>5. sessions' = sessions + Units(q) - Units(worker[w])
    BY <1>8, <2>4, CountingSplit DEF Refuse, Inv
  <2> QED
    BY <1>8, <2>4, <2>5, StepInv DEF Refuse, Step, Inv
<1>9. ASSUME NEW w \in Workers, PrepareFails(w) PROVE Inv'
  <2> DEFINE q == [worker[w] EXCEPT !.at = "leaving", !.logs = @ + 1, !.slot = FALSE]
  <2>1. worker[w] \in WorkerType /\ Sound(worker[w])
    BY DEF Inv
  <2>2. "leaving" \in Labels /\ worker[w].logs + 1 \in Logs
    BY <1>9, <2>1 DEF PrepareFails, Sound, Early, Labels, Kinds, Logs
  <2>3. q \in WorkerType
    BY <2>1, <2>2 DEF WorkerType
  <2>4. Sound(q)
    BY <1>9, <2>1, <2>3 DEF PrepareFails, Sound, WorkerType, Early, Owning
  <2> QED
    BY <1>9, <2>4, ReleaseInv DEF PrepareFails, Inv, WorkerType
<1>10. ASSUME NEW w \in Workers, Prepared(w) PROVE Inv'
  <2> DEFINE q == [worker[w] EXCEPT !.at = IF worker[w].kind = "ws" THEN "handshake" ELSE "open"]
  <2>1. worker[w] \in WorkerType /\ Sound(worker[w])
    BY DEF Inv
  <2>2. "handshake" \in Labels /\ "open" \in Labels
    BY <1>10, <2>1 DEF Prepared, Sound, Early, Labels, Kinds, Logs
  <2>3. q \in WorkerType
    BY <2>1, <2>2 DEF WorkerType
  <2>4. Sound(q)
    BY <1>10, <2>1, <2>3 DEF Prepared, Sound, WorkerType, Early, Owning
  <2> QED
    BY <1>10, <2>4, ReleaseInv DEF Prepared, Inv, WorkerType
<1>11. ASSUME NEW w \in Workers, HandshakeFails(w) PROVE Inv'
  <2> DEFINE q == [worker[w] EXCEPT !.at = "leaving", !.kind = "upgraded"]
  <2>1. worker[w] \in WorkerType /\ Sound(worker[w])
    BY DEF Inv
  <2>2. "leaving" \in Labels /\ "upgraded" \in Kinds
    BY <1>11, <2>1 DEF HandshakeFails, Sound, Early, Labels, Kinds, Logs
  <2>3. q \in WorkerType
    BY <2>1, <2>2 DEF WorkerType
  <2>4. Sound(q)
    BY <1>11, <2>1, <2>3 DEF HandshakeFails, Sound, WorkerType, Early, Owning
  <2> QED
    BY <1>11, <2>4, ReleaseInv DEF HandshakeFails, Inv, WorkerType
<1>12. ASSUME NEW w \in Workers, HandleWebSocket(w) PROVE Inv'
  <2> DEFINE q == [worker[w] EXCEPT !.at = "open", !.kind = "upgraded"]
  <2>1. worker[w] \in WorkerType /\ Sound(worker[w])
    BY DEF Inv
  <2>2. "open" \in Labels /\ "upgraded" \in Kinds
    BY <1>12, <2>1 DEF HandleWebSocket, Sound, Early, Labels, Kinds, Logs
  <2>3. q \in WorkerType
    BY <2>1, <2>2 DEF WorkerType
  <2>4. Sound(q)
    BY <1>12, <2>1, <2>3 DEF HandleWebSocket, Sound, WorkerType, Early, Owning
  <2> QED
    BY <1>12, <2>4, ReleaseInv DEF HandleWebSocket, Inv, WorkerType
<1>13. ASSUME NEW w \in Workers, SessionEnds(w) PROVE Inv'
  <2> DEFINE q == [worker[w] EXCEPT !.at = "closing", !.logs = @ + 1]
  <2>1. worker[w] \in WorkerType /\ Sound(worker[w])
    BY DEF Inv
  <2>2. "closing" \in Labels /\ worker[w].logs + 1 \in Logs
    BY <1>13, <2>1 DEF SessionEnds, Sound, Early, Labels, Kinds, Logs
  <2>3. q \in WorkerType
    BY <2>1, <2>2 DEF WorkerType
  <2>4. Sound(q)
    BY <1>13, <2>1, <2>3 DEF SessionEnds, Sound, WorkerType, Early, Owning
  <2> QED
    BY <1>13, <2>4, ReleaseInv DEF SessionEnds, Inv, WorkerType
<1>14. ASSUME NEW w \in Workers, Close(w) PROVE Inv'
  <2> DEFINE q == [worker[w] EXCEPT !.at = "leaving", !.slot = FALSE]
  <2>1. worker[w] \in WorkerType /\ Sound(worker[w])
    BY DEF Inv
  <2>2. "leaving" \in Labels
    BY <1>14, <2>1 DEF Close, Sound, Early, Labels, Kinds, Logs
  <2>3. q \in WorkerType
    BY <2>1, <2>2 DEF WorkerType
  <2>4. Sound(q)
    BY <1>14, <2>1, <2>3 DEF Close, Sound, WorkerType, Early, Owning
  <2> QED
    BY <1>14, <2>4, ReleaseInv DEF Close, Inv, WorkerType
<1>15. ASSUME NEW w \in Workers, Leave(w) PROVE Inv'
  <2>1. PICK at \in {"connection", "idle"} : Release(w, [Idle EXCEPT !.at = at])
    BY <1>15 DEF Leave
  <2> DEFINE q == [Idle EXCEPT !.at = at]
  <2>2. q.at = at /\ q.slot = FALSE /\ q.logs = 0 /\ q.kind = "none"
    BY DEF Idle
  <2>3. q \in WorkerType
    <3>1. at \in Labels /\ Idle \in WorkerType
      BY DEF Idle, WorkerType, Labels, Kinds, Logs
    <3> QED
      BY <3>1 DEF WorkerType
  <2>4. Sound(q)
    BY <2>2, <2>3 DEF Sound, Early, Owning
  <2> QED
    BY <1>15, <2>1, <2>2, <2>4, ReleaseInv DEF Leave, Inv
<1>16. CASE StopAccepting \/ CloseSocket \/ Join
  BY <1>16 DEF Inv, StopAccepting, CloseSocket, Join, Counting, Holding, SessionLimit, Sound, Units
<1>17. CASE UNCHANGED vars
  BY <1>17 DEF Inv, vars, Counting, Holding, SessionLimit, Sound, Units
<1>18. ASSUME NEW w \in Workers, NoticeStop(w) PROVE Inv'
  BY <1>13, <1>18 DEF NoticeStop
<1> QED
  BY <1>1, <1>2, <1>3, <1>4, <1>5, <1>6, <1>7, <1>8, <1>9, <1>10, <1>11, <1>12, <1>13, <1>14, <1>15,
     <1>16, <1>17, <1>18 DEF Next, Stream

\* The invariant holds in every reachable state.
THEOREM SessionsInv == Spec => []Inv
<1>1. Init => Inv
  BY InitInv
<1>2. Inv /\ [Next]_vars => Inv'
  BY NextInv
<1> QED
  BY <1>1, <1>2, PTL DEF Spec

\* Every variable keeps its type, the counter within the number of workers; no request is
\* logged twice.
THEOREM SessionsTypeOK == Spec => []TypeOK
<1>1. Inv => TypeOK
  <2> SUFFICES ASSUME Inv PROVE TypeOK
    OBVIOUS
  <2>1. sessions \in 0..Cardinality(Workers)
    BY CountingSplit, SessionAssumption, FS_CardinalityType DEF Inv
  <2> QED
    BY <2>1 DEF Inv, TypeOK, WorkerType, Kinds, Logs
<1> QED
  BY <1>1, SessionsInv, PTL

\* No exit path of a stream leaks a slot of websocket_sessions or gives one back twice.
THEOREM SessionSlotsCounted == Spec => []SlotsCounted
<1>1. Inv => SlotsCounted
  <2> SUFFICES ASSUME Inv PROVE SlotsCounted
    OBVIOUS
  <2>1. \A w \in Holding : worker[w].at \in Owning \cup {"leaving"}
    BY DEF Inv, Holding, Sound, WorkerType, Labels, Early, Owning
  <2> QED
    BY <2>1, CountingSplit DEF Inv, SlotsCounted, Owning
<1> QED
  BY <1>1, SessionsInv, PTL

\* A session is logged once, when it ends, and every answered request once.
THEOREM SessionLoggedOnce == Spec => []OneRowPerSession
<1>1. Inv => OneRowPerSession
  BY DEF Inv, OneRowPerSession, Sound, Early
<1> QED
  BY <1>1, SessionsInv, PTL

\* The counter is raised before it is compared, by any number of workers at once, and
\* still no more sessions are admitted than websocket_session_limit.
AdmittedWithinLimit == Cardinality(Holding) <= SessionLimit

\* Streams never take more workers than websocket_session_limit leaves them.
THEOREM SessionsWithinLimit == Spec => []AdmittedWithinLimit
<1>1. Inv => AdmittedWithinLimit
  BY DEF Inv, AdmittedWithinLimit
<1> QED
  BY <1>1, SessionsInv, PTL
=============================================================================
