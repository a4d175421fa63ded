--------------------------- MODULE StreamSessions ---------------------------
(***************************************************************************)
(* The worker pool of one server and the long-lived sessions on it: SSE    *)
(* and WebSocket streams share a counter that limits them, so that HTTP    *)
(* requests still find a worker (RejectWebSocket, HandleWebSocket, the     *)
(* stream path of HandleRequest, process_and_close_socket and the stop of  *)
(* a server: src/src/quackapi_server.cpp).                                 *)
(*                                                                         *)
(* The counter is an atomic that is raised first and compared afterwards;  *)
(* the slot a session holds is given back by a destructor.  Between the    *)
(* preparation of a WebSocket and its upgrade the slot sits in a           *)
(* thread-local variable of the worker.                                    *)
(***************************************************************************)
EXTENDS Integers, FiniteSets

CONSTANTS
  Workers,        \* threads of the fixed pool: worker_threads
  MaxQueued,      \* max_pending_requests
  MaxConnections  \* bound on the connections in a behaviour

ASSUME SessionAssumption ==
  /\ IsFiniteSet(Workers) /\ Workers # {}
  /\ MaxQueued \in Nat \ {0}
  /\ MaxConnections \in Nat

VARIABLES
  running,   \* is_running
  socket,    \* the listening socket: "open", "closed", "joined" (its thread ended)
  sessions,  \* websocket_sessions
  queue,     \* accepted connections without a worker
  arrived,   \* history: connections so far
  worker     \* what each worker does

vars == <<running, socket, sessions, queue, arrived, worker>>

\* at    idle; connection: waits for a request; http: an ordinary request;
\*       check, over, prepare, handshake, open, closing: a stream; leaving
\* kind  what the request asks for
\* slot  it holds a unit of the counter (session_count is set)
\* logs  history: access-log rows of the request
Idle == [at |-> "idle", kind |-> "none", slot |-> FALSE, logs |-> 0]

\* Mutant: every worker may be taken.
SessionLimitAll == Cardinality(Workers)

\* websocket_session_limit
SessionLimit == IF Cardinality(Workers) \div 2 > 1 THEN Cardinality(Workers) \div 2 ELSE 1

-----------------------------------------------------------------------------
Step(w, q) == worker' = [worker EXCEPT ![w] = q] /\ UNCHANGED <<running, socket, queue, arrived>>

\* w goes on as q; a slot it had and q has not is given back.
Release(w, q) ==
  /\ Step(w, q)
  /\ sessions' = IF worker[w].slot /\ ~q.slot THEN sessions - 1 ELSE sessions

\* httplib hands the connection to the pool, which refuses when it is full.
Accept ==
  /\ socket = "open"
  /\ arrived < MaxConnections
  /\ queue < MaxQueued
  /\ queue' = queue + 1
  /\ arrived' = arrived + 1
  /\ UNCHANGED <<running, socket, sessions, worker>>

\* Also after the stop: the pool drains its queue before it ends.
Take(w) ==
  /\ worker[w] = Idle
  /\ queue > 0
  /\ queue' = queue - 1
  /\ worker' = [worker EXCEPT ![w].at = "connection"]
  /\ UNCHANGED <<running, socket, sessions, arrived>>

\* A request arrives.  RejectWebSocket first drops what an earlier request may
\* have left in quackapi_pending_ws.
Request(w, kind) ==
  /\ worker[w].at = "connection"
  /\ socket = "open"
  /\ Release(w, [Idle EXCEPT !.at = IF kind = "http" THEN "http" ELSE "check", !.kind = kind])

\* The client leaves, the keep-alive ends, or the socket was closed.
Hangup(w) == worker[w].at = "connection" /\ Release(w, [worker[w] EXCEPT !.at = "idle"])

\* An ordinary request: RequestPipeline.
Serve(w) ==
  /\ worker[w].at = "http"
  /\ Release(w, [worker[w] EXCEPT !.at = "leaving", !.logs = @ + 1])

-----------------------------------------------------------------------------
(* A stream.                                                               *)

\* WebSocket: no such stream, foreign origin, database gone.  SSE: policy,
\* parameters, an error of the first execution, or HEAD.
Decline(w) ==
  /\ worker[w].at = "check"
  /\ Release(w, [worker[w] EXCEPT !.at = "leaving", !.logs = @ + 1])

\* websocket_sessions.fetch_add(1) >= websocket_session_limit
Acquire(w) ==
  /\ worker[w].at = "check"
  /\ sessions' = sessions + 1
  /\ IF sessions >= SessionLimit
       THEN Step(w, [worker[w] EXCEPT !.at = "over"])
       ELSE Step(w, [worker[w] EXCEPT !.at = "prepare", !.slot = TRUE])

\* fetch_sub(1) and 503.
Refuse(w) ==
  /\ worker[w].at = "over"
  /\ Step(w, [worker[w] EXCEPT !.at = "leaving", !.logs = @ + 1])
  /\ sessions' = sessions - 1

\* WebSocket: policy, statement or parameters; SSE: an exception.  The owner of
\* the slot is destroyed.
PrepareFails(w) ==
  /\ worker[w].at = "prepare"
  /\ Release(w, [worker[w] EXCEPT !.at = "leaving", !.logs = @ + 1, !.slot = FALSE])

\* The prepared WebSocket waits in quackapi_pending_ws; an SSE provider is
\* installed.
Prepared(w) ==
  /\ worker[w].at = "prepare"
  /\ Release(w, [worker[w] EXCEPT !.at = IF worker[w].kind = "ws" THEN "handshake" ELSE "open"])

\* 101 cannot be written: HandleWebSocket is not called.
HandshakeFails(w) ==
  /\ worker[w].at = "handshake"
  /\ Release(w, [worker[w] EXCEPT !.at = "leaving", !.kind = "upgraded"])

\* HandleWebSocket moves quackapi_pending_ws out.
HandleWebSocket(w) ==
  /\ worker[w].at = "handshake"
  /\ Release(w, [worker[w] EXCEPT !.at = "open", !.kind = "upgraded"])

\* Mutant: the session is not logged.
SessionEndsSilently(w) == worker[w].at = "open" /\ Release(w, [worker[w] EXCEPT !.at = "closing"])

\* The client left, the SELECT failed or is exhausted, or the byte limit is
\* reached: the session is logged.
SessionEnds(w) ==
  /\ worker[w].at = "open"
  /\ Release(w, [worker[w] EXCEPT !.at = "closing", !.logs = @ + 1])

\* Mutant: a push session does not look at is_running.
NoticeStopNot(w) == FALSE /\ SessionEnds(w)

\* The loops poll is_running.
NoticeStop(w) == ~running /\ SessionEnds(w)

\* ~QuackapiPendingWebSocket, ~SseProviderState
Close(w) ==
  /\ worker[w].at = "closing"
  /\ Release(w, [worker[w] EXCEPT !.at = "leaving", !.slot = FALSE])

\* Mutant: quackapi_pending_ws is left as it is.
LeaveUnreset(w) ==
  /\ worker[w].at = "leaving"
  /\ \E at \in {"connection", "idle"} :
       /\ worker[w].kind = "upgraded" => at = "idle"
       /\ Release(w, [Idle EXCEPT !.at = at, !.slot = worker[w].slot])

\* process_request returns: quackapi_pending_ws.reset().  A connection may be
\* kept alive; one that was upgraded, or should have been, is closed.
Leave(w) ==
  /\ worker[w].at = "leaving"
  /\ \E at \in {"connection", "idle"} :
       /\ worker[w].kind = "upgraded" => at = "idle"
       /\ Release(w, [Idle EXCEPT !.at = at])

-----------------------------------------------------------------------------
(* quackapi_stop                                                           *)

\* StopAccepting: is_running.exchange(false) ...
StopAccepting ==
  /\ running
  /\ running' = FALSE
  /\ UNCHANGED <<socket, sessions, queue, arrived, worker>>

\* ... and server->stop().
CloseSocket ==
  /\ ~running /\ socket = "open"
  /\ socket' = "closed"
  /\ UNCHANGED <<running, sessions, queue, arrived, worker>>

\* ~QuackapiHttpServer joins the listener, which joins the pool.
Join ==
  /\ socket = "closed"
  /\ queue = 0
  /\ \A w \in Workers : worker[w].at = "idle"
  /\ socket' = "joined"
  /\ UNCHANGED <<running, sessions, queue, arrived, worker>>

-----------------------------------------------------------------------------
Init ==
  /\ running = TRUE
  /\ socket = "open"
  /\ sessions = 0
  /\ queue = 0
  /\ arrived = 0
  /\ worker = [w \in Workers |-> Idle]

Stream(w) ==
  \/ Decline(w) \/ Acquire(w) \/ Refuse(w)
  \/ PrepareFails(w) \/ Prepared(w)
  \/ HandshakeFails(w) \/ HandleWebSocket(w)
  \/ NoticeStop(w) \/ Close(w) \/ Leave(w)

Next ==
  \/ Accept
  \/ \E w \in Workers :
       \/ Take(w) \/ Hangup(w) \/ Serve(w)
       \/ \E kind \in {"http", "sse", "ws"} : Request(w, kind)
       \/ Stream(w) \/ SessionEnds(w)
  \/ StopAccepting \/ CloseSocket \/ Join

Spec == Init /\ [][Next]_vars

\* Ordinary requests and the steps of a stream end: SQL runs under a deadline
\* and the socket under time limits.  A client may keep a session open, and
\* nobody need stop the server; a connection is given up after
\* keep_alive_max_count requests.
Fairness ==
  /\ \A w \in Workers :
       /\ WF_vars(Take(w))
       /\ SF_vars(Hangup(w))
       /\ WF_vars(Serve(w))
       /\ WF_vars(Stream(w))
  /\ WF_vars(CloseSocket)
  /\ WF_vars(Join)

LiveSpec == Spec /\ Fairness

-----------------------------------------------------------------------------
Labels == {"idle", "connection", "http", "check", "over", "prepare", "handshake", "open",
           "closing", "leaving"}

\* Also: no request is logged twice.
TypeOK ==
  /\ running \in BOOLEAN
  /\ socket \in {"open", "closed", "joined"}
  /\ sessions \in 0..Cardinality(Workers)
  /\ queue \in 0..MaxQueued
  /\ arrived \in 0..MaxConnections
  /\ worker \in [Workers -> [at : Labels, kind : {"none", "http", "sse", "ws", "upgraded"},
                           slot : BOOLEAN, logs : 0..1]]

Holding == {w \in Workers : worker[w].slot}

\* The counter is the number of slots held plus the refusals under way, and a
\* worker without a stream holds none: no exit path, failed handshakes included,
\* leaks a slot or gives one back twice.
SlotsCounted ==
  /\ sessions = Cardinality(Holding) + Cardinality({w \in Workers : worker[w].at = "over"})
  /\ \A w \in Holding : worker[w].at \in {"prepare", "handshake", "open", "closing", "leaving"}

\* A session is logged once, when it ends; a request that was answered is logged
\* once; only an upgrade whose 101 could not be written is not.
OneRowPerSession ==
  \A w \in Workers :
    /\ worker[w].at \in {"check", "over", "prepare", "handshake", "open"} => worker[w].logs = 0
    /\ worker[w].at = "closing" => worker[w].logs = 1
    /\ worker[w].at = "leaving" => (worker[w].logs = 0 <=> worker[w].slot)

\* With two workers or more, every accepted connection gets one, however long
\* clients hold their sessions.
ConnectionsServed == (queue > 0) ~> (queue = 0)

\* quackapi_stop ends every session and every thread of the server, also the
\* sessions admitted while it runs.
StopJoins == ~running ~> (socket = "joined" /\ sessions = 0)
=============================================================================
