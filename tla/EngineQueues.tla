---------------------------- MODULE EngineQueues ----------------------------
(***************************************************************************)
(* The engine's scheduler: the active and the wakeup queue (two binary     *)
(* heaps that share one index field per connection), rqc_engine_main_logic *)
(* and rqc_engine_conn_logic, the event timer the application keeps for    *)
(* the engine, and the calls that move connections between the queues,     *)
(* from outside and from callbacks in the middle of a pass.                *)
(*                                                                         *)
(* Times are in microseconds from now: a key of 0 is due.  What a pass     *)
(* does to its connection is an outcome: the time of its next timer, or    *)
(* closed (ConnClose shows that a connection without a timer is closed).   *)
(* last_ticked_time is only compared, so it is kept as a rank, 0 for never.*)
(***************************************************************************)
EXTENDS Naturals, Sequences, FiniteSets

CONSTANTS Conns,     \* the connections that are created in the engine's life
          Watched,   \* the ones whose progress is checked
          None,      \* no connection; no timer
          MaxWait    \* bound: the farthest timer of a watched connection; the
                     \* timers of the others are 1 us away

VARIABLE e           \* the rqc_engine_t, its connections and the event timer

Queue == {"active", "wait"}

NewConn ==
    [st      |-> "none",   \* not created yet; open, closed or freed later
     flags   |-> {},       \* WAIT_WAKEUP, TICKING
     index   |-> 1]        \* wakeup_pq_index, from 1; 1 again in no queue

Init ==
    e = [q         |-> [n \in Queue |-> <<>>],
         conn      |-> [c \in Conns |-> NewConn],
         last      |-> [c \in Conns |-> 0],     \* their last_ticked_time
         running   |-> "no",     \* RUNNING, and in which of the two loops
         cur       |-> None,     \* the connection whose pass it is
         noDestroy |-> FALSE,    \* NO_DESTROY
         once      |-> FALSE,    \* last_wake_after is 1
         event     |-> None,     \* the application's event timer
         batch     |-> FALSE]    \* calls made that finish_recv/_send must follow

\* First S, then what Op does to it: two statements in a row.
Then(S, Op(_)) == CHOOSE T \in {Op(x) : x \in {S}} : TRUE

-----------------------------------------------------------------------------
(* rqc_priority_q.h: keys grow from the top; every move of an element       *)
(* writes its position into the connection (rqc_engine_conn_pq_operator).   *)

\* The element x comes to stand at position i of queue n.
Place(S, n, i, x) ==
    [S EXCEPT !.q[n][i] = x, !.conn[x.conn].index = i]

rqc_pq_element_swap(S, n, i, j) ==
    Then(Place(S, n, j, S.q[n][i]), LAMBDA T : Place(T, n, i, S.q[n][j]))

RECURSIVE rqc_pq_move_towards_top(_, _, _)
rqc_pq_move_towards_top(S, n, i) ==
    IF i = 1 \/ S.q[n][i \div 2].key <= S.q[n][i].key THEN S
    ELSE Then(rqc_pq_element_swap(S, n, i, i \div 2),
              LAMBDA T : rqc_pq_move_towards_top(T, n, i \div 2))

\* The child with the smaller key, the left one of two equals.
Child(h, i) ==
    IF 2 * i < Len(h) /\ h[2 * i + 1].key < h[2 * i].key THEN 2 * i + 1 ELSE 2 * i

RECURSIVE rqc_pq_move_towards_bottom(_, _, _)
rqc_pq_move_towards_bottom(S, n, i) ==
    LET h == S.q[n]
        j == Child(h, i)
    IN  IF 2 * i > Len(h) \/ h[i].key <= h[j].key THEN S
        ELSE Then(rqc_pq_element_swap(S, n, i, j),
                  LAMBDA T : rqc_pq_move_towards_bottom(T, n, j))

rqc_pq_push(S, n, c, key) ==
    LET i == Len(S.q[n]) + 1
        x == [key |-> key, conn |-> c]
    IN  Then(Place([S EXCEPT !.q[n] = Append(@, x)], n, i, x),
             LAMBDA T : rqc_pq_move_towards_top(T, n, i))

\* Mutant: the element that fills the gap keeps its old index.
RemoveKeepsIndex(S, n, i) ==
    LET h == S.q[n]
        T == [S EXCEPT !.q[n] = SubSeq([h EXCEPT ![i] = h[Len(h)]], 1, Len(h) - 1),
                       !.conn[h[i].conn].index = 1]
    IN  IF i > Len(h) THEN S ELSE rqc_pq_move_towards_bottom(T, n, i)

\* The last element takes the place of element i.
rqc_pq_remove(S, n, i) ==
    LET h == S.q[n]
        T == [S EXCEPT !.q[n] = SubSeq(h, 1, Len(h) - 1),
                       !.conn[h[i].conn].index = 1]
    IN  IF i > Len(h) THEN S
        ELSE IF i = Len(h) THEN T
        ELSE Then(Then(Place(T, n, i, h[Len(h)]),
                       LAMBDA U : rqc_pq_move_towards_bottom(U, n, i)),
                  LAMBDA U : rqc_pq_move_towards_top(U, n, i))

rqc_pq_pop(S, n) == rqc_pq_remove(S, n, 1)

-----------------------------------------------------------------------------
(* Moving a connection between the queues *)

Flagged(S, c) == S.conn[c].flags # {}

\* next is next_tick_time.
rqc_engine_add_wakeup_queue(S, c, next) ==
    IF Flagged(S, c) THEN S
    ELSE [rqc_pq_push(S, "wait", c, next)
             EXCEPT !.conn[c].flags = {"WAIT_WAKEUP"}]

rqc_engine_remove_wakeup_queue(S, c) ==
    IF "WAIT_WAKEUP" \notin S.conn[c].flags THEN S
    ELSE [rqc_pq_remove(S, "wait", S.conn[c].index)
             EXCEPT !.conn[c].flags = @ \ {"WAIT_WAKEUP"}]

rqc_engine_add_active_queue(S, c) ==
    IF Flagged(S, c) THEN S
    ELSE [rqc_pq_push(S, "active", c, S.last[c])
             EXCEPT !.conn[c].flags = @ \cup {"TICKING"}]

rqc_engine_remove_active_queue(S, c) ==
    IF "TICKING" \notin S.conn[c].flags THEN S
    ELSE [rqc_pq_remove(S, "active", S.conn[c].index)
             EXCEPT !.conn[c].flags = @ \ {"TICKING"}]

\* What every call that gives a connection work does.
Activate(S, c) ==
    Then(rqc_engine_remove_wakeup_queue(S, c),
         LAMBDA T : rqc_engine_add_active_queue(T, c))

\* rqc_conn_destroy, of a connection that is in no queue or in the wakeup queue
rqc_conn_destroy(S, c) ==
    IF "TICKING" \in S.conn[c].flags THEN [S EXCEPT !.conn[c].st = "closed"]
    ELSE [rqc_engine_remove_wakeup_queue(S, c) EXCEPT !.conn[c].st = "freed", !.last[c] = 0]

-----------------------------------------------------------------------------
(* The event timer *)

\* rqc_engine_wakeup_after: 0 for none
rqc_engine_wakeup_after(S) ==
    IF S.q["wait"] = <<>> THEN 0
    ELSE IF S.q["wait"][1].key = 0 THEN 1 ELSE S.q["wait"][1].key

\* A timer of 1 us that is outstanding is not put off.
rqc_engine_set_event_timer(S, after) ==
    IF S.once THEN S ELSE [S EXCEPT !.once = (after = 1), !.event = after]

rqc_engine_wakeup_once(S) == rqc_engine_set_event_timer(S, 1)

SetWakeup(S) ==
    LET after == rqc_engine_wakeup_after(S)
    IN  IF after = 0 THEN S ELSE rqc_engine_set_event_timer(S, after)

-----------------------------------------------------------------------------
(* Passes *)

\* last_ticked_time of c is set to the time its pass began, which is as late
\* as the latest of them or later.  The values become their ranks again.
Ticked(S, c, later) ==
    LET high == CHOOSE m \in {S.last[d] : d \in Conns} :
                  \A d \in Conns : S.last[d] <= m
        now == IF later \/ high = 0 THEN high + 1 ELSE high
        Update(times) ==
          LET Rank(t) == Cardinality({u \in times : u <= t})
          IN  [S EXCEPT !.last = [d \in Conns |-> Rank(IF d = c THEN now ELSE @[d])],
                        !.q["active"] = [i \in DOMAIN @ |-> [@[i] EXCEPT !.key = Rank(@)]]]
    IN  Then(({S.last[d] : d \in Conns \ {c}} \ {0}) \cup {now}, Update)

\* rqc_engine_process_conn and the sends: next is the time of the nearest
\* timer, 0 when the pass found the connection closed or closed it.
Processed(S, next, later) ==
    IF next = 0 THEN [S EXCEPT !.conn[S.cur].st = "closed"] ELSE Ticked(S, S.cur, later)

Outcomes(S) ==
    IF S.conn[S.cur].st = "closed" THEN {0}
    ELSE IF S.cur \in Watched THEN 0 .. MaxWait ELSE 0 .. 1

\* rqc_engine_conn_logic, up to the callbacks: not inside another pass.
StartConn(S, c) ==
    IF S.running # "no" THEN S ELSE [S EXCEPT !.running = "conn", !.cur = c]

\* Mutant: a closed connection is left in no queue.
ConnPassDrops(S, next, later) ==
    Then(Then(Processed(S, next, later), LAMBDA T : rqc_engine_remove_active_queue(T, S.cur)),
         LAMBDA T : IF next = 0 THEN T ELSE rqc_engine_add_wakeup_queue(T, S.cur, next))

\* If there are other active connections, the engine wakes up at once.
FinishConn(S) ==
    IF S.q["active"] # <<>> THEN rqc_engine_wakeup_once(S) ELSE SetWakeup(S)

\* The end of the pass: a closed connection is due at time 0.
ConnPass(S, next, later) ==
    Then(Then(Processed(S, next, later), LAMBDA T : rqc_engine_remove_active_queue(T, S.cur)),
         LAMBDA T : rqc_engine_add_wakeup_queue(T, S.cur, next))

\* The first loop of rqc_engine_main_logic: whoever is due becomes active.
RECURSIVE DueActive(_)
DueActive(S) ==
    IF S.q["wait"] = <<>> \/ S.q["wait"][1].key > 0 THEN S
    ELSE Then(Activate(S, S.q["wait"][1].conn), DueActive)

\* Mutant: the timer of 1 us counts as outstanding for ever.
StartMainKeeps(S, noDestroy) ==
    Then([S EXCEPT !.running = "main", !.noDestroy = noDestroy, !.batch = FALSE],
         DueActive)

\* rqc_engine_main_logic up to its second loop, and as rqc_engine_finish_recv
\* and rqc_engine_finish_send call it (rqc_engine_main_logic_internal).
StartMain(S, noDestroy) ==
    Then([S EXCEPT !.running = "main", !.noDestroy = noDestroy, !.batch = FALSE,
                   !.once = FALSE], DueActive)

\* The second loop, one connection: it is in no queue while its pass lasts.
MainPass(S, next, later) ==
    Then([Processed(S, next, later) EXCEPT !.conn[S.cur].flags = @ \ {"TICKING"}],
         LAMBDA T : IF next = 0 /\ ~S.noDestroy THEN rqc_conn_destroy(T, S.cur)
                    ELSE rqc_engine_add_wakeup_queue(T, S.cur, next))

-----------------------------------------------------------------------------
(* Actions *)

\* A connection object is allocated.
Create(c) == [e EXCEPT !.conn[c].st = "open"]

\* The application's code runs: the event loop, or a callback in a pass.
Outside == e.running = "no"
InCallback == e.cur # None
AppRuns == Outside \/ InCallback

\* rqc_client_connect; conn_create_notify may refuse the connection.
Connect(c, refused) ==
    /\ AppRuns
    /\ e.conn[c].st = "none"
    /\ \E S \in {Activate(Create(c), c)} :
         e' = IF refused
              THEN Then(rqc_engine_remove_active_queue(S, c),
                        LAMBDA T : rqc_conn_destroy(T, c))
              ELSE StartConn(S, c)

\* rqc_engine_packet_process, which creates a server's connection.  It runs
\* the connection at once or leaves that to rqc_engine_finish_recv.
PacketIn(c, runs) ==
    /\ Outside
    /\ e.conn[c].st # "freed"
    /\ \E S \in {Activate(IF e.conn[c].st = "none" THEN Create(c) ELSE e, c)} :
         e' = IF runs THEN StartConn(S, c) ELSE [S EXCEPT !.batch = TRUE]

\* rqc_stream_send, rqc_datagram_send, rqc_conn_send_ping, rqc_conn_continue_send:
\* flushed, or in a batch that rqc_engine_finish_send ends.
Send(c, flush) ==
    /\ AppRuns
    /\ e.conn[c].st = "open"
    /\ \E S \in {Activate(e, c)} :
         e' = IF flush THEN StartConn(S, c) ELSE [S EXCEPT !.batch = @ \/ Outside]

\* rqc_stream_send on a stream that has ended or has data pending only flushes.
Flush(c) ==
    /\ Outside
    /\ e.conn[c].st = "open"
    /\ e' = StartConn(e, c)

\* rqc_conn_close, rqc_stream_close, and a read that raised a window.
Wake(c, closes) ==
    /\ AppRuns
    /\ e.conn[c].st = "open"
    /\ e' = Then(Activate(IF closes THEN [e EXCEPT !.conn[c].st = "closed"] ELSE e, c),
                 rqc_engine_wakeup_once)

\* A pass of rqc_engine_conn_logic ends.
EndConn ==
    /\ e.running = "conn"
    /\ \E next \in Outcomes(e), later \in BOOLEAN :
         e' = [Then(ConnPass(e, next, later), FinishConn) EXCEPT !.running = "no", !.cur = None]

\* The application's timer fires; it calls rqc_engine_main_logic.
TimerFires ==
    /\ Outside
    /\ e.event = 0
    /\ e' = StartMain([e EXCEPT !.event = None], FALSE)

\* rqc_engine_finish_recv, rqc_engine_finish_send
FinishBatch ==
    /\ Outside
    /\ e.batch
    /\ e' = StartMain(e, TRUE)

\* The next active connection is taken from the queue.
PopActive ==
    /\ e.running = "main" /\ e.cur = None
    /\ e.q["active"] # <<>>
    /\ e' = [rqc_pq_pop(e, "active") EXCEPT !.cur = e.q["active"][1].conn]

EndPass ==
    /\ e.running = "main" /\ e.cur # None
    /\ \E next \in Outcomes(e), later \in BOOLEAN :
         e' = [MainPass(e, next, later) EXCEPT !.cur = None]

EndMain ==
    /\ e.running = "main" /\ e.cur = None
    /\ e.q["active"] = <<>>
    /\ e' = [SetWakeup(e) EXCEPT !.running = "no", !.noDestroy = FALSE]

\* The engine's own next step, at most one of the four at a time.
Proceed == EndConn \/ PopActive \/ EndPass \/ EndMain

\* A microsecond passes.
Earlier(t) == IF t \in {None, 0} THEN t ELSE t - 1

Tick ==
    e' = [e EXCEPT !.q["wait"] = [i \in DOMAIN @ |-> [@[i] EXCEPT !.key = Earlier(@)]],
                   !.event = Earlier(@)]

Next ==
    \/ \E c \in Conns, b \in BOOLEAN :
         Connect(c, b) \/ PacketIn(c, b) \/ Send(c, b) \/ Wake(c, b)
    \/ \E c \in Conns : Flush(c)
    \/ Proceed
    \/ TimerFires
    \/ FinishBatch
    \/ Tick

\* One connection was ticked later than all others.
Newest == \E c \in Conns : \A d \in Conns \ {c} : e.last[d] < e.last[c]

\* What the code and its user grant, each step told by what only it changes:
\* a pass that has begun goes on (weak fairness of Proceed: whatever is called
\* in its callbacks leaves running and cur alone);
\* the clock moves: it does not read the same in every pass from some time on;
\* time passes between the application's calls, an event loop comes round to
\* its timers;
\* the application calls rqc_engine_main_logic when its timer has fired (strong
\* fairness of TimerFires, its other calls come in between) and ends its
\* batches, as rquic.h asks.
Fairness ==
    /\ []<>Outside \/ []<><<~Outside>>_<<e.running, e.cur>>
    /\ []<><<InCallback /\ e'.conn[e.cur].st = "open">>_(e.cur) => []<>Newest
    /\ SF_e(Outside /\ Tick)
    /\ []<>(Outside /\ e.event = 0) => []<><<e'.event = None>>_(e.event)
    /\ []<>(Outside /\ e.batch) => []<>~e.batch

Spec == Init /\ [][Next]_e /\ Fairness

-----------------------------------------------------------------------------
(* Properties *)

Positions(n, c) == {i \in DOMAIN e.q[n] : e.q[n][i].conn = c}

\* A connection that exists is in one queue, at the position its
\* wakeup_pq_index says, or is the one a pass has taken from its queue; its
\* flags say which; one that was destroyed is in none; both queues are heaps.
\* So rqc_conns_pq_remove takes out the connection it is called for, and no
\* pass meets a destroyed one, whatever is called in whatever callback.
QueuesExact ==
    /\ \A c \in Conns :
         LET C == e.conn[c]
             popped == e.running = "main" /\ e.cur = c
         IN  /\ Positions("wait", c) =
                  IF "WAIT_WAKEUP" \in C.flags THEN {C.index} ELSE {}
             /\ Positions("active", c) =
                  IF "TICKING" \in C.flags /\ ~popped THEN {C.index} ELSE {}
             /\ Cardinality(C.flags) = IF C.st \in {"none", "freed"} THEN 0 ELSE 1
             /\ popped => C.flags = {"TICKING"}
    /\ \A n \in Queue : \A i \in 2 .. Len(e.q[n]) :
         e.q[n][i \div 2].key <= e.q[n][i].key

\* Between passes the application's timer is set for no later than the time
\* the first waiting connection is due, and for 1 us when connections were
\* left active that no batch will serve: skipping the request while a timer of
\* 1 us is outstanding (rqc_engine_set_event_timer) loses no wakeup.
TimerCovers ==
    /\ Outside /\ e.q["wait"] # <<>> =>
         e.event # None /\ e.event <= rqc_engine_wakeup_after(e)
    /\ Outside /\ e.q["active"] # <<>> /\ ~e.batch => e.event \in {0, 1}

\* A connection in the active queue gets its pass, although callbacks of
\* others may go on making each other active in the loop of
\* rqc_engine_main_logic, or are run by rqc_engine_conn_logic again and again.
NoneStarved ==
    \A c \in Watched : Positions("active", c) # {} ~> Positions("active", c) = {}

\* A closed connection is destroyed, unless callbacks keep the engine in one
\* loop for ever: neither rqc_engine_conn_logic nor a batch may destroy it, so
\* it has to be in a queue when the timer fires.
ClosedIsFreed ==
    []<>Outside => \A c \in Watched : e.conn[c].st = "closed" ~> e.conn[c].st = "freed"
=============================================================================
