------------------------------- MODULE Server -------------------------------
(***************************************************************************)
(* The server: a thread for each query, and one that marks queries as      *)
(* timed out.  Queries that only read run together, one that writes runs   *)
(* alone.  Time is kept as what is left until a timeout.                   *)
(***************************************************************************)
EXTENDS Naturals, Sequences

CONSTANTS
    NumQueries,     \* queries are numbered in the order they are accepted
    Duration        \* timeout_duration, in ticks of the clock
ASSUME NumQueriesAssumption == NumQueries \in Nat \ {0}
ASSUME DurationAssumption == Duration \in Nat \ {0}

VARIABLES
    pc,                     \* where the session of a query is
    writes,                 \* the queries that are not read only
    timeout,                \* ThreadInfo: ticks until the timeout, 0 once it is due,
    interruption_requested, \* the queries marked as timed out,
    finished,               \* and those that ended by themselves
    running_threads_queue,
    sleep                   \* ticks until execute_timeouts() looks at the queue again

info_vars == <<timeout, interruption_requested, finished>>
watch_vars == <<running_threads_queue, sleep>>
vars == <<pc, writes, info_vars, watch_vars>>

Queries == 1 .. NumQueries

\* The queries that hold the execution lock, shared or not.
Reading == {q \in Queries : pc[q] \in {"planning", "planned", "timed", "executing", "executed"}}
Writing == {q \in Queries : pc[q] = "writing"}

Goto(q, label) == pc' = [pc EXCEPT ![q] = label]

-----------------------------------------------------------------------------
(* session()                                                               *)

Accept(q) ==
    /\ pc[q] = "waiting" /\ \A r \in 1 .. q - 1 : pc[r] # "waiting"
    /\ writes' \in {writes, writes \cup {q}}
    /\ Goto(q, "received")
    /\ UNCHANGED <<info_vars, watch_vars>>

\* The client is gone, or the query is not one; some of that is seen only when
\* the plan is built.
Reject(q) ==
    /\ pc[q] \in {"received", "planning"}
    /\ Goto(q, "ended")
    /\ UNCHANGED <<writes, info_vars, watch_vars>>

\* Mutant: without the lock.
EnterShared(q) ==
    /\ pc[q] = "received" /\ q \notin writes
    /\ Goto(q, "planning")
    /\ UNCHANGED <<writes, info_vars, watch_vars>>

LockShared(q) ==
    /\ pc[q] = "received" /\ q \notin writes
    /\ Writing = {}
    /\ Goto(q, "planning")
    /\ UNCHANGED <<writes, info_vars, watch_vars>>

Plan(q) ==
    /\ pc[q] = "planning"
    /\ Goto(q, "planned")
    /\ UNCHANGED <<writes, info_vars, watch_vars>>

\* The timeout is computed before the mutex of the queue is taken.
ComputeTimeout(q) ==
    /\ pc[q] = "planned"
    /\ timeout' = [timeout EXCEPT ![q] = Duration]
    /\ Goto(q, "timed")
    /\ UNCHANGED <<writes, interruption_requested, finished, watch_vars>>

Push(q) ==
    /\ pc[q] = "timed"
    /\ running_threads_queue' = Append(running_threads_queue, q)
    /\ Goto(q, "executing")
    /\ UNCHANGED <<writes, info_vars, sleep>>

\* The last next() returns false.
Execute(q) ==
    /\ pc[q] = "executing"
    /\ Goto(q, "executed")
    /\ UNCHANGED <<writes, info_vars, watch_vars>>

End(q) ==
    /\ pc[q] = "executed"
    /\ finished' = finished \cup {q}
    /\ Goto(q, "ended")
    /\ UNCHANGED <<writes, timeout, interruption_requested, watch_vars>>

\* An iterator sees the mark, or the result cannot be sent: the query is not
\* marked as finished.
Unwind(q) == Goto(q, "ended") /\ UNCHANGED <<writes, info_vars, watch_vars>>
Interrupt(q) == pc[q] = "executing" /\ q \in interruption_requested /\ Unwind(q)
LoseConnection(q) == pc[q] \in {"executing", "executed"} /\ Unwind(q)

LockUnique(q) ==
    /\ pc[q] = "received" /\ q \in writes
    /\ Reading = {} /\ Writing = {}
    /\ Goto(q, "writing")
    /\ UNCHANGED <<writes, info_vars, watch_vars>>

EndWrite(q) ==
    /\ pc[q] = "writing"
    /\ Goto(q, "ended")
    /\ UNCHANGED <<writes, info_vars, watch_vars>>

-----------------------------------------------------------------------------
(* execute_timeouts()                                                      *)

Front == Head(running_threads_queue)

\* Mutant: the front is due one tick before its timeout.
DueEarly(q) == timeout[q] <= 1 \/ q \in finished
Due(q) == timeout[q] = 0 \/ q \in finished

\* Mutant: what is popped is not marked.
PopUnmarked ==
    /\ running_threads_queue' = Tail(running_threads_queue)
    /\ UNCHANGED interruption_requested

MarkFront ==
    /\ interruption_requested' = interruption_requested \cup {Front}
    /\ running_threads_queue' = Tail(running_threads_queue)

\* One round of the loop, up to where the thread sleeps.
Check ==
    /\ sleep = 0
    /\ \/ /\ running_threads_queue = <<>>
          /\ sleep' = Duration
          /\ UNCHANGED <<interruption_requested, running_threads_queue>>
       \/ /\ running_threads_queue # <<>> /\ Due(Front)
          /\ MarkFront
          /\ UNCHANGED sleep
       \/ /\ running_threads_queue # <<>> /\ ~Due(Front)
          /\ sleep' = timeout[Front]
          /\ UNCHANGED <<interruption_requested, running_threads_queue>>
    /\ UNCHANGED <<pc, writes, timeout, finished>>

\* The clock.  A thread may be late, never early.
Less(n) == IF n = 0 THEN 0 ELSE n - 1
Tick ==
    /\ sleep > 0 \/ \E q \in Queries : timeout[q] > 0
    /\ timeout' = [q \in Queries |-> Less(timeout[q])]
    /\ sleep' = Less(sleep)
    /\ UNCHANGED <<pc, writes, interruption_requested, finished, running_threads_queue>>

-----------------------------------------------------------------------------
Init ==
    /\ pc = [q \in Queries |-> "waiting"]
    /\ writes = {}
    /\ timeout = [q \in Queries |-> 0]
    /\ interruption_requested = {} /\ finished = {}
    /\ running_threads_queue = <<>> /\ sleep = 0

\* The steps a session takes sooner or later once it is there.
Step(q) ==
    \/ LockShared(q) \/ Plan(q) \/ ComputeTimeout(q) \/ Push(q) \/ End(q)
    \/ LockUnique(q) \/ EndWrite(q)

Session(q) ==
    Accept(q) \/ Reject(q) \/ Step(q) \/ Execute(q) \/ Interrupt(q) \/ LoseConnection(q)

Next == (\E q \in Queries : Session(q)) \/ Check \/ Tick
Spec == Init /\ [][Next]_vars

\* The system runs every thread that can run.  A query need not come to an end
\* by itself, but it looks at its mark again and again.
FairSpec ==
    /\ Spec
    /\ WF_vars(Check) /\ WF_vars(Tick)
    /\ \A q \in Queries : WF_vars(Step(q)) /\ SF_vars(Interrupt(q))

-----------------------------------------------------------------------------
(* Properties                                                              *)

\* Queries that modify the database are executed isolated: no plan exists while
\* a query writes, and one writes at a time.
WritesAlone == \A q \in Writing : Writing = {q} /\ Reading = {}

\* A query that still runs is marked only when its own timeout is due, whatever
\* the queue held and however late the thread looked at it.
NoEarlyTimeout ==
    \A q \in interruption_requested : pc[q] = "ended" \/ timeout[q] = 0

\* Every query ends: a lock is waited for no longer than others take, and one
\* that does not end by itself is found in the queue and marked.
QueriesEnd == \A q \in Queries : pc[q] = "received" ~> pc[q] = "ended"

\* "Threads must be ordered by timeout inside the queue".
QueueOrdered ==
    \A i, j \in DOMAIN running_threads_queue :
        i < j => timeout[running_threads_queue[i]] <= timeout[running_threads_queue[j]]
=============================================================================
