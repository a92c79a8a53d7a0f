---------------------------- MODULE ServerProofs ----------------------------
(***************************************************************************)
(* Proofs about Server, for any number of queries and any timeout: writes  *)
(* run alone, and no query is interrupted before its own timeout.          *)
(***************************************************************************)
EXTENDS Server, SequenceTheorems, TLAPS

USE NumQueriesAssumption, DurationAssumption

Labels ==
    {"waiting", "received", "planning", "planned", "timed", "executing", "executed",
     "writing", "ended"}

TypeInv ==
    /\ pc \in [Queries -> Labels]
    /\ writes \subseteq Queries
    /\ timeout \in [Queries -> Nat]
    /\ interruption_requested \subseteq Queries
    /\ finished \subseteq Queries
    /\ running_threads_queue \in Seq(Queries)
    /\ sleep \in Nat

\* The queries whose timeout is never set again.
Started == {q \in Queries : pc[q] \in {"executing", "executed", "ended"}}

QueueStarted == \A i \in DOMAIN running_threads_queue : running_threads_queue[i] \in Started
MarkedStarted == interruption_requested \subseteq Started
FinishedEnded == \A q \in finished : pc[q] = "ended"

WatchInv == QueueStarted /\ MarkedStarted /\ FinishedEnded /\ NoEarlyTimeout

-----------------------------------------------------------------------------
(* Types                                                                   *)

LEMMA TypeInit == Init => TypeInv
BY DEF Init, TypeInv, Labels

\* A clock that has run out stays at zero.
LEMMA LessType == \A n \in Nat : Less(n) \in Nat /\ (n = 0 => Less(n) = 0)
BY DEF Less

LEMMA TypeStep == TypeInv /\ [Next]_vars => TypeInv'
<1> SUFFICES ASSUME TypeInv, [Next]_vars PROVE TypeInv'
    OBVIOUS
<1> USE DEF TypeInv, Labels, Goto, info_vars, watch_vars
<1>1. ASSUME NEW q \in Queries, Session(q) PROVE TypeInv'
    <2>1. CASE Push(q)
        <3>1. Append(running_threads_queue, q) \in Seq(Queries)
            BY AppendProperties
        <3> QED BY <2>1, <3>1 DEF Push
    <2>2. CASE Accept(q)
        BY <2>2 DEF Accept
    <2>3. CASE ComputeTimeout(q)
        BY <2>3 DEF ComputeTimeout
    <2>4. CASE Reject(q) \/ LockShared(q) \/ Plan(q) \/ End(q) \/ LockUnique(q) \/ EndWrite(q)
        BY <2>4 DEF Reject, LockShared, Plan, End, LockUnique, EndWrite
    <2>5. CASE Execute(q) \/ Interrupt(q) \/ LoseConnection(q)
        BY <2>5 DEF Execute, Interrupt, LoseConnection, Unwind
    <2> QED BY <1>1, <2>1, <2>2, <2>3, <2>4, <2>5 DEF Session, Step
<1>2. CASE Check
    <2>1. running_threads_queue # <<>> =>
              /\ Head(running_threads_queue) \in Queries
              /\ Tail(running_threads_queue) \in Seq(Queries)
        BY HeadTailProperties
    <2> QED BY <1>2, <2>1 DEF Check, MarkFront, Front
<1>3. CASE Tick
    BY <1>3, LessType DEF Tick
<1>4. CASE UNCHANGED vars
    BY <1>4 DEF vars
<1> QED BY <1>1, <1>2, <1>3, <1>4 DEF Next

\* The state stays in the types of its variables.
THEOREM TypeCorrect == Spec => []TypeInv
BY TypeInit, TypeStep, PTL DEF Spec

-----------------------------------------------------------------------------
(* The execution lock                                                      *)

LEMMA IsolatedStep == TypeInv /\ WritesAlone /\ [Next]_vars => WritesAlone'
<1> SUFFICES ASSUME TypeInv, WritesAlone, [Next]_vars PROVE WritesAlone'
    OBVIOUS
<1> USE DEF TypeInv, WritesAlone, Writing, Reading, Goto
<1>1. ASSUME NEW q \in Queries, Session(q) PROVE WritesAlone'
    \* Taking the lock looks at who holds it.
    <2>1. CASE LockShared(q)
        BY <2>1 DEF LockShared
    <2>2. CASE LockUnique(q)
        BY <2>2 DEF LockUnique
    \* All the other steps keep it or leave it.
    <2>3. CASE Accept(q) \/ Reject(q) \/ EndWrite(q)
        BY <2>3 DEF Accept, Reject, EndWrite
    <2>4. CASE Plan(q) \/ ComputeTimeout(q) \/ Push(q) \/ Execute(q)
        BY <2>4 DEF Plan, ComputeTimeout, Push, Execute
    <2>5. CASE End(q) \/ Interrupt(q) \/ LoseConnection(q)
        BY <2>5 DEF End, Interrupt, LoseConnection, Unwind
    <2> QED BY <1>1, <2>1, <2>2, <2>3, <2>4, <2>5 DEF Session, Step
<1>2. CASE Check \/ Tick \/ UNCHANGED vars
    BY <1>2 DEF Check, Tick, vars
<1> QED BY <1>1, <1>2 DEF Next

\* While a query writes no other query writes and no plan of a query exists, in
\* session() of the server, for any number of sessions.
THEOREM Isolated == Spec => []WritesAlone
<1>1. Init => WritesAlone
    BY DEF Init, WritesAlone, Writing
<1> QED BY <1>1, TypeCorrect, IsolatedStep, PTL DEF Spec

-----------------------------------------------------------------------------
(* The timeout thread                                                      *)

\* A session that goes on: once its query has started it does not start again,
\* and the mark of the query has no one but the timeout thread to set it.
LEMMA WatchSession ==
    ASSUME TypeInv, WatchInv, NEW q \in Queries, Session(q)
    PROVE  WatchInv'
<1> USE DEF TypeInv, WatchInv, Started, QueueStarted, MarkedStarted, FinishedEnded,
            NoEarlyTimeout, Goto, info_vars, watch_vars
<1>1. CASE Push(q)
    <2>1. \A i \in DOMAIN running_threads_queue' :
              \/ /\ i \in DOMAIN running_threads_queue
                 /\ running_threads_queue'[i] = running_threads_queue[i]
              \/ running_threads_queue'[i] = q
        BY <1>1, AppendProperties DEF Push
    <2>2. Started' = Started \cup {q}
        BY <1>1 DEF Push
    <2>3. QueueStarted' /\ MarkedStarted'
        BY <1>1, <2>1, <2>2 DEF Push
    <2>4. FinishedEnded' /\ NoEarlyTimeout'
        BY <1>1 DEF Push
    <2> QED BY <2>3, <2>4
\* The only step that sets a timeout; the query is neither queued nor marked.
<1>2. CASE ComputeTimeout(q)
    <2>1. q \notin Started /\ Started' = Started
        BY <1>2 DEF ComputeTimeout
    <2>2. \A r \in interruption_requested : r # q
        BY <2>1
    <2> QED BY <1>2, <2>1, <2>2 DEF ComputeTimeout
<1>3. CASE Accept(q) \/ LockShared(q) \/ Plan(q) \/ LockUnique(q)
    <2>1. /\ UNCHANGED <<timeout, interruption_requested, finished, running_threads_queue>>
          /\ pc[q] \in {"waiting", "received", "planning"}
        BY <1>3 DEF Accept, LockShared, Plan, LockUnique
    <2>2. \E label \in Labels : pc' = [pc EXCEPT ![q] = label] /\ label \notin {"executing", "executed", "ended"}
        BY <1>3 DEF Accept, LockShared, Plan, LockUnique, Labels
    <2>3. Started' = Started
        BY <2>1, <2>2
    <2> QED BY <2>1, <2>2, <2>3
<1>4. CASE Reject(q) \/ EndWrite(q)
    BY <1>4 DEF Reject, EndWrite
<1>5. CASE Execute(q)
    BY <1>5 DEF Execute
<1>6. CASE End(q)
    <2>1. q \in Started /\ Started' = Started
        BY <1>6 DEF End
    <2> QED BY <1>6, <2>1 DEF End
<1>7. CASE Interrupt(q) \/ LoseConnection(q)
    <2>1. q \in Started /\ Started' = Started
        BY <1>7 DEF Interrupt, LoseConnection, Unwind
    <2> QED BY <1>7, <2>1 DEF Interrupt, LoseConnection, Unwind
<1> QED BY <1>1, <1>2, <1>3, <1>4, <1>5, <1>6, <1>7 DEF Session, Step

\* What is marked has started and is due: its timeout ran out, or it ended.
LEMMA WatchCheck ==
    ASSUME TypeInv, WatchInv, Check
    PROVE  WatchInv'
<1> USE DEF TypeInv, WatchInv, Started, QueueStarted, MarkedStarted, FinishedEnded,
            NoEarlyTimeout
<1>1. CASE running_threads_queue # <<>> /\ Due(Front) /\ MarkFront
    <2>1. 1 \in DOMAIN running_threads_queue /\ Front = running_threads_queue[1]
        BY <1>1 DEF Front
    <2>2. Front \in Started /\ (pc[Front] = "ended" \/ timeout[Front] = 0)
        BY <1>1, <2>1 DEF Due
    <2>3. \A i \in DOMAIN running_threads_queue' :
              /\ i + 1 \in DOMAIN running_threads_queue
              /\ running_threads_queue'[i] = running_threads_queue[i + 1]
        BY <1>1 DEF MarkFront
    <2>4. pc' = pc /\ timeout' = timeout /\ finished' = finished
        BY DEF Check
    <2> QED BY <1>1, <2>2, <2>3, <2>4 DEF MarkFront
<1>2. CASE UNCHANGED <<interruption_requested, running_threads_queue>>
    BY <1>2 DEF Check
<1> QED BY <1>1, <1>2 DEF Check

LEMMA WatchStep == TypeInv /\ WatchInv /\ [Next]_vars => WatchInv'
<1> SUFFICES ASSUME TypeInv, WatchInv, [Next]_vars PROVE WatchInv'
    OBVIOUS
<1>1. CASE Tick
    BY <1>1, LessType DEF Tick, TypeInv, WatchInv, Started, QueueStarted, MarkedStarted,
        FinishedEnded, NoEarlyTimeout
<1>2. CASE UNCHANGED vars
    BY <1>2 DEF vars, info_vars, watch_vars, WatchInv, Started, QueueStarted, MarkedStarted,
        FinishedEnded, NoEarlyTimeout
<1> QED BY <1>1, <1>2, WatchSession, WatchCheck DEF Next

\* execute_timeouts() marks no query that still runs before the timeout of that
\* query is due, however the sessions pushed and however late the thread is.
THEOREM NotEarly == Spec => []NoEarlyTimeout
<1>1. Init => WatchInv
    BY DEF Init, WatchInv, QueueStarted, MarkedStarted, FinishedEnded, NoEarlyTimeout
<1>2. WatchInv => NoEarlyTimeout
    BY DEF WatchInv
<1> QED BY <1>1, <1>2, TypeCorrect, WatchStep, PTL DEF Spec
=============================================================================
