----------------------------- MODULE PathManager -----------------------------
(***************************************************************************)
(* PathManager and the sessions that use it.  While its query runs, a      *)
(* session has a slot with a pointer to the path it found, which is read   *)
(* when the result is printed.  The slot is found again by the id of the   *)
(* thread, and another thread may get that id when this one is over.       *)
(***************************************************************************)
EXTENDS Naturals, Sequences, FiniteSets, TLC

CONSTANTS
    NumQueries,     \* queries are numbered in the order they are accepted
    ThreadIds,      \* what std::this_thread::get_id() returns
    MaxThreads      \* max_threads, the number of slots and of private buffers
ASSUME NumQueriesAssumption == NumQueries \in Nat \ {0}
ASSUME MaxThreadsAssumption == MaxThreads \in Nat \ {0}
ASSUME ThreadIdsAssumption == "no thread" \notin ThreadIds

VARIABLES
    available_index,    \* queue of the slots no query has
    thread_paths,       \* the slot of a thread
    paths,              \* of a slot: the query whose variables it has room for,
                        \* and the query whose search it points into
    thread2index,       \* the threads with a private buffer
    pc,                 \* where the session of a query is
    order_by,           \* the queries that sort their results
    thread              \* the thread of a query

slot_vars == <<available_index, thread_paths, paths>>
vars == <<slot_vars, thread2index, pc, order_by, thread>>

Queries == 1 .. NumQueries
NoQuery == 0
Slots == 0 .. MaxThreads - 1
NoThread == "no thread"

\* A thread is known by its id only.
ThreadSymmetry == Permutations(ThreadIds)

Live == {q \in Queries : thread[q] # NoThread}
Running == {q \in Queries : pc[q] \in {"executing", "found"}}
HasSlot == {q \in Queries : pc[q] = "begun"} \cup Running
Failed == {q \in Queries : pc[q] = "failed"}

\* Nothing is defined after a session read the front of an empty queue, wrote
\* past the end of a vector, or used a table another one was changing.
Undefined == \E q \in Queries : pc[q] = "undefined"

Goto(q, label) == pc' = [pc EXCEPT ![q] = label]
Stop(q, label) == Goto(q, label) /\ thread' = [thread EXCEPT ![q] = NoThread]

-----------------------------------------------------------------------------
(* PathManager                                                             *)

\* insert() does nothing for an id that is there already.
Inserted(id, index) ==
    [t \in DOMAIN thread_paths \cup {id} |->
        IF t \in DOMAIN thread_paths THEN thread_paths[t] ELSE index]

\* Mutant: the slot stays in the queue.
BeginFront(q) ==
    LET index == Head(available_index)
    IN  /\ thread_paths' = Inserted(thread[q], index)
        /\ paths' = [paths EXCEPT ![index] = [room |-> q, path |-> NoQuery]]
        /\ UNCHANGED available_index

\* Mutant: the slot keeps its vector.
BeginKeeps(q) ==
    LET index == Head(available_index)
    IN  /\ available_index' = Tail(available_index)
        /\ thread_paths' = Inserted(thread[q], index)
        /\ UNCHANGED paths

\* A thread that has a slot already keeps it.
Begin(q) ==
    LET index == Head(available_index)
    IN  /\ available_index' = Tail(available_index)
        /\ thread_paths' = Inserted(thread[q], index)
        /\ paths' = [paths EXCEPT ![index] = [room |-> q, path |-> NoQuery]]

SlotOf(q) == thread_paths[thread[q]]

SetPath(q) ==
    /\ paths' = [paths EXCEPT ![SlotOf(q)].path = q]
    /\ UNCHANGED <<available_index, thread_paths>>

\* Mutant: the slot is not given back.
ClearOnly(q) ==
    /\ thread_paths' = [t \in DOMAIN thread_paths \ {thread[q]} |-> thread_paths[t]]
    /\ paths' = [paths EXCEPT ![SlotOf(q)] = [room |-> NoQuery, path |-> NoQuery]]
    /\ UNCHANGED available_index

Clear(q) ==
    /\ thread_paths' = [t \in DOMAIN thread_paths \ {thread[q]} |-> thread_paths[t]]
    /\ paths' = [paths EXCEPT ![SlotOf(q)] = [room |-> NoQuery, path |-> NoQuery]]
    /\ available_index' = Append(available_index, SlotOf(q))

-----------------------------------------------------------------------------
(* A session that runs a query with a MATCH                                *)

Accept(q, t) ==
    /\ pc[q] = "waiting" /\ \A r \in 1 .. q - 1 : pc[r] # "waiting"
    /\ \A r \in Live : thread[r] # t
    /\ thread' = [thread EXCEPT ![q] = t]
    /\ order_by' \in {order_by, order_by \cup {q}}
    /\ Goto(q, "building")
    /\ UNCHANGED <<slot_vars, thread2index>>

\* The plan is built from the inside: the slot is taken with the MATCH.
BuildMatch(q) ==
    /\ pc[q] = "building"
    /\ IF available_index # <<>>
       THEN Begin(q) /\ Goto(q, IF q \in order_by THEN "begun" ELSE "executing")
       ELSE Goto(q, "undefined") /\ UNCHANGED slot_vars
    /\ UNCHANGED <<thread2index, order_by, thread>>

\* The constructor of OrderBy needs the private buffer of its thread, which is
\* never taken back.
GetBuffer(q) ==
    /\ pc[q] = "begun"
    /\ thread[q] \in thread2index \/ Cardinality(thread2index) < MaxThreads
    /\ thread2index' = thread2index \cup {thread[q]}
    /\ Goto(q, "executing")
    /\ UNCHANGED <<slot_vars, order_by, thread>>

\* Without one it throws, and there is no Return yet to clear the slot.
NoBuffer(q) ==
    /\ pc[q] = "begun"
    /\ thread[q] \notin thread2index /\ Cardinality(thread2index) >= MaxThreads
    /\ Stop(q, "failed")
    /\ UNCHANGED <<slot_vars, thread2index, order_by>>

\* No mutex protects the table of the buffers, and print() looks for its slot
\* while others may begin() or clear().
Race(q) ==
    /\ \E r \in Queries \ {q} :
           \/ pc[q] = "begun" /\ pc[r] = "begun"
           \/ pc[q] = "found" /\ (pc[r] = "building" \/ r \in Running)
    /\ Goto(q, "undefined")
    /\ UNCHANGED <<slot_vars, thread2index, order_by, thread>>

\* A path operator finds a path.  A query that sorts may find more of them
\* before the first is printed.
Find(q) ==
    /\ pc[q] = "executing"
    /\ \/ SetPath(q) /\ Goto(q, "found")
       \/ /\ paths[SlotOf(q)].room # q
          /\ Goto(q, "undefined") /\ UNCHANGED slot_vars
    /\ UNCHANGED <<thread2index, order_by, thread>>

PrintPath(q) ==
    /\ pc[q] = "found"
    /\ Goto(q, "executing")
    /\ UNCHANGED <<slot_vars, thread2index, order_by, thread>>

\* There are no more results, the timeout or the loss of the client throws: the
\* plan is destroyed, Return first.
DestroyReturn(q) ==
    /\ q \in Running
    /\ Clear(q)
    /\ Stop(q, "ended")
    /\ UNCHANGED <<thread2index, order_by>>

-----------------------------------------------------------------------------
Init ==
    /\ available_index = [i \in 1 .. MaxThreads |-> i - 1]
    /\ thread_paths = <<>>
    /\ paths = [i \in Slots |-> [room |-> NoQuery, path |-> NoQuery]]
    /\ thread2index = {}
    /\ pc = [q \in Queries |-> "waiting"]
    /\ order_by = {}
    /\ thread = [q \in Queries |-> NoThread]

Session(q) ==
    \/ \E t \in ThreadIds : Accept(q, t)
    \/ BuildMatch(q) \/ GetBuffer(q) \/ NoBuffer(q) \/ Race(q)
    \/ Find(q) \/ PrintPath(q) \/ DestroyReturn(q)

Next == ~Undefined /\ \E q \in Queries : Session(q)
Spec == Init /\ [][Next]_vars

-----------------------------------------------------------------------------
(* Properties                                                              *)

\* A query takes one slot and gives one back, whichever way it ends, except one
\* that fails while its plan is built, which loses one for ever.
SlotsConserved ==
    Undefined \/ Len(available_index) + Cardinality(HasSlot \cup Failed) = MaxThreads

\* The path printed for a query was found by this query, also after slots were
\* lost and the ids of threads used again.
OwnPath == \A q \in Queries : pc[q] = "found" => paths[SlotOf(q)].path = q

\* While no query failed, a slot given to a query has room for its variables.
OwnRoom == \A q \in HasSlot : Failed = {} => paths[SlotOf(q)].room = q

=============================================================================
