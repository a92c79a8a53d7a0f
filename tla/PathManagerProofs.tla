-------------------------- MODULE PathManagerProofs --------------------------
(***************************************************************************)
(* Proofs about PathManager, for any number of queries, threads and slots: *)
(* slots are neither lost nor given twice, and a query prints only its own *)
(* paths, whichever slots were lost and whichever ids used again.          *)
(***************************************************************************)
EXTENDS PathManager, SequenceTheorems, FiniteSetTheorems, TLAPS

USE NumQueriesAssumption, MaxThreadsAssumption

Labels == {"waiting", "building", "begun", "executing", "found", "failed", "ended", "undefined"}

SlotEntry == [room : 0 .. NumQueries, path : 0 .. NumQueries]

TypeInv ==
    /\ available_index \in Seq(Slots)
    /\ DOMAIN thread_paths \subseteq ThreadIds
    /\ thread_paths \in [DOMAIN thread_paths -> Slots]
    /\ paths \in [Slots -> SlotEntry]
    /\ thread2index \subseteq ThreadIds
    /\ pc \in [Queries -> Labels]
    /\ order_by \subseteq Queries
    /\ thread \in [Queries -> ThreadIds \cup {NoThread}]

\* A query that runs has a thread, which no other has, and with it a slot.
ThreadsInv ==
    /\ \A q \in Queries : pc[q] \in {"building", "begun", "executing", "found"} => q \in Live
    /\ \A q, r \in Live : thread[q] = thread[r] => q = r
    /\ \A q \in HasSlot : thread[q] \in DOMAIN thread_paths

\* A slot is at most once in the queue or the table, and never in both.
SlotsInv ==
    /\ \A i, j \in DOMAIN available_index : available_index[i] = available_index[j] => i = j
    /\ \A t, u \in DOMAIN thread_paths : thread_paths[t] = thread_paths[u] => t = u
    /\ \A i \in DOMAIN available_index, t \in DOMAIN thread_paths :
           available_index[i] # thread_paths[t]

\* A query that failed is the only one to leave its thread in the table.
TableInv ==
    ~Undefined /\ Failed = {} => \A t \in DOMAIN thread_paths : \E q \in HasSlot : thread[q] = t

Inv == TypeInv /\ ThreadsInv /\ SlotsInv /\ OwnPath

-----------------------------------------------------------------------------
(* What the operations do to the queue and to the table                    *)

LEMMA TailSeq ==
    ASSUME NEW S, NEW s \in Seq(S), s # <<>>
    PROVE  /\ 1 \in DOMAIN s /\ Head(s) = s[1] /\ Head(s) \in S
           /\ Tail(s) \in Seq(S) /\ Len(Tail(s)) = Len(s) - 1
           /\ \A i \in DOMAIN Tail(s) : i + 1 \in DOMAIN s /\ Tail(s)[i] = s[i + 1]
BY HeadTailProperties, LenProperties

LEMMA AppendSeq ==
    ASSUME NEW S, NEW s \in Seq(S), NEW e \in S
    PROVE  /\ Append(s, e) \in Seq(S) /\ Len(Append(s, e)) = Len(s) + 1
           /\ \A i \in DOMAIN Append(s, e) :
                  IF i = Len(s) + 1 THEN Append(s, e)[i] = e
                  ELSE i \in DOMAIN s /\ Append(s, e)[i] = s[i]
BY AppendProperties, LenProperties

\* begin() takes the slot in front, and does not replace the one of a thread id.
LEMMA BeginSlots ==
    ASSUME TypeInv, NEW q \in Queries, thread[q] \in ThreadIds, available_index # <<>>, Begin(q)
    PROVE  /\ 1 \in DOMAIN available_index /\ Head(available_index) = available_index[1]
           /\ Head(available_index) \in Slots
           /\ available_index' \in Seq(Slots)
           /\ Len(available_index') = Len(available_index) - 1
           /\ \A i \in DOMAIN available_index' :
                  i + 1 \in DOMAIN available_index /\ available_index'[i] = available_index[i + 1]
           /\ DOMAIN thread_paths' = DOMAIN thread_paths \cup {thread[q]}
           /\ \A t \in DOMAIN thread_paths : thread_paths'[t] = thread_paths[t]
           /\ thread[q] \notin DOMAIN thread_paths =>
                  thread_paths'[thread[q]] = Head(available_index)
           /\ thread_paths' \in [DOMAIN thread_paths' -> Slots]
<1>1. available_index \in Seq(Slots)
    BY DEF TypeInv
<1>2. available_index' = Tail(available_index)
    BY DEF Begin
<1>3. /\ 1 \in DOMAIN available_index /\ Head(available_index) = available_index[1]
      /\ Head(available_index) \in Slots
      /\ available_index' \in Seq(Slots)
      /\ Len(available_index') = Len(available_index) - 1
      /\ \A i \in DOMAIN available_index' :
             i + 1 \in DOMAIN available_index /\ available_index'[i] = available_index[i + 1]
    BY <1>1, <1>2, TailSeq
<1>4. thread_paths' = Inserted(thread[q], Head(available_index))
    BY DEF Begin
<1>5. /\ DOMAIN thread_paths' = DOMAIN thread_paths \cup {thread[q]}
      /\ \A t \in DOMAIN thread_paths : thread_paths'[t] = thread_paths[t]
      /\ thread[q] \notin DOMAIN thread_paths => thread_paths'[thread[q]] = Head(available_index)
      /\ thread_paths' = [t \in DOMAIN thread_paths' |-> thread_paths'[t]]
    BY <1>4 DEF Inserted
<1>6. thread_paths' \in [DOMAIN thread_paths' -> Slots]
    <2>1. \A t \in DOMAIN thread_paths' : thread_paths'[t] \in Slots
        BY <1>3, <1>5 DEF TypeInv
    <2> QED BY <1>5, <2>1
<1> QED BY <1>3, <1>5, <1>6

\* clear() gives the slot of the thread id back, which is not that of begin() if
\* the id had one before.
LEMMA ClearSlots ==
    ASSUME TypeInv, NEW q \in Queries, thread[q] \in DOMAIN thread_paths, Clear(q)
    PROVE  /\ SlotOf(q) \in Slots
           /\ available_index' \in Seq(Slots)
           /\ Len(available_index') = Len(available_index) + 1
           /\ \A i \in DOMAIN available_index' :
                  IF i = Len(available_index) + 1 THEN available_index'[i] = SlotOf(q)
                  ELSE i \in DOMAIN available_index /\ available_index'[i] = available_index[i]
           /\ DOMAIN thread_paths' = DOMAIN thread_paths \ {thread[q]}
           /\ \A t \in DOMAIN thread_paths' : thread_paths'[t] = thread_paths[t]
           /\ thread_paths' \in [DOMAIN thread_paths' -> Slots]
<1>1. SlotOf(q) \in Slots /\ available_index \in Seq(Slots)
    BY DEF TypeInv, SlotOf
<1>2. available_index' = Append(available_index, SlotOf(q))
    BY DEF Clear
<1>3. /\ available_index' \in Seq(Slots)
      /\ Len(available_index') = Len(available_index) + 1
      /\ \A i \in DOMAIN available_index' :
             IF i = Len(available_index) + 1 THEN available_index'[i] = SlotOf(q)
             ELSE i \in DOMAIN available_index /\ available_index'[i] = available_index[i]
    BY <1>1, <1>2, AppendSeq
<1>4. /\ DOMAIN thread_paths' = DOMAIN thread_paths \ {thread[q]}
      /\ \A t \in DOMAIN thread_paths' : thread_paths'[t] = thread_paths[t]
      /\ thread_paths' \in [DOMAIN thread_paths' -> Slots]
    BY DEF Clear, TypeInv
<1> QED BY <1>1, <1>3, <1>4

-----------------------------------------------------------------------------
(* Types                                                                   *)

LEMMA TypeInit == Init => TypeInv
<1> SUFFICES ASSUME Init PROVE TypeInv
    OBVIOUS
<1>1. available_index \in Seq(Slots)
    <2>1. [i \in 1 .. MaxThreads |-> i - 1] \in Seq(Slots)
        BY IsASeq DEF Slots
    <2> QED BY <2>1 DEF Init
<1>2. DOMAIN thread_paths = {} /\ thread_paths \in [DOMAIN thread_paths -> Slots]
    BY DEF Init
<1>3. paths \in [Slots -> SlotEntry]
    BY DEF Init, NoQuery, SlotEntry
<1> QED BY <1>1, <1>2, <1>3 DEF Init, TypeInv, Labels

LEMMA TypeStep == TypeInv /\ ThreadsInv /\ [Next]_vars => TypeInv'
<1> SUFFICES ASSUME TypeInv, ThreadsInv, [Next]_vars PROVE TypeInv'
    OBVIOUS
<1>1. ASSUME NEW q \in Queries, Session(q) PROVE TypeInv'
    <2> USE DEF Goto, Stop, slot_vars
    <2>1. CASE \E t \in ThreadIds : Accept(q, t)
        BY <2>1 DEF Accept, TypeInv, Labels
    <2>2. CASE BuildMatch(q)
        <3>1. thread[q] \in ThreadIds
            BY <2>2 DEF BuildMatch, TypeInv, ThreadsInv, Live
        <3>2. CASE available_index # <<>>
            <4>1. Begin(q)
                BY <2>2, <3>2 DEF BuildMatch
            <4>2. paths' \in [Slots -> SlotEntry]
                BY <4>1, <3>1, <3>2, BeginSlots DEF Begin, TypeInv, NoQuery, Queries, SlotEntry
            <4>3. pc' \in [Queries -> Labels]
                BY <2>2, <3>2 DEF BuildMatch, TypeInv, Labels
            <4>4. UNCHANGED <<thread2index, order_by, thread>>
                BY <2>2 DEF BuildMatch
            <4>5. /\ available_index' \in Seq(Slots)
                  /\ DOMAIN thread_paths' \subseteq ThreadIds
                  /\ thread_paths' \in [DOMAIN thread_paths' -> Slots]
                <5>1. DOMAIN thread_paths \subseteq ThreadIds
                    BY DEF TypeInv
                <5> QED BY <4>1, <3>1, <3>2, <5>1, BeginSlots
            <4> QED BY <4>2, <4>3, <4>4, <4>5 DEF TypeInv
        <3>3. CASE available_index = <<>>
            BY <2>2, <3>3 DEF BuildMatch, TypeInv, Labels
        <3> QED BY <3>2, <3>3
    <2>3. CASE GetBuffer(q)
        <3>1. thread[q] \in ThreadIds
            BY <2>3 DEF GetBuffer, TypeInv, ThreadsInv, Live
        <3> QED BY <2>3, <3>1 DEF GetBuffer, TypeInv, Labels
    <2>4. CASE NoBuffer(q) \/ Race(q) \/ PrintPath(q)
        BY <2>4 DEF NoBuffer, Race, PrintPath, TypeInv, Labels
    <2>5. CASE Find(q)
        <3>1. pc' \in [Queries -> Labels]
            BY <2>5 DEF Find, TypeInv, Labels
        <3>2. paths' \in [Slots -> SlotEntry]
            <4>1. CASE paths' = [paths EXCEPT ![SlotOf(q)].path = q]
                <5>1. ASSUME NEW e \in SlotEntry PROVE [e EXCEPT !.path = q] \in SlotEntry
                    BY DEF SlotEntry, Queries
                <5>2. paths' = [paths EXCEPT ![SlotOf(q)] = [paths[SlotOf(q)] EXCEPT !.path = q]]
                    BY <4>1
                <5> QED BY <5>1, <5>2 DEF TypeInv
            <4>2. CASE paths' = paths
                BY <4>2 DEF TypeInv
            <4> QED BY <2>5, <4>1, <4>2 DEF Find, SetPath
        <3>3. UNCHANGED <<available_index, thread_paths, thread2index, order_by, thread>>
            BY <2>5 DEF Find, SetPath
        <3> QED BY <3>1, <3>2, <3>3 DEF TypeInv
    <2>6. CASE DestroyReturn(q)
        <3>1. thread[q] \in DOMAIN thread_paths /\ Clear(q)
            BY <2>6 DEF DestroyReturn, ThreadsInv, HasSlot
        <3>2. paths' \in [Slots -> SlotEntry]
            <4>1. [room |-> NoQuery, path |-> NoQuery] \in SlotEntry
                BY DEF SlotEntry, NoQuery
            <4> QED BY <3>1, <4>1 DEF Clear, TypeInv
        <3>3. UNCHANGED <<thread2index, order_by>>
            BY <2>6 DEF DestroyReturn
        <3>4. pc' \in [Queries -> Labels] /\ thread' \in [Queries -> ThreadIds \cup {NoThread}]
            BY <2>6 DEF DestroyReturn, TypeInv, Labels
        <3>5. DOMAIN thread_paths' \subseteq ThreadIds
            BY <3>1, ClearSlots DEF TypeInv
        <3> QED BY <3>1, <3>2, <3>3, <3>4, <3>5, ClearSlots DEF TypeInv
    <2> QED BY <1>1, <2>1, <2>2, <2>3, <2>4, <2>5, <2>6 DEF Session
<1>2. CASE UNCHANGED vars
    BY <1>2 DEF vars, slot_vars, TypeInv
<1> QED BY <1>1, <1>2 DEF Next

-----------------------------------------------------------------------------
(* Threads and slots                                                       *)

\* What the queries other than q have is not changed by a step of q.
LEMMA OthersKeep ==
    ASSUME TypeInv, NEW q \in Queries, Session(q), NEW r \in Queries, r # q
    PROVE  pc'[r] = pc[r] /\ thread'[r] = thread[r]
<1> USE DEF Goto, Stop, TypeInv
<1>1. CASE \E t \in ThreadIds : Accept(q, t)
    BY <1>1 DEF Accept
<1>2. CASE BuildMatch(q)
    BY <1>2 DEF BuildMatch
<1>3. CASE GetBuffer(q) \/ NoBuffer(q) \/ Race(q)
    BY <1>3 DEF GetBuffer, NoBuffer, Race
<1>4. CASE Find(q) \/ PrintPath(q) \/ DestroyReturn(q)
    BY <1>4 DEF Find, PrintPath, DestroyReturn
<1> QED BY <1>1, <1>2, <1>3, <1>4 DEF Session

LEMMA ThreadsStep == TypeInv /\ ThreadsInv /\ [Next]_vars => ThreadsInv'
<1> SUFFICES ASSUME TypeInv, ThreadsInv, [Next]_vars PROVE ThreadsInv'
    OBVIOUS
<1>1. ASSUME NEW q \in Queries, Session(q) PROVE ThreadsInv'
    <2> USE DEF Goto, Stop, slot_vars
    <2>1. CASE \E t \in ThreadIds : Accept(q, t)
        <3>1. PICK t \in ThreadIds : Accept(q, t)
            BY <2>1
        <3>2. /\ t # NoThread /\ thread' = [thread EXCEPT ![q] = t]
              /\ pc[q] = "waiting" /\ pc' = [pc EXCEPT ![q] = "building"]
              /\ thread_paths' = thread_paths /\ \A r \in Live : thread[r] # t
            BY <3>1, ThreadIdsAssumption DEF Accept, NoThread
        <3>3. Live' = Live \cup {q}
            BY <3>2 DEF Live, TypeInv
        <3>4. HasSlot' = HasSlot
            BY <3>2 DEF HasSlot, Running, TypeInv
        <3>5. \A r \in HasSlot : r # q
            BY <3>2 DEF HasSlot, Running
        <3>6. \A r \in Live : thread[r] # t
            BY <3>2
        <3> QED BY <3>2, <3>3, <3>4, <3>5, <3>6 DEF ThreadsInv, TypeInv, Live, HasSlot, Running
    <2>2. CASE BuildMatch(q)
        <3>1. /\ thread[q] \in ThreadIds /\ thread' = thread /\ Live' = Live
            BY <2>2 DEF BuildMatch, TypeInv, ThreadsInv, Live
        <3>2. CASE available_index # <<>>
            <4>1. Begin(q) /\ pc[q] = "building"
                BY <2>2, <3>2 DEF BuildMatch
            <4>2. DOMAIN thread_paths' = DOMAIN thread_paths \cup {thread[q]}
                BY <4>1, <3>1, <3>2, BeginSlots
            <4>3. HasSlot' = HasSlot \cup {q}
                BY <2>2, <3>2 DEF BuildMatch, HasSlot, Running, TypeInv
            <4> QED BY <2>2, <3>1, <3>2, <4>1, <4>2, <4>3
                    DEF BuildMatch, ThreadsInv, TypeInv, HasSlot, Running
        <3>3. CASE available_index = <<>>
            <4>1. HasSlot' = HasSlot /\ thread_paths' = thread_paths
                BY <2>2, <3>3 DEF BuildMatch, HasSlot, Running, TypeInv
            <4> QED BY <2>2, <3>1, <3>3, <4>1 DEF BuildMatch, ThreadsInv, TypeInv
        <3> QED BY <3>2, <3>3
    <2>3. CASE GetBuffer(q) \/ PrintPath(q)
        <3>1. HasSlot' = HasSlot /\ thread_paths' = thread_paths /\ thread' = thread
            BY <2>3 DEF GetBuffer, PrintPath, HasSlot, Running, TypeInv
        <3> QED BY <2>3, <3>1 DEF GetBuffer, PrintPath, ThreadsInv, Live, TypeInv
    <2>4. CASE NoBuffer(q)
        BY <2>4 DEF NoBuffer, ThreadsInv, Live, HasSlot, Running, TypeInv
    <2>5. CASE Race(q)
        BY <2>5 DEF Race, ThreadsInv, Live, HasSlot, Running, TypeInv
    <2>6. CASE Find(q)
        <3>1. /\ thread_paths' = thread_paths /\ thread' = thread /\ pc[q] = "executing"
              /\ \/ pc' = [pc EXCEPT ![q] = "found"]
                 \/ pc' = [pc EXCEPT ![q] = "undefined"]
            BY <2>6 DEF Find, SetPath
        <3> QED BY <3>1 DEF ThreadsInv, Live, HasSlot, Running, TypeInv
    <2>7. CASE DestroyReturn(q)
        <3>1. /\ thread' = [thread EXCEPT ![q] = NoThread] /\ pc' = [pc EXCEPT ![q] = "ended"]
              /\ q \in HasSlot /\ thread[q] \in DOMAIN thread_paths /\ Clear(q)
            BY <2>7 DEF DestroyReturn, ThreadsInv, HasSlot
        <3>2. DOMAIN thread_paths' = DOMAIN thread_paths \ {thread[q]}
            BY <3>1, ClearSlots
        <3>3. Live' = Live \ {q} /\ HasSlot' = HasSlot \ {q}
            BY <3>1 DEF Live, HasSlot, Running, TypeInv
        <3>4. \A r \in HasSlot' : thread[r] # thread[q]
            BY <3>1, <3>3 DEF ThreadsInv, HasSlot, Running
        <3> QED BY <3>1, <3>2, <3>3, <3>4, OthersKeep, <1>1
                DEF ThreadsInv, TypeInv, HasSlot, Running, Live
    <2> QED BY <1>1, <2>1, <2>2, <2>3, <2>4, <2>5, <2>6, <2>7 DEF Session
<1>2. CASE UNCHANGED vars
    BY <1>2 DEF vars, slot_vars, ThreadsInv, Live, HasSlot, Running
<1> QED BY <1>1, <1>2 DEF Next

\* A step that neither begins nor clears leaves the queue and the table.
LEMMA SlotsKept ==
    ASSUME NEW q \in Queries, Session(q)
    PROVE  \/ UNCHANGED <<available_index, thread_paths>>
           \/ BuildMatch(q) /\ available_index # <<>> /\ Begin(q)
           \/ DestroyReturn(q) /\ Clear(q)
<1> USE DEF slot_vars
<1>1. CASE \E t \in ThreadIds : Accept(q, t)
    BY <1>1 DEF Accept
<1>2. CASE BuildMatch(q)
    BY <1>2 DEF BuildMatch
<1>3. CASE GetBuffer(q) \/ NoBuffer(q) \/ Race(q) \/ PrintPath(q)
    BY <1>3 DEF GetBuffer, NoBuffer, Race, PrintPath
<1>4. CASE Find(q)
    BY <1>4 DEF Find, SetPath
<1>5. CASE DestroyReturn(q)
    BY <1>5 DEF DestroyReturn
<1> QED BY <1>1, <1>2, <1>3, <1>4, <1>5 DEF Session

LEMMA SlotsStep == TypeInv /\ ThreadsInv /\ SlotsInv /\ [Next]_vars => SlotsInv'
<1> SUFFICES ASSUME TypeInv, ThreadsInv, SlotsInv, [Next]_vars PROVE SlotsInv'
    OBVIOUS
<1>1. ASSUME NEW q \in Queries, Session(q) PROVE SlotsInv'
    <2>1. CASE UNCHANGED <<available_index, thread_paths>>
        BY <2>1 DEF SlotsInv
    <2>2. CASE BuildMatch(q) /\ available_index # <<>> /\ Begin(q)
        <3>1. thread[q] \in ThreadIds
            BY <2>2 DEF BuildMatch, TypeInv, ThreadsInv, Live
        <3>2. /\ 1 \in DOMAIN available_index /\ Head(available_index) = available_index[1]
              /\ \A i \in DOMAIN available_index' :
                     i + 1 \in DOMAIN available_index /\ available_index'[i] = available_index[i + 1]
              /\ DOMAIN thread_paths' = DOMAIN thread_paths \cup {thread[q]}
              /\ \A t \in DOMAIN thread_paths : thread_paths'[t] = thread_paths[t]
              /\ thread[q] \notin DOMAIN thread_paths => thread_paths'[thread[q]] = Head(available_index)
            BY <2>2, <3>1, BeginSlots
        <3>3. DOMAIN available_index' \subseteq Nat \ {0}
            BY <2>2, <3>1, BeginSlots, LenProperties
        <3>4. \A i, j \in DOMAIN available_index' : available_index'[i] = available_index'[j] => i = j
            BY <3>2, <3>3 DEF SlotsInv
        <3>5. \A t, u \in DOMAIN thread_paths' : thread_paths'[t] = thread_paths'[u] => t = u
            BY <3>2 DEF SlotsInv
        <3>6. ASSUME NEW i \in DOMAIN available_index', NEW t \in DOMAIN thread_paths'
              PROVE  available_index'[i] # thread_paths'[t]
            <4>1. i + 1 # 1 /\ i + 1 \in DOMAIN available_index
                BY <3>2, <3>3
            <4>2. available_index[i + 1] # available_index[1]
                BY <3>2, <4>1 DEF SlotsInv
            <4> QED BY <3>2, <4>1, <4>2 DEF SlotsInv
        <3> QED BY <3>4, <3>5, <3>6 DEF SlotsInv
    <2>3. CASE DestroyReturn(q) /\ Clear(q)
        <3>1. thread[q] \in DOMAIN thread_paths
            BY <2>3 DEF DestroyReturn, ThreadsInv, HasSlot
        <3>2. /\ \A i \in DOMAIN available_index' :
                     IF i = Len(available_index) + 1 THEN available_index'[i] = thread_paths[thread[q]]
                     ELSE i \in DOMAIN available_index /\ available_index'[i] = available_index[i]
              /\ DOMAIN thread_paths' = DOMAIN thread_paths \ {thread[q]}
              /\ \A t \in DOMAIN thread_paths' : thread_paths'[t] = thread_paths[t]
            BY <2>3, <3>1, ClearSlots DEF SlotOf
        <3> QED BY <3>1, <3>2 DEF SlotsInv
    <2> QED BY <1>1, <2>1, <2>2, <2>3, SlotsKept
<1>2. CASE UNCHANGED vars
    BY <1>2 DEF vars, slot_vars, SlotsInv
<1> QED BY <1>1, <1>2 DEF Next

-----------------------------------------------------------------------------
(* Paths                                                                   *)

\* The slots of two queries are different ones.
LEMMA SlotsApart ==
    ASSUME TypeInv, ThreadsInv, SlotsInv, NEW q \in HasSlot, NEW r \in HasSlot, q # r
    PROVE  SlotOf(q) # SlotOf(r)
BY DEF TypeInv, ThreadsInv, SlotsInv, SlotOf, HasSlot, Running

\* Only its own step changes the entry of the slot of a query, and what it has.
LEMMA EntryKept ==
    ASSUME TypeInv, ThreadsInv, SlotsInv, NEW q \in Queries, Session(q),
           NEW r \in HasSlot, r # q
    PROVE  SlotOf(r)' = SlotOf(r) /\ paths'[SlotOf(r)] = paths[SlotOf(r)]
<1>1. thread[r] \in DOMAIN thread_paths /\ SlotOf(r) \in Slots /\ r \in Queries
    BY DEF ThreadsInv, TypeInv, SlotOf, HasSlot, Running
<1>2. thread'[r] = thread[r]
    BY <1>1, OthersKeep
<1>3. CASE BuildMatch(q) /\ available_index # <<>> /\ Begin(q)
    <2>1. thread[q] \in ThreadIds
        BY <1>3 DEF BuildMatch, TypeInv, ThreadsInv, Live
    <2>2. /\ thread_paths'[thread[r]] = thread_paths[thread[r]]
          /\ Head(available_index) # thread_paths[thread[r]]
        <3>1. /\ 1 \in DOMAIN available_index /\ Head(available_index) = available_index[1]
              /\ \A t \in DOMAIN thread_paths : thread_paths'[t] = thread_paths[t]
            BY <1>3, <2>1, BeginSlots
        <3> QED BY <1>1, <3>1 DEF SlotsInv
    <2>3. SlotOf(r)' = SlotOf(r)
        BY <1>2, <2>2 DEF SlotOf
    <2>4. Head(available_index) # SlotOf(r)
        BY <2>2 DEF SlotOf
    <2> QED BY <1>1, <1>3, <2>3, <2>4 DEF Begin, TypeInv
<1>4. CASE DestroyReturn(q) /\ Clear(q)
    <2>1. q \in HasSlot /\ thread[q] \in DOMAIN thread_paths
        BY <1>4 DEF DestroyReturn, HasSlot, ThreadsInv
    <2>2. SlotOf(q) # SlotOf(r) /\ thread[r] # thread[q]
        BY <2>1, SlotsApart DEF SlotOf
    <2>3. thread_paths'[thread[r]] = thread_paths[thread[r]]
        BY <1>1, <1>4, <2>1, <2>2, ClearSlots
    <2>4. SlotOf(r)' = SlotOf(r)
        BY <1>2, <2>3 DEF SlotOf
    <2> QED BY <1>1, <1>4, <2>2, <2>4 DEF Clear, TypeInv
<1>5. CASE Find(q)
    <2>1. SlotOf(q) # SlotOf(r)
        BY <1>5, SlotsApart DEF Find, HasSlot, Running
    <2>2. thread_paths' = thread_paths /\ \A s \in Slots : s # SlotOf(q) => paths'[s] = paths[s]
        BY <1>5 DEF Find, SetPath, slot_vars, TypeInv
    <2> QED BY <1>1, <1>2, <2>1, <2>2 DEF SlotOf
<1>6. CASE UNCHANGED slot_vars
    BY <1>2, <1>6 DEF slot_vars, SlotOf
<1>7. \/ UNCHANGED slot_vars \/ Find(q)
      \/ BuildMatch(q) /\ available_index # <<>> /\ Begin(q)
      \/ DestroyReturn(q) /\ Clear(q)
    BY DEF Session, Accept, BuildMatch, GetBuffer, NoBuffer, Race, PrintPath, DestroyReturn
<1> QED BY <1>3, <1>4, <1>5, <1>6, <1>7

\* A query has found a path after set_path() only.
LEMMA FoundStep ==
    ASSUME TypeInv, NEW q \in Queries, Session(q), pc'[q] = "found"
    PROVE  Find(q) /\ SetPath(q)
<1> USE DEF Goto, Stop, TypeInv
<1>1. CASE \E t \in ThreadIds : Accept(q, t)
    BY <1>1 DEF Accept
<1>2. CASE BuildMatch(q)
    BY <1>2 DEF BuildMatch
<1>3. CASE GetBuffer(q) \/ NoBuffer(q) \/ Race(q)
    BY <1>3 DEF GetBuffer, NoBuffer, Race
<1>4. CASE PrintPath(q) \/ DestroyReturn(q)
    BY <1>4 DEF PrintPath, DestroyReturn
<1>5. CASE Find(q)
    BY <1>5 DEF Find
<1> QED BY <1>1, <1>2, <1>3, <1>4, <1>5 DEF Session

LEMMA OwnPathStep == Inv /\ [Next]_vars => OwnPath'
<1> SUFFICES ASSUME Inv, [Next]_vars PROVE OwnPath'
    OBVIOUS
<1>1. ASSUME NEW q \in Queries, Session(q), NEW r \in Queries, pc'[r] = "found"
      PROVE  (paths[SlotOf(r)].path = r)'
    <2>1. CASE r # q
        <3>1. pc[r] = "found" /\ r \in HasSlot
            BY <1>1, <2>1, OthersKeep DEF HasSlot, Running, Inv
        <3>2. SlotOf(r)' = SlotOf(r) /\ paths'[SlotOf(r)] = paths[SlotOf(r)]
            BY <1>1, <2>1, <3>1, EntryKept DEF Inv
        <3> QED BY <3>1, <3>2 DEF OwnPath, Inv
    <2>2. CASE r = q
        <3>1. Find(q) /\ SetPath(q)
            BY <1>1, <2>2, FoundStep DEF Inv
        <3>2. SlotOf(q)' = SlotOf(q)
            BY <3>1 DEF Find, SetPath, SlotOf
        <3>3. SlotOf(q) \in Slots
            BY <3>1 DEF Find, Inv, TypeInv, ThreadsInv, HasSlot, Running, SlotOf
        <3>4. paths'[SlotOf(q)] = [paths[SlotOf(q)] EXCEPT !.path = q]
            BY <3>1, <3>3 DEF SetPath, Inv, TypeInv
        <3>5. paths[SlotOf(q)] \in SlotEntry
            BY <3>3 DEF Inv, TypeInv
        <3> QED BY <2>2, <3>2, <3>4, <3>5 DEF SlotEntry
    <2> QED BY <2>1, <2>2
<1>2. CASE \E q \in Queries : Session(q)
    BY <1>1, <1>2 DEF OwnPath
<1>3. CASE UNCHANGED vars
    BY <1>3 DEF vars, slot_vars, OwnPath, SlotOf, Inv
<1> QED BY <1>2, <1>3 DEF Next

LEMMA InvInit == Init => Inv
<1> SUFFICES ASSUME Init PROVE Inv
    OBVIOUS
<1>1. ThreadsInv
    BY DEF Init, ThreadsInv, Live, HasSlot, Running
<1>2. SlotsInv
    BY DEF Init, SlotsInv
<1>3. OwnPath
    BY DEF Init, OwnPath
<1> QED BY <1>1, <1>2, <1>3, TypeInit DEF Inv

LEMMA InvStep == Inv /\ [Next]_vars => Inv'
BY TypeStep, ThreadsStep, SlotsStep, OwnPathStep DEF Inv

\* The path that print() reads was found by the search of this query, for any
\* number of queries, threads and slots, also when slots were lost and an id leads
\* to an old one.
THEOREM OwnPathCorrect == Spec => []OwnPath
<1>1. Inv => OwnPath
    BY DEF Inv
<1> QED BY <1>1, InvInit, InvStep, PTL DEF Spec

-----------------------------------------------------------------------------
(* The count of the slots                                                  *)

LEMMA CountStep == TypeInv /\ ThreadsInv /\ SlotsConserved /\ [Next]_vars => SlotsConserved'
<1> SUFFICES ASSUME TypeInv, ThreadsInv, SlotsConserved, [Next]_vars, ~Undefined'
             PROVE  SlotsConserved'
    BY DEF SlotsConserved
<1> DEFINE Taken == HasSlot \cup Failed
<1>1. IsFiniteSet(Taken) /\ Cardinality(Taken) \in Nat
    <2>1. IsFiniteSet(1 .. NumQueries)
        BY FS_Interval
    <2>2. Taken \in SUBSET (1 .. NumQueries)
        BY DEF HasSlot, Failed, Running, Queries
    <2>3. IsFiniteSet(Taken)
        BY <2>1, <2>2, FS_Subset
    <2> QED BY <2>3, FS_CardinalityType
<1>2. ASSUME NEW q \in Queries, Session(q), ~Undefined PROVE SlotsConserved'
    <2> USE DEF Goto, Stop
    <2>1. Len(available_index) + Cardinality(Taken) = MaxThreads /\ Len(available_index) \in Nat
        BY <1>2, LenProperties DEF SlotsConserved, TypeInv
    <2>2. CASE BuildMatch(q)
        <3>1. thread[q] \in ThreadIds
            BY <2>2 DEF BuildMatch, TypeInv, ThreadsInv, Live
        <3>2. available_index # <<>> /\ Begin(q)
            BY <2>2 DEF BuildMatch, Undefined, TypeInv
        <3>3. Len(available_index') = Len(available_index) - 1
            BY <3>1, <3>2, BeginSlots
        <3>4. Taken' = Taken \cup {q} /\ q \notin Taken
            BY <2>2, <3>2 DEF BuildMatch, HasSlot, Failed, Running, TypeInv
        <3>5. Cardinality(Taken') = Cardinality(Taken) + 1
            BY <1>1, <3>4, FS_AddElement
        <3> QED BY <1>1, <2>1, <3>3, <3>5 DEF SlotsConserved
    <2>3. CASE DestroyReturn(q)
        <3>1. thread[q] \in DOMAIN thread_paths /\ Clear(q)
            BY <2>3 DEF DestroyReturn, ThreadsInv, HasSlot
        <3>2. Len(available_index') = Len(available_index) + 1
            BY <3>1, ClearSlots
        <3>3. Taken' = Taken \ {q} /\ q \in Taken
            <4>1. q \in Running /\ pc' = [pc EXCEPT ![q] = "ended"] /\ pc \in [Queries -> Labels]
                BY <2>3 DEF DestroyReturn, TypeInv
            <4> QED BY <4>1 DEF HasSlot, Failed, Running
        <3>4. Cardinality(Taken') = Cardinality(Taken) - 1
            <4>1. IsFiniteSet(Taken) /\ q \in Taken
                BY <1>1, <3>3
            <4>2. Cardinality(Taken \ {q}) = Cardinality(Taken) - 1
                <5> HIDE DEF Taken
                <5> QED BY <4>1, FS_RemoveElement
            <4> QED BY <3>3, <4>2
        <3> QED BY <1>1, <2>1, <3>2, <3>4 DEF SlotsConserved
    \* A failed query has not given its slot back.
    <2>4. CASE NoBuffer(q)
        <3>1. Taken' = Taken /\ available_index' = available_index
            <4>1. /\ pc[q] = "begun" /\ pc' = [pc EXCEPT ![q] = "failed"] /\ pc \in [Queries -> Labels]
                  /\ available_index' = available_index
                BY <2>4 DEF NoBuffer, TypeInv, slot_vars
            <4> QED BY <4>1 DEF HasSlot, Failed, Running
        <3> QED BY <2>1, <3>1 DEF SlotsConserved
    <2>5. CASE (\E t \in ThreadIds : Accept(q, t)) \/ GetBuffer(q) \/ PrintPath(q)
        <3>1. Taken' = Taken /\ available_index' = available_index
            BY <2>5 DEF Accept, GetBuffer, PrintPath, HasSlot, Failed, Running, TypeInv, slot_vars
        <3> QED BY <2>1, <3>1 DEF SlotsConserved
    <2>6. CASE Find(q)
        <3>1. pc[q] = "executing" /\ pc' = [pc EXCEPT ![q] = "found"]
              /\ available_index' = available_index
            BY <2>6 DEF Find, SetPath, Undefined, TypeInv
        <3>2. Taken' = Taken
            BY <3>1 DEF HasSlot, Failed, Running, TypeInv
        <3> QED BY <2>1, <3>1, <3>2 DEF SlotsConserved
    <2>7. CASE Race(q)
        BY <2>7 DEF Race, Undefined, TypeInv
    <2> QED BY <1>2, <2>2, <2>3, <2>4, <2>5, <2>6, <2>7 DEF Session
<1>3. CASE UNCHANGED vars
    <2>1. Taken' = Taken /\ available_index' = available_index /\ Undefined' = Undefined
        BY <1>3 DEF vars, slot_vars, HasSlot, Failed, Running, Undefined
    <2> QED BY <2>1 DEF SlotsConserved
<1> QED BY <1>2, <1>3 DEF Next

\* Each query takes one slot and gives one back, for any number of queries, threads
\* and slots; those that failed while their plan was built are what is missing.
THEOREM SlotsCorrect == Spec => []SlotsConserved
<1>1. Init => SlotsConserved
    <2> SUFFICES ASSUME Init PROVE SlotsConserved
        OBVIOUS
    <2>1. HasSlot \cup Failed = {}
        BY DEF Init, HasSlot, Failed, Running
    <2>2. Len(available_index) = MaxThreads
        BY DEF Init
    <2> QED BY <2>1, <2>2, FS_EmptySet DEF SlotsConserved
<1>2. Inv => TypeInv /\ ThreadsInv
    BY DEF Inv
<1> QED BY <1>1, <1>2, InvInit, InvStep, CountStep, PTL DEF Spec

-----------------------------------------------------------------------------
(* Room                                                                    *)

\* A query that failed stays so.
LEMMA FailedStay ==
    ASSUME TypeInv, NEW q \in Queries, Session(q), Failed' = {}
    PROVE  Failed = {} /\ ~NoBuffer(q)
<1>1. pc[q] # "failed"
    BY DEF Session, Accept, BuildMatch, GetBuffer, NoBuffer, Race, Find, PrintPath, DestroyReturn,
           Running
<1>2. \A r \in Queries : r # q => pc'[r] = pc[r]
    BY OthersKeep
<1>3. ~NoBuffer(q)
    BY DEF NoBuffer, Stop, Goto, Failed, TypeInv
<1> QED BY <1>1, <1>2, <1>3 DEF Failed

LEMMA TableStep == Inv /\ TableInv /\ [Next]_vars => TableInv'
<1> SUFFICES ASSUME Inv, TableInv, [Next]_vars, ~Undefined', Failed' = {},
                    NEW t \in DOMAIN thread_paths'
             PROVE  \E r \in HasSlot' : thread'[r] = t
    BY DEF TableInv
<1>1. ASSUME NEW q \in Queries, Session(q), ~Undefined
      PROVE  \E r \in HasSlot' : thread'[r] = t
    <2> USE DEF Goto, Stop
    <2>1. Failed = {} /\ ~NoBuffer(q)
        BY <1>1, FailedStay DEF Inv
    <2>2. \A u \in DOMAIN thread_paths : \E r \in HasSlot : thread[r] = u
        BY <1>1, <2>1 DEF TableInv
    <2>3. CASE BuildMatch(q)
        <3>1. thread[q] \in ThreadIds /\ thread' = thread
            BY <2>3 DEF BuildMatch, Inv, TypeInv, ThreadsInv, Live
        <3>2. available_index # <<>> /\ Begin(q)
            BY <2>3 DEF BuildMatch, Undefined, Inv, TypeInv
        <3>3. DOMAIN thread_paths' = DOMAIN thread_paths \cup {thread[q]}
            BY <3>1, <3>2, BeginSlots DEF Inv
        <3>4. HasSlot' = HasSlot \cup {q}
            BY <2>3, <3>2 DEF BuildMatch, HasSlot, Running, Inv, TypeInv
        <3> QED BY <2>2, <3>1, <3>3, <3>4
    <2>4. CASE DestroyReturn(q)
        <3>1. thread[q] \in DOMAIN thread_paths /\ Clear(q)
            BY <2>4 DEF DestroyReturn, Inv, ThreadsInv, HasSlot
        <3>2. t \in DOMAIN thread_paths /\ t # thread[q]
            BY <3>1, ClearSlots DEF Inv
        <3>3. PICK r \in HasSlot : thread[r] = t
            BY <2>2, <3>2
        <3>4. r # q /\ r \in Queries /\ pc'[r] = pc[r] /\ thread'[r] = thread[r]
            BY <1>1, <3>2, <3>3, OthersKeep DEF HasSlot, Running, Inv
        <3> QED BY <3>3, <3>4 DEF HasSlot, Running
    <2>5. CASE /\ UNCHANGED thread_paths /\ HasSlot \subseteq HasSlot'
               /\ \A r \in HasSlot : thread'[r] = thread[r]
        BY <2>2, <2>5
    <2>6. CASE (\E u \in ThreadIds : Accept(q, u)) \/ GetBuffer(q) \/ PrintPath(q)
        <3>1. UNCHANGED thread_paths /\ HasSlot' = HasSlot
            BY <2>6 DEF Accept, GetBuffer, PrintPath, HasSlot, Running, Inv, TypeInv, slot_vars
        <3>2. \A r \in HasSlot : thread'[r] = thread[r]
            BY <2>6 DEF Accept, GetBuffer, PrintPath, HasSlot, Running, Inv, TypeInv
        <3> QED BY <2>5, <3>1, <3>2
    <2>7. CASE Find(q)
        <3>1. UNCHANGED <<thread_paths, thread>> /\ HasSlot' = HasSlot
            BY <2>7 DEF Find, SetPath, HasSlot, Running, Undefined, Inv, TypeInv, slot_vars
        <3> QED BY <2>5, <3>1
    <2>8. CASE Race(q)
        BY <2>8 DEF Race, Undefined, Inv, TypeInv
    <2> QED BY <1>1, <2>1, <2>3, <2>4, <2>6, <2>7, <2>8 DEF Session
<1>2. CASE UNCHANGED vars
    BY <1>2 DEF vars, slot_vars, TableInv, Undefined, Failed, HasSlot, Running
<1> QED BY <1>1, <1>2 DEF Next

LEMMA RoomStep == Inv /\ TableInv /\ OwnRoom /\ [Next]_vars => OwnRoom'
<1> SUFFICES ASSUME Inv, TableInv, OwnRoom, [Next]_vars, NEW r \in HasSlot', Failed' = {}
             PROVE  (paths[SlotOf(r)].room = r)'
    BY DEF OwnRoom
<1>1. ASSUME NEW q \in Queries, Session(q), ~Undefined PROVE (paths[SlotOf(r)].room = r)'
    <2> USE DEF Goto, Stop
    <2>1. Failed = {} /\ ~NoBuffer(q)
        BY <1>1, FailedStay DEF Inv
    <2>2. CASE r # q
        <3>1. r \in HasSlot
            BY <1>1, <2>2, OthersKeep DEF HasSlot, Running, Inv
        <3>2. SlotOf(r)' = SlotOf(r) /\ paths'[SlotOf(r)] = paths[SlotOf(r)]
            BY <1>1, <2>2, <3>1, EntryKept DEF Inv
        <3> QED BY <2>1, <3>1, <3>2 DEF OwnRoom
    <2>3. CASE r = q /\ BuildMatch(q)
        <3>1. thread[q] \in ThreadIds /\ q \in Live /\ thread' = thread /\ q \notin HasSlot
            BY <2>3 DEF BuildMatch, Inv, TypeInv, ThreadsInv, Live, HasSlot, Running
        <3>2. available_index # <<>> /\ Begin(q)
            BY <2>3 DEF BuildMatch, HasSlot, Running, Inv, TypeInv
        \* No id leads to an old slot.
        <3>3. thread[q] \notin DOMAIN thread_paths
            <4>1. \A s \in HasSlot : s \in Live /\ s # q
                BY <3>1 DEF HasSlot, Running, Inv, ThreadsInv
            <4>2. \A s \in HasSlot : thread[s] # thread[q]
                BY <3>1, <4>1 DEF Inv, ThreadsInv
            <4> QED BY <1>1, <2>1, <4>2 DEF TableInv
        <3>4. SlotOf(q)' = Head(available_index) /\ Head(available_index) \in Slots
            BY <3>1, <3>2, <3>3, BeginSlots DEF Inv, SlotOf
        <3> QED BY <2>3, <3>2, <3>4 DEF Begin, Inv, TypeInv
    <2>4. CASE r = q /\ (GetBuffer(q) \/ PrintPath(q))
        <3>1. q \in HasSlot /\ UNCHANGED <<paths, thread_paths, thread>>
            BY <2>4 DEF GetBuffer, PrintPath, HasSlot, Running, slot_vars
        <3> QED BY <2>1, <2>4, <3>1 DEF OwnRoom, SlotOf
    <2>5. CASE r = q /\ Find(q)
        <3>1. SetPath(q) /\ q \in HasSlot /\ UNCHANGED <<thread_paths, thread>>
            BY <2>5 DEF Find, SetPath, HasSlot, Running, Inv, TypeInv
        <3>2. SlotOf(q)' = SlotOf(q) /\ SlotOf(q) \in Slots
            BY <3>1 DEF SlotOf, Inv, TypeInv, ThreadsInv
        <3>3. paths'[SlotOf(q)] = [paths[SlotOf(q)] EXCEPT !.path = q]
            BY <3>1, <3>2 DEF SetPath, Inv, TypeInv
        <3>4. paths[SlotOf(q)] \in SlotEntry
            BY <3>2 DEF Inv, TypeInv
        <3>5. paths'[SlotOf(q)].room = paths[SlotOf(q)].room
            BY <3>3, <3>4 DEF SlotEntry
        <3> QED BY <2>1, <2>5, <3>1, <3>2, <3>5 DEF OwnRoom
    <2>6. CASE r = q /\ ((\E u \in ThreadIds : Accept(q, u)) \/ Race(q) \/ DestroyReturn(q))
        BY <2>6 DEF Accept, Race, DestroyReturn, HasSlot, Running, Inv, TypeInv
    <2> QED BY <1>1, <2>1, <2>2, <2>3, <2>4, <2>5, <2>6 DEF Session
<1>2. CASE UNCHANGED vars
    BY <1>2 DEF vars, slot_vars, OwnRoom, SlotOf, HasSlot, Running, Failed
<1> QED BY <1>1, <1>2 DEF Next

\* As long as no query failed the slot that a thread id leads to was given to the
\* query of this thread, so that set_path() writes where there is room.
THEOREM OwnRoomCorrect == Spec => []OwnRoom
<1>1. Init => TableInv /\ OwnRoom
    BY DEF Init, TableInv, OwnRoom, HasSlot, Running
<1> QED BY <1>1, InvInit, InvStep, TableStep, RoomStep, PTL DEF Spec
=============================================================================
