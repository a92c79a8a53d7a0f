------------------------- MODULE BufferManagerProofs -------------------------
(***************************************************************************)
(* Proofs about BufferManager, for any number of threads, references,      *)
(* frames, files and pages: what a client has stays where it is, the pins  *)
(* of a frame are its references, and clients see a store of pages.        *)
(***************************************************************************)
EXTENDS BufferManager, FiniteSetTheorems, TLAPS

Frame == [page : PageIds \cup {NoPage}, pins : Nat, usage : 0 .. MaxUsage,
          dirty : BOOLEAN, bytes : Values]

\* The references to the page of a frame.
Users(f) == {h \in Handles : ~Free(h) /\ held[h].frame = f}

\* The frames and the table of pages agree, and a page is in one frame only.
TableInv ==
    /\ \A p \in DOMAIN pages : buffer_pool[pages[p]].page = p
    /\ \A f \in Frames : buffer_pool[f].page # NoPage =>
           buffer_pool[f].page \in DOMAIN pages /\ pages[buffer_pool[f].page] = f

\* The page a thread looks a frame for is not in the pool, and its reference to it
\* is still empty.
CallInv ==
    /\ \A h \in Handles : Calling(h) => Free(h)
    /\ mutex # NoCall => Calling(mutex) /\ want[mutex] \notin DOMAIN pages

\* A frame that is not dirty has the bytes of the disk, and there are none past the
\* end of a file.
DiskInv ==
    /\ \A f \in Frames :
           /\ buffer_pool[f].page = NoPage => ~buffer_pool[f].dirty
           /\ buffer_pool[f].page # NoPage /\ ~buffer_pool[f].dirty =>
                  buffer_pool[f].bytes = DiskContent(buffer_pool[f].page)
    /\ \A file \in Files, n \in Nums : n >= size[file] => disk[file][n] = Zero

Inv == TypeOK /\ TableInv /\ CallInv /\ HeldStays /\ PinsCounted /\ DiskInv

USE NumFramesAssumption, BoundsAssumption, HandlesAssumption, ZeroAssumption, NoPageAssumption,
    NoCallAssumption

-----------------------------------------------------------------------------
(* Types                                                                   *)

LEMMA PageParts ==
    ASSUME NEW p \in PageIds
    PROVE  p[1] \in Files /\ p[2] \in Nums /\ p = <<p[1], p[2]>> /\ p # NoPage
BY DEF PageIds

LEMMA DiskType ==
    ASSUME TypeOK
    PROVE  /\ \A p \in PageIds : DiskContent(p) \in Values
           /\ \A f \in Frames : (buffer_pool[f].page = NoPage => ~buffer_pool[f].dirty) =>
                  /\ FlushedDisk(buffer_pool[f]) \in [Files -> [Nums -> Values]]
                  /\ FlushedSize(buffer_pool[f]) \in [Files -> 0 .. MaxPages]
<1>1. \A p \in PageIds : DiskContent(p) \in Values
    BY PageParts DEF TypeOK, DiskContent
<1>2. ASSUME NEW f \in Frames, buffer_pool[f].page = NoPage => ~buffer_pool[f].dirty
      PROVE  /\ FlushedDisk(buffer_pool[f]) \in [Files -> [Nums -> Values]]
             /\ FlushedSize(buffer_pool[f]) \in [Files -> 0 .. MaxPages]
    <2> DEFINE frame == buffer_pool[f]
    <2>1. CASE ~frame.dirty
        BY <2>1 DEF TypeOK, FlushedDisk, FlushedSize
    <2>2. CASE frame.dirty
        <3>1. frame \in [page : PageIds \cup {NoPage}, pins : Nat, usage : 0 .. MaxUsage,
                         dirty : BOOLEAN, bytes : Values]
            BY DEF TypeOK
        <3>2. frame.page \in PageIds /\ frame.bytes \in Values
            BY <1>2, <2>2, <3>1
        <3>3. frame.page[1] \in Files /\ frame.page[2] \in Nums
            BY <3>2, PageParts
        <3>4. disk \in [Files -> [Nums -> Values]] /\ size \in [Files -> 0 .. MaxPages]
            BY DEF TypeOK
        <3>5. [disk EXCEPT ![frame.page[1]][frame.page[2]] = frame.bytes] \in [Files -> [Nums -> Values]]
            <4>1. [disk[frame.page[1]] EXCEPT ![frame.page[2]] = frame.bytes] \in [Nums -> Values]
                BY <3>2, <3>3, <3>4
            <4> QED BY <3>3, <3>4, <4>1
        <3>6. frame.page[2] + 1 \in 0 .. MaxPages
            BY <3>3 DEF Nums
        <3>7. [size EXCEPT ![frame.page[1]] = frame.page[2] + 1] \in [Files -> 0 .. MaxPages]
            BY <3>3, <3>4, <3>6
        <3> QED BY <3>4, <3>5, <3>7 DEF FlushedDisk, FlushedSize
    <2> QED BY <2>1, <2>2
<1> QED BY <1>1, <1>2

LEMMA FrameType == \A frame \in Frame : Aged(frame) \in Frame /\ Shared(frame) \in Frame
BY DEF Aged, Shared, Frame

LEMMA TypeInit == Init => TypeOK
<1> SUFFICES ASSUME Init PROVE TypeOK
    OBVIOUS
<1>1. buffer_pool \in [Frames -> Frame]
    BY DEF Init, EmptyPool, Frame
<1>2. DOMAIN pages \subseteq PageIds /\ pages \in [DOMAIN pages -> Frames]
    BY DEF Init
<1>3. clock_pos \in Frames
    BY DEF Init, Frames
<1> QED BY <1>1, <1>2, <1>3 DEF Init, TypeOK, Frame, NoHandle, Frames

LEMMA TypeStep == Inv /\ [Next]_vars => TypeOK'
<1> SUFFICES ASSUME Inv, [Next]_vars PROVE TypeOK'
    OBVIOUS
<1> USE DEF Inv, TypeOK, vars, pool_vars, disk_vars, Return, Free, Calling
<1>1. ASSUME NEW h \in Handles, NEW p \in PageIds, GetPage(h, p) PROVE TypeOK'
    BY <1>1 DEF GetPage
<1>2. ASSUME NEW h \in Handles, NEW file \in Files, AppendPage(h, file) PROVE TypeOK'
    <2>1. <<file, size[file]>> \in PageIds
        BY <1>2 DEF AppendPage, PageIds, Nums
    <2> QED BY <1>1, <1>2, <2>1 DEF AppendPage
<1>3. ASSUME NEW h \in Handles, Hit(h) PROVE TypeOK'
    <2>1. want[h] \in DOMAIN pages /\ pages[want[h]] \in Frames
        BY <1>3 DEF Hit
    <2>2. buffer_pool' \in [Frames -> Frame]
        BY <1>3, <2>1, FrameType DEF Hit, Frame
    <2>3. held' \in [Handles -> [page : PageIds \cup {NoPage}, frame : Frames]]
        BY <1>3, <2>1 DEF Hit
    <2> QED BY <1>3, <2>2, <2>3 DEF Hit, Frame
<1>4. ASSUME NEW h \in Handles, Miss(h) PROVE TypeOK'
    BY <1>4 DEF Miss
<1>5. ASSUME NEW h \in Handles, Tick(h) PROVE TypeOK'
    <2>1. clock_pos' \in Frames
        BY <1>5 DEF Tick, NextFrame, Frames
    <2>2. buffer_pool' \in [Frames -> Frame]
        BY <1>5, FrameType DEF Tick, Frame
    <2> QED BY <1>5, <2>1, <2>2 DEF Tick, Frame
<1>6. ASSUME NEW h \in Handles, Replace(h) PROVE TypeOK'
    <2>1. want[h] \in PageIds /\ clock_pos \in Frames
        BY <1>6, NoCallAssumption DEF Replace, CallInv
    <2>2. DiskContent(want[h]) \in Values
        BY <2>1, DiskType
    <2>3. disk' \in [Files -> [Nums -> Values]]
        BY <1>6, <2>1, DiskType DEF Replace, DiskInv
    <2>4. size' \in [Files -> 0 .. MaxPages]
        <3>1. FlushedSize(buffer_pool[clock_pos]) \in [Files -> 0 .. MaxPages]
            BY <2>1, DiskType DEF DiskInv
        <3>2. want[h][1] \in Files /\ want[h][2] \in 0 .. MaxPages
            BY <2>1, PageParts DEF Nums
        <3> QED BY <1>6, <3>1, <3>2 DEF Replace, ReadSize
    <2>5. buffer_pool' \in [Frames -> Frame]
        BY <1>6, <2>1, <2>2 DEF Replace, Frame
    <2>6. DOMAIN pages' \subseteq PageIds /\ pages' \in [DOMAIN pages' -> Frames]
        BY <1>6, <2>1 DEF Replace, Erased
    <2>7. want' \in [Handles -> PageIds \cup {NoPage}]
        BY <1>6 DEF Replace
    <2>8. held' \in [Handles -> [page : PageIds \cup {NoPage}, frame : Frames]]
        BY <1>6, <2>1 DEF Replace
    <2> QED BY <1>6, <2>3, <2>4, <2>5, <2>6, <2>7, <2>8 DEF Replace, Frame
<1>7. ASSUME NEW h \in Handles, Unpin(h) PROVE TypeOK'
    <2> DEFINE f == held[h].frame
    <2>1. f \in Frames /\ h \in Users(f)
        BY <1>7 DEF Unpin, Users
    <2>2. IsFiniteSet(Users(f)) /\ Users(f) # {}
        BY <2>1, FS_Subset DEF Users
    <2>3. buffer_pool[f].pins # 0
        BY <2>1, <2>2, FS_EmptySet DEF PinsCounted, Users
    <2>4. buffer_pool[f].pins - 1 \in Nat
        BY <2>1, <2>3
    <2>5. buffer_pool' \in [Frames -> Frame]
        <3>1. buffer_pool[f] \in Frame
            BY <2>1 DEF Frame
        <3>2. Unpinned(buffer_pool[f]) \in Frame
            BY <2>4, <3>1 DEF Unpinned, Frame
        <3> QED BY <1>7, <2>1, <3>2 DEF Unpin, Frame
    <2>6. held' \in [Handles -> [page : PageIds \cup {NoPage}, frame : Frames]]
        BY <1>7 DEF Unpin, NoHandle, Frames
    <2> QED BY <1>7, <2>5, <2>6 DEF Unpin, Frame
<1>8. ASSUME NEW g \in Handles, NEW h \in Handles, Pin(g, h) PROVE TypeOK'
    <2> DEFINE f == held[g].frame
    <2>1. f \in Frames /\ buffer_pool[f].usage + 1 \in 0 .. MaxUsage
        BY <1>8 DEF Pin
    <2>2. Pinned(buffer_pool[f]) \in Frame
        <3>1. buffer_pool[f] \in Frame
            BY <2>1 DEF Frame
        <3>2. buffer_pool[f].pins + 1 \in Nat
            BY <3>1 DEF Frame
        <3> QED BY <2>1, <3>1, <3>2 DEF Pinned, Frame
    <2>3. buffer_pool' \in [Frames -> Frame]
        BY <1>8, <2>1, <2>2 DEF Pin, Frame
    <2> QED BY <1>8, <2>3 DEF Pin, Frame
<1>9. ASSUME NEW h \in Handles, NEW value \in Values, Write(h, value) PROVE TypeOK'
    BY <1>9 DEF Write
<1>10. CASE Restart
    <2>1. buffer_pool' \in [Frames -> Frame] /\ clock_pos' \in Frames
        BY <1>10 DEF Restart, EmptyPool, Frame, Frames
    <2>2. disk' \in [Files -> [Nums -> Values]]
        <3> SUFFICES ASSUME NEW file \in Files, NEW n \in Nums PROVE disk'[file][n] \in Values
            BY <1>10 DEF Restart
        <3>1. <<file, n>> \in DOMAIN pages => buffer_pool[pages[<<file, n>>]].bytes \in Values
            OBVIOUS
        <3> QED BY <1>10, <3>1 DEF Restart
    <2>3. size' \in [Files -> 0 .. MaxPages]
        BY <1>10 DEF Restart
    <2> QED BY <1>10, <2>1, <2>2, <2>3 DEF Restart, Frame
<1>11. CASE UNCHANGED vars
    BY <1>11
<1> QED BY <1>1, <1>2, <1>3, <1>4, <1>5, <1>6, <1>7, <1>8, <1>9, <1>10, <1>11 DEF Next, Search

-----------------------------------------------------------------------------
(* Steps that move no page, and those that do                              *)

\* The steps in which every frame keeps its page, and those that change no byte.
Reads(h) ==
    \/ \E p \in PageIds : GetPage(h, p)
    \/ \E file \in Files : AppendPage(h, file)
    \/ Hit(h) \/ Miss(h) \/ Tick(h) \/ Unpin(h)
    \/ \E g \in Handles : Pin(g, h)
Keeps(h) == Reads(h) \/ \E value \in Values : Write(h, value)

LEMMA Steps ==
    [Next]_vars => \/ \E h \in Handles : Keeps(h) \/ Replace(h)
                   \/ Restart \/ UNCHANGED vars
BY DEF Next, Search, Keeps, Reads

LEMMA AppendGets ==
    ASSUME TypeOK, NEW h \in Handles, NEW file \in Files, AppendPage(h, file)
    PROVE  \E p \in PageIds : GetPage(h, p)
<1>1. <<file, size[file]>> \in PageIds
    BY DEF AppendPage, PageIds, Nums, TypeOK
<1> QED BY <1>1 DEF AppendPage

LEMMA KeepsPages ==
    ASSUME TypeOK, NEW h \in Handles, Keeps(h)
    PROVE  /\ pages' = pages /\ disk' = disk /\ size' = size
           /\ \A f \in Frames : buffer_pool'[f].page = buffer_pool[f].page
<1> USE DEF TypeOK, pool_vars, disk_vars
<1>1. CASE \E p \in PageIds : GetPage(h, p)
    BY <1>1 DEF GetPage
<1>2. CASE \E file \in Files : AppendPage(h, file)
    BY <1>1, <1>2, AppendGets
<1>3. CASE Hit(h) \/ Miss(h)
    <2>1. CASE Hit(h)
        <3>1. want[h] \in DOMAIN pages /\ pages[want[h]] \in Frames
            BY <2>1 DEF Hit
        <3>2. buffer_pool' = [buffer_pool EXCEPT ![pages[want[h]]] = Shared(@)]
            BY <2>1 DEF Hit
        <3> QED BY <2>1, <3>1, <3>2 DEF Hit, Shared
    <2> QED BY <1>3, <2>1 DEF Miss
<1>4. CASE Tick(h)
    BY <1>4 DEF Tick, Aged
<1>5. CASE Unpin(h)
    BY <1>5 DEF Unpin, Unpinned
<1>6. CASE \E g \in Handles : Pin(g, h)
    BY <1>6 DEF Pin, Pinned
<1>7. CASE \E value \in Values : Write(h, value)
    BY <1>7 DEF Write
<1> QED BY <1>1, <1>2, <1>3, <1>4, <1>5, <1>6, <1>7 DEF Keeps, Reads

\* The frame that is replaced is nobody's, and the page that comes is in no frame.
LEMMA ReplaceFacts ==
    ASSUME Inv, NEW h \in Handles, Replace(h)
    PROVE  /\ clock_pos \in Frames /\ Users(clock_pos) = {}
           /\ want[h] \in PageIds \ DOMAIN pages /\ want[h] # buffer_pool[clock_pos].page
           /\ Free(h)
<1>1. clock_pos \in Frames
    BY DEF Inv, TypeOK
<1>2. Users(clock_pos) = {}
    <2>1. buffer_pool[clock_pos].pins = 0
        BY DEF Replace, Usable
    <2>2. Cardinality(Users(clock_pos)) = 0
        BY <1>1, <2>1 DEF Inv, PinsCounted, Users
    <2>3. IsFiniteSet(Users(clock_pos))
        BY FS_Subset DEF Users
    <2> QED BY <2>2, <2>3, FS_EmptySet
<1>3. want[h] \in PageIds \ DOMAIN pages /\ Free(h)
    BY DEF Inv, CallInv, Calling, Replace, TypeOK
<1> QED BY <1>1, <1>2, <1>3 DEF Inv, TableInv

LEMMA ReadsBytes ==
    ASSUME TypeOK, NEW h \in Handles, Reads(h), NEW f \in Frames
    PROVE  buffer_pool'[f].bytes = buffer_pool[f].bytes /\ buffer_pool'[f].dirty = buffer_pool[f].dirty
<1> USE DEF TypeOK, pool_vars
<1>1. CASE (\E p \in PageIds : GetPage(h, p)) \/ Miss(h)
    BY <1>1 DEF GetPage, Miss
<1>2. CASE Hit(h)
    <2>1. want[h] \in DOMAIN pages /\ pages[want[h]] \in Frames
        BY <1>2 DEF Hit
    <2>2. buffer_pool' = [buffer_pool EXCEPT ![pages[want[h]]] = Shared(@)]
        BY <1>2 DEF Hit
    <2> QED BY <2>1, <2>2 DEF Shared
<1>3. CASE Tick(h)
    BY <1>3 DEF Tick, Aged
<1>4. CASE Unpin(h)
    BY <1>4 DEF Unpin, Unpinned
<1>5. CASE \E g \in Handles : Pin(g, h)
    BY <1>5 DEF Pin, Pinned
<1> QED BY <1>1, <1>2, <1>3, <1>4, <1>5, AppendGets DEF Reads

-----------------------------------------------------------------------------
(* The table of pages                                                      *)

LEMMA TableStep == Inv /\ [Next]_vars => TableInv'
<1> SUFFICES ASSUME Inv, [Next]_vars PROVE TableInv'
    OBVIOUS
<1>1. ASSUME NEW h \in Handles, Keeps(h) PROVE TableInv'
    BY <1>1, KeepsPages DEF Inv, TableInv, TypeOK
<1>2. ASSUME NEW h \in Handles, Replace(h) PROVE TableInv'
    <2> DEFINE frame == buffer_pool[clock_pos]
               p == want[h]
    <2>1. /\ DOMAIN pages' = (DOMAIN pages \ {frame.page}) \cup {p}
          /\ pages'[p] = clock_pos
          /\ \A q \in DOMAIN pages \ {frame.page} : q # p => pages'[q] = pages[q]
        BY <1>2 DEF Replace, Erased
    <2>2. /\ buffer_pool'[clock_pos].page = p
          /\ \A f \in Frames : f # clock_pos => buffer_pool'[f] = buffer_pool[f]
        BY <1>2 DEF Replace, Inv, TypeOK
    <2>3. \A q \in DOMAIN pages : pages[q] \in Frames
        BY DEF Inv, TypeOK
    <2>4. p \notin DOMAIN pages
        BY <1>2, ReplaceFacts
    <2> HIDE DEF frame, p
    <2>5. ASSUME NEW q \in DOMAIN pages' PROVE buffer_pool'[pages'[q]].page = q
        <3>1. q # p => pages[q] # clock_pos
            BY <2>1 DEF Inv, TableInv, frame
        <3> QED BY <2>1, <2>2, <2>3, <3>1 DEF Inv, TableInv
    <2>6. ASSUME NEW f \in Frames, buffer_pool'[f].page # NoPage
          PROVE  buffer_pool'[f].page \in DOMAIN pages' /\ pages'[buffer_pool'[f].page] = f
        <3>1. CASE f = clock_pos
            BY <2>1, <2>2, <3>1
        <3>2. CASE f # clock_pos
            <4>1. buffer_pool[f].page # NoPage
                BY <2>2, <2>6, <3>2
            <4>2. buffer_pool[f].page \in DOMAIN pages /\ pages[buffer_pool[f].page] = f
                BY <4>1 DEF Inv, TableInv
            <4>3. buffer_pool[f].page # frame.page
                BY <3>2, <4>1, <4>2, <1>2, ReplaceFacts DEF Inv, TableInv, frame
            <4> QED BY <2>1, <2>2, <2>4, <3>2, <4>2, <4>3
        <3> QED BY <3>1, <3>2
    <2> QED BY <2>5, <2>6 DEF TableInv
<1>3. CASE Restart
    BY <1>3 DEF Restart, EmptyPool, TableInv
<1>4. CASE UNCHANGED vars
    BY <1>4 DEF vars, pool_vars, Inv, TableInv
<1> QED BY <1>1, <1>2, <1>3, <1>4, Steps

LEMMA CallStep == Inv /\ [Next]_vars => CallInv'
<1> SUFFICES ASSUME Inv, [Next]_vars PROVE CallInv'
    OBVIOUS
<1> USE DEF Inv, TypeOK, CallInv, Calling, Free, Return, pool_vars, disk_vars
<1>1. ASSUME NEW h \in Handles, NEW p \in PageIds, GetPage(h, p) PROVE CallInv'
    BY <1>1 DEF GetPage, Idle
<1>2. ASSUME NEW h \in Handles, Hit(h) \/ Miss(h) PROVE CallInv'
    BY <1>2 DEF Hit, Miss
<1>3. ASSUME NEW h \in Handles, Tick(h) PROVE CallInv'
    BY <1>3 DEF Tick
<1>4. ASSUME NEW h \in Handles, Replace(h) PROVE CallInv'
    BY <1>4 DEF Replace
<1>5. ASSUME NEW h \in Handles, Unpin(h) PROVE CallInv'
    BY <1>5 DEF Unpin, Idle, NoHandle
<1>6. ASSUME NEW g \in Handles, NEW h \in Handles, Pin(g, h) PROVE CallInv'
    BY <1>6 DEF Pin, Idle
<1>7. ASSUME NEW h \in Handles, NEW value \in Values, Write(h, value) PROVE CallInv'
    BY <1>7 DEF Write
<1>8. CASE Restart
    BY <1>8 DEF Restart
<1>9. CASE UNCHANGED vars
    BY <1>9 DEF vars
<1> QED BY <1>1, <1>2, <1>3, <1>4, <1>5, <1>6, <1>7, <1>8, <1>9, AppendGets DEF Next, Search

-----------------------------------------------------------------------------
(* References and pins                                                     *)

\* The steps that change neither the references nor the pins.
LEMMA KeepsHeld ==
    ASSUME TypeOK, NEW h \in Handles,
           \/ \E p \in PageIds : GetPage(h, p)
           \/ Miss(h) \/ Tick(h)
           \/ \E value \in Values : Write(h, value)
    PROVE  /\ held' = held
           /\ \A f \in Frames : buffer_pool'[f].pins = buffer_pool[f].pins
<1> USE DEF TypeOK, pool_vars
<1>1. CASE (\E p \in PageIds : GetPage(h, p)) \/ Miss(h)
    BY <1>1 DEF GetPage, Miss
<1>2. CASE Tick(h)
    BY <1>2 DEF Tick, Aged
<1>3. CASE \E value \in Values : Write(h, value)
    BY <1>3 DEF Write
<1> QED BY <1>1, <1>2, <1>3

LEMMA HeldStep == Inv /\ [Next]_vars => HeldStays'
<1> SUFFICES ASSUME Inv, [Next]_vars PROVE HeldStays'
    OBVIOUS
<1> USE DEF Inv, HeldStays
<1>1. ASSUME NEW h \in Handles, held' = held, Keeps(h) PROVE HeldStays'
    BY <1>1, KeepsPages DEF TypeOK, Free
<1>2. ASSUME NEW h \in Handles, Hit(h) PROVE HeldStays'
    <2>1. /\ held' = [held EXCEPT ![h] = [page |-> want[h], frame |-> pages[want[h]]]]
          /\ want[h] \in DOMAIN pages /\ pages[want[h]] \in Frames
        BY <1>2 DEF Hit, TypeOK
    <2>2. buffer_pool[pages[want[h]]].page = want[h]
        BY <2>1 DEF TableInv
    <2> QED BY <1>2, <2>1, <2>2, KeepsPages DEF TypeOK, Free, Keeps, Reads
<1>3. ASSUME NEW h \in Handles, Replace(h) PROVE HeldStays'
    <2> SUFFICES ASSUME NEW g \in Handles, ~Free(g)'
                 PROVE  /\ buffer_pool'[held'[g].frame].page = held'[g].page
                        /\ held'[g].page \in DOMAIN pages'
                        /\ pages'[held'[g].page] = held'[g].frame
        BY DEF HeldStays
    <2> DEFINE frame == buffer_pool[clock_pos]
    <2>1. /\ buffer_pool'[clock_pos].page = want[h]
          /\ \A f \in Frames : f # clock_pos => buffer_pool'[f] = buffer_pool[f]
          /\ pages' = [q \in DOMAIN Erased(frame) \cup {want[h]} |->
                           IF q = want[h] THEN clock_pos ELSE Erased(frame)[q]]
          /\ held' = [held EXCEPT ![h] = [page |-> want[h], frame |-> clock_pos]]
        BY <1>3 DEF Replace, TypeOK
    <2>2. CASE g = h
        BY <2>1, <2>2 DEF TypeOK
    <2>3. CASE g # h
        <3>1. held'[g] = held[g] /\ ~Free(g)
            BY <2>1, <2>3 DEF Free, TypeOK
        <3>2. held[g].frame # clock_pos
            BY <1>3, <3>1, ReplaceFacts DEF Users
        <3>3. held[g].page # frame.page /\ held[g].page # want[h]
            BY <1>3, <3>1, <3>2, ReplaceFacts DEF TableInv, Free
        <3> QED BY <2>1, <3>1, <3>2, <3>3 DEF Erased, TypeOK
    <2> QED BY <2>2, <2>3
<1>4. ASSUME NEW h \in Handles, Unpin(h) PROVE HeldStays'
    <2>1. held' = [held EXCEPT ![h] = NoHandle]
        BY <1>4 DEF Unpin
    <2> QED BY <1>4, <2>1, KeepsPages DEF TypeOK, Free, NoHandle, Keeps, Reads
<1>5. ASSUME NEW g \in Handles, NEW h \in Handles, Pin(g, h) PROVE HeldStays'
    <2>1. held' = [held EXCEPT ![h] = held[g]] /\ ~Free(g)
        BY <1>5 DEF Pin
    <2> QED BY <1>5, <2>1, KeepsPages DEF TypeOK, Free, Keeps, Reads
<1>6. CASE Restart
    BY <1>6 DEF Restart, Free
<1>7. CASE UNCHANGED vars
    BY <1>7 DEF vars, pool_vars, Free
<1> QED BY <1>1, <1>2, <1>3, <1>4, <1>5, <1>6, <1>7, KeepsHeld, AppendGets, Steps DEF Keeps, Reads, Inv

\* A frame that gets or loses a reference gets or loses a pin.
LEMMA Counting ==
    /\ \A f : IsFiniteSet(Users(f)) /\ Cardinality(Users(f)) \in Nat
    /\ \A f, h : h \in Users(f) => Cardinality(Users(f) \ {h}) = Cardinality(Users(f)) - 1
    /\ \A f, h : h \notin Users(f) => Cardinality(Users(f) \cup {h}) = Cardinality(Users(f)) + 1
<1>1. \A f : IsFiniteSet(Users(f))
    BY FS_Subset DEF Users
<1> QED BY <1>1, FS_CardinalityType, FS_AddElement, FS_RemoveElement

LEMMA PinsStep == Inv /\ [Next]_vars => PinsCounted'
<1> SUFFICES ASSUME Inv, [Next]_vars PROVE PinsCounted'
    OBVIOUS
<1>0. /\ \A f \in Frames : buffer_pool[f].pins = Cardinality(Users(f))
      /\ (\A f \in Frames : buffer_pool'[f].pins = Cardinality(Users(f)')) => PinsCounted'
    BY DEF Inv, PinsCounted, Users
<1> USE DEF Inv, TypeOK
<1>1. ASSUME held' = held, \A f \in Frames : buffer_pool'[f].pins = buffer_pool[f].pins
      PROVE  PinsCounted'
    <2>1. \A f : Users(f)' = Users(f)
        BY <1>1 DEF Users, Free
    <2> QED BY <1>0, <1>1, <2>1
<1>2. ASSUME NEW h \in Handles, NEW p \in PageIds, NEW f \in Frames, Free(h),
             held' = [held EXCEPT ![h] = [page |-> p, frame |-> f]],
             \A e \in Frames : buffer_pool'[e].pins =
                 IF e = f THEN buffer_pool[e].pins + 1 ELSE buffer_pool[e].pins
      PROVE  PinsCounted'
    <2>1. \A e \in Frames : Users(e)' = IF e = f THEN Users(e) \cup {h} ELSE Users(e)
        BY <1>2, NoPageAssumption DEF Users, Free
    <2>2. h \notin Users(f)
        BY <1>2 DEF Users
    <2>3. ASSUME NEW e \in Frames PROVE buffer_pool'[e].pins = Cardinality(Users(e)')
        <3>1. CASE e = f
            <4>1. Cardinality(Users(f) \cup {h}) = Cardinality(Users(f)) + 1
                BY <2>2, Counting
            <4> QED BY <1>0, <1>2, <2>1, <3>1, <4>1
        <3>2. CASE e # f
            BY <1>0, <1>2, <2>1, <3>2
        <3> QED BY <3>1, <3>2
    <2> QED BY <1>0, <2>3
<1>3. ASSUME NEW h \in Handles, Hit(h) PROVE PinsCounted'
    <2>1. want[h] \in PageIds /\ pages[want[h]] \in Frames /\ Free(h)
        BY <1>3 DEF Hit, Calling, CallInv
    <2>2. held' = [held EXCEPT ![h] = [page |-> want[h], frame |-> pages[want[h]]]]
        BY <1>3 DEF Hit
    <2>3. buffer_pool' = [buffer_pool EXCEPT ![pages[want[h]]] = Shared(@)]
        BY <1>3 DEF Hit
    <2>4. \A e \in Frames : buffer_pool'[e].pins =
              IF e = pages[want[h]] THEN buffer_pool[e].pins + 1 ELSE buffer_pool[e].pins
        BY <2>1, <2>3 DEF Shared
    <2> QED BY <1>2, <2>1, <2>2, <2>4
<1>4. ASSUME NEW g \in Handles, NEW h \in Handles, Pin(g, h) PROVE PinsCounted'
    <2> DEFINE f == held[g].frame
    <2>1. held[g].page \in PageIds /\ f \in Frames /\ Free(h)
        BY <1>4 DEF Pin, Free
    <2>2. held[g] = [page |-> held[g].page, frame |-> f]
        OBVIOUS
    <2>3. held' = [held EXCEPT ![h] = [page |-> held[g].page, frame |-> f]]
        BY <1>4, <2>2 DEF Pin
    <2>4. buffer_pool' = [buffer_pool EXCEPT ![f] = Pinned(@)]
        BY <1>4 DEF Pin
    <2>5. \A e \in Frames : buffer_pool'[e].pins =
              IF e = f THEN buffer_pool[e].pins + 1 ELSE buffer_pool[e].pins
        BY <2>1, <2>4 DEF Pinned
    <2> HIDE DEF f
    <2> QED BY <1>2, <2>1, <2>3, <2>5
<1>5. ASSUME NEW h \in Handles, Unpin(h) PROVE PinsCounted'
    <2> DEFINE f == held[h].frame
    <2>1. f \in Frames /\ h \in Users(f)
        BY <1>5 DEF Unpin, Users
    <2>2. held' = [held EXCEPT ![h] = NoHandle]
        BY <1>5 DEF Unpin
    <2>3. \A e \in Frames : buffer_pool'[e].pins =
              IF e = f THEN buffer_pool[e].pins - 1 ELSE buffer_pool[e].pins
        BY <1>5, <2>1 DEF Unpin, Unpinned
    <2>4. \A e \in Frames : Users(e)' = IF e = f THEN Users(e) \ {h} ELSE Users(e)
        BY <2>1, <2>2 DEF Users, Free, NoHandle
    <2> HIDE DEF f
    <2>5. ASSUME NEW e \in Frames PROVE buffer_pool'[e].pins = Cardinality(Users(e)')
        BY <1>0, <2>1, <2>3, <2>4, Counting
    <2> QED BY <1>0, <2>5
<1>6. ASSUME NEW h \in Handles, Replace(h) PROVE PinsCounted'
    <2>1. /\ clock_pos \in Frames /\ want[h] \in PageIds /\ Free(h)
          /\ buffer_pool[clock_pos].pins = 0
        BY <1>6, ReplaceFacts DEF Replace, Usable
    <2>2. held' = [held EXCEPT ![h] = [page |-> want[h], frame |-> clock_pos]]
        BY <1>6 DEF Replace
    <2>3. \A e \in Frames : buffer_pool'[e].pins =
              IF e = clock_pos THEN buffer_pool[e].pins + 1 ELSE buffer_pool[e].pins
        BY <1>6, <2>1 DEF Replace
    <2> QED BY <1>2, <2>1, <2>2, <2>3
<1>7. CASE Restart
    <2>1. \A f : Users(f)' = {}
        BY <1>7 DEF Restart, Users, Free
    <2>2. \A f \in Frames : buffer_pool'[f].pins = 0
        BY <1>7 DEF Restart, EmptyPool
    <2> QED BY <1>0, <2>1, <2>2, FS_EmptySet
<1>8. CASE UNCHANGED vars
    BY <1>1, <1>8 DEF vars, pool_vars
<1>9. ASSUME NEW h \in Handles, Keeps(h), ~Hit(h), ~Unpin(h), ~(\E g \in Handles : Pin(g, h))
      PROVE  PinsCounted'
    BY <1>1, <1>9, KeepsHeld, AppendGets DEF Keeps, Reads
<1> QED BY <1>3, <1>4, <1>5, <1>6, <1>7, <1>8, <1>9, Steps

-----------------------------------------------------------------------------
(* The disk                                                                *)

\* What a replacement leaves on the disk: the page that goes, and no other one.
LEMMA ReplaceDisk ==
    ASSUME Inv, NEW h \in Handles, Replace(h)
    PROVE  /\ \A file \in Files, n \in Nums : n >= size'[file] => disk'[file][n] = Zero
           /\ \A q \in PageIds :
                  DiskContent(q)' = IF buffer_pool[clock_pos].dirty /\ buffer_pool[clock_pos].page = q
                                    THEN buffer_pool[clock_pos].bytes ELSE DiskContent(q)
<1> DEFINE frame == buffer_pool[clock_pos]
           p == want[h]
<1>1. /\ frame \in Frame /\ (frame.page = NoPage => ~frame.dirty)
      /\ disk' = FlushedDisk(frame) /\ size' = ReadSize(FlushedSize(frame), p)
      /\ p[1] \in Files /\ p[2] \in Nums
      /\ disk \in [Files -> [Nums -> Values]] /\ size \in [Files -> 0 .. MaxPages]
      /\ \A file \in Files, n \in Nums : n >= size[file] => disk[file][n] = Zero
    BY ReplaceFacts, PageParts DEF Replace, Inv, TypeOK, Frame, DiskInv
<1>2. frame.dirty => frame.page \in PageIds /\ frame.page[1] \in Files /\ frame.page[2] \in Nums
    BY <1>1, PageParts DEF Frame
<1> HIDE DEF frame, p
<1> DEFINE grown == FlushedSize(frame)
<1>3. grown \in [Files -> 0 .. MaxPages]
    BY <1>1, <1>2 DEF FlushedSize, Nums
<1>4. \A file \in Files, n \in Nums :
          /\ disk'[file][n] = IF frame.dirty /\ frame.page = <<file, n>> THEN frame.bytes
                              ELSE disk[file][n]
          /\ size[file] <= grown[file]
          /\ frame.dirty /\ frame.page = <<file, n>> => n < grown[file]
    <2> SUFFICES ASSUME NEW file \in Files, NEW n \in Nums
        PROVE  /\ disk'[file][n] = IF frame.dirty /\ frame.page = <<file, n>> THEN frame.bytes
                                   ELSE disk[file][n]
               /\ size[file] <= grown[file]
               /\ frame.dirty /\ frame.page = <<file, n>> => n < grown[file]
        OBVIOUS
    <2>1. CASE ~frame.dirty
        BY <1>1, <2>1 DEF FlushedDisk, FlushedSize
    <2>2. CASE frame.dirty
        <3>1. frame.page = <<frame.page[1], frame.page[2]>>
            BY <1>2, <2>2, PageParts
        <3>2. disk'[file][n] = IF frame.page = <<file, n>> THEN frame.bytes ELSE disk[file][n]
            BY <1>1, <1>2, <2>2, <3>1 DEF FlushedDisk
        <3>3. grown[file] = IF file = frame.page[1] /\ size[file] <= frame.page[2]
                            THEN frame.page[2] + 1 ELSE size[file]
            BY <1>1, <1>2, <2>2 DEF FlushedSize
        <3>4. size[file] <= grown[file] /\ (frame.page = <<file, n>> => n < grown[file])
            BY <1>1, <1>2, <2>2, <3>3 DEF Nums
        <3> QED BY <2>2, <3>2, <3>4
    <2> QED BY <2>1, <2>2
<1>5. \A file \in Files : size'[file] \in 0 .. MaxPages /\ grown[file] <= size'[file]
    BY <1>1, <1>3 DEF ReadSize, Nums
<1>6. ASSUME NEW file \in Files, NEW n \in Nums
      PROVE  /\ n >= size'[file] => disk'[file][n] = Zero
             /\ n >= grown[file] => disk'[file][n] = Zero
    <2>1. /\ size[file] \in Nat /\ grown[file] \in Nat /\ size'[file] \in Nat /\ n \in Nat
          /\ size[file] <= grown[file] /\ grown[file] <= size'[file]
        BY <1>1, <1>3, <1>4, <1>5 DEF Nums
    <2> HIDE DEF grown
    <2>2. n >= grown[file] => disk'[file][n] = Zero
        BY <1>1, <1>4, <2>1
    <2> QED BY <2>1, <2>2
<1>7. ASSUME NEW q \in PageIds
      PROVE  DiskContent(q)' = IF frame.dirty /\ frame.page = q THEN frame.bytes ELSE DiskContent(q)
    <2>1. /\ q[1] \in Files /\ q[2] \in Nums /\ q[2] \in Nat /\ q = <<q[1], q[2]>>
          /\ size[q[1]] \in Nat /\ grown[q[1]] \in Nat /\ size'[q[1]] \in Nat
        BY <1>1, <1>3, <1>5, PageParts DEF Nums
    <2> HIDE DEF grown
    <2>2. DiskContent(q)' = disk'[q[1]][q[2]]
        BY <1>6, <2>1 DEF DiskContent
    <2>3. DiskContent(q) = disk[q[1]][q[2]]
        BY <1>1, <2>1 DEF DiskContent
    <2> QED BY <1>4, <2>1, <2>2, <2>3
<1> QED BY <1>6, <1>7 DEF frame

\* What the end of the program leaves on the disk: the content of every page.
LEMMA RestartDisk ==
    ASSUME Inv, Restart
    PROVE  /\ \A file \in Files, n \in Nums : n >= size'[file] => disk'[file][n] = Zero
           /\ \A q \in PageIds : DiskContent(q)' = Content(q)
<1> DEFINE InPool(p) == p \in DOMAIN pages /\ buffer_pool[pages[p]].dirty
<1>1. ASSUME NEW file \in Files, NEW n \in Nums
      PROVE  /\ disk'[file][n] = IF InPool(<<file, n>>) THEN buffer_pool[pages[<<file, n>>]].bytes
                                 ELSE disk[file][n]
             /\ size[file] \in Nat /\ size'[file] \in Nat /\ size[file] <= size'[file]
             /\ InPool(<<file, n>>) => n < size'[file]
             /\ n >= size[file] => disk[file][n] = Zero
    <2> DEFINE Past == {m \in Nums : InPool(<<file, m>>) /\ size[file] <= m}
    <2>1. disk'[file][n] = IF InPool(<<file, n>>) THEN buffer_pool[pages[<<file, n>>]].bytes
                           ELSE disk[file][n]
        BY DEF Restart
    <2>2. /\ size[file] \in Nat /\ size'[file] \in Nat /\ n \in Nat
          /\ n >= size[file] => disk[file][n] = Zero
        BY DEF Restart, Inv, TypeOK, DiskInv, Nums
    <2>3. \/ Past = {} /\ size'[file] = size[file]
          \/ \E m \in Past : (\A k \in Past : k <= m) /\ size'[file] = m + 1
        BY DEF Restart
    <2>4. InPool(<<file, n>>) /\ size[file] <= n => n \in Past
        OBVIOUS
    <2>5. \A m \in Past : m \in Nat /\ size[file] <= m
        BY DEF Nums
    <2> HIDE DEF Past, InPool
    <2>6. size[file] <= size'[file] /\ (InPool(<<file, n>>) => n < size'[file])
        BY <2>2, <2>3, <2>4, <2>5
    <2> QED BY <2>1, <2>2, <2>6
<1>2. ASSUME NEW q \in PageIds PROVE DiskContent(q)' = Content(q)
    <2>1. q[1] \in Files /\ q[2] \in Nums /\ q[2] \in Nat /\ q = <<q[1], q[2]>> /\ q # NoPage
        BY PageParts DEF Nums
    <2>2. /\ disk'[q[1]][q[2]] = IF InPool(q) THEN buffer_pool[pages[q]].bytes ELSE disk[q[1]][q[2]]
          /\ size[q[1]] \in Nat /\ size'[q[1]] \in Nat /\ size[q[1]] <= size'[q[1]]
          /\ InPool(q) => q[2] < size'[q[1]]
          /\ q[2] >= size[q[1]] => disk[q[1]][q[2]] = Zero
        BY <1>1, <2>1
    <2>3. CASE InPool(q)
        BY <2>1, <2>2, <2>3 DEF DiskContent, Content
    <2>4. CASE ~InPool(q)
        <3>1. DiskContent(q)' = disk[q[1]][q[2]] /\ DiskContent(q) = disk[q[1]][q[2]]
            BY <2>1, <2>2, <2>4 DEF DiskContent
        <3>2. q \in DOMAIN pages => buffer_pool[pages[q]].bytes = DiskContent(q)
            BY <2>1, <2>4 DEF Inv, TypeOK, TableInv, DiskInv
        <3> QED BY <3>1, <3>2 DEF Content
    <2> QED BY <2>3, <2>4
<1>3. ASSUME NEW file \in Files, NEW n \in Nums, n >= size'[file] PROVE disk'[file][n] = Zero
    <2> HIDE DEF InPool
    <2>1. /\ n \in Nat /\ size[file] \in Nat /\ size'[file] \in Nat
          /\ size[file] <= size'[file] /\ (InPool(<<file, n>>) => n < size'[file])
        BY <1>1 DEF Nums
    <2>2. ~InPool(<<file, n>>) /\ n >= size[file]
        BY <1>3, <2>1
    <2> QED BY <1>1, <2>2
<1> QED BY <1>2, <1>3

LEMMA DiskStep == Inv /\ [Next]_vars => DiskInv'
<1> SUFFICES ASSUME Inv, [Next]_vars PROVE DiskInv'
    OBVIOUS
<1>1. ASSUME NEW h \in Handles, Reads(h) PROVE DiskInv'
    <2>1. \A f \in Frames : /\ buffer_pool'[f].dirty = buffer_pool[f].dirty
                            /\ buffer_pool'[f].bytes = buffer_pool[f].bytes
        BY <1>1, ReadsBytes DEF Inv
    <2>2. \A q : DiskContent(q)' = DiskContent(q)
        BY <1>1, KeepsPages DEF DiskContent, Inv, Keeps
    <2> QED BY <1>1, <2>1, <2>2, KeepsPages DEF Inv, DiskInv, Keeps
<1>2. ASSUME NEW h \in Handles, NEW value \in Values, Write(h, value) PROVE DiskInv'
    <2>1. /\ held[h].frame \in Frames /\ buffer_pool[held[h].frame].page # NoPage
          /\ disk' = disk /\ size' = size
        BY <1>2 DEF Write, disk_vars, Inv, TypeOK, HeldStays, Free
    <2>2. \A f \in Frames :
              /\ buffer_pool'[f].page = buffer_pool[f].page
              /\ f = held[h].frame => buffer_pool'[f].dirty
              /\ f # held[h].frame => buffer_pool'[f] = buffer_pool[f]
        BY <1>2, <2>1 DEF Write, Inv, TypeOK
    <2>3. \A q : DiskContent(q)' = DiskContent(q)
        BY <2>1 DEF DiskContent
    <2> QED BY <2>1, <2>2, <2>3 DEF Inv, DiskInv
<1>3. ASSUME NEW h \in Handles, Replace(h) PROVE DiskInv'
    <2>1. /\ clock_pos \in Frames /\ want[h] \in PageIds
          /\ want[h] # buffer_pool[clock_pos].page /\ want[h] # NoPage
        BY <1>3, ReplaceFacts, PageParts
    <2>2. /\ buffer_pool'[clock_pos].page = want[h] /\ ~buffer_pool'[clock_pos].dirty
          /\ buffer_pool'[clock_pos].bytes = DiskContent(want[h])
          /\ \A f \in Frames : f # clock_pos => buffer_pool'[f] = buffer_pool[f]
        BY <1>3, <2>1 DEF Replace, Inv, TypeOK
    <2>3. ASSUME NEW f \in Frames
          PROVE  /\ buffer_pool'[f].page = NoPage => ~buffer_pool'[f].dirty
                 /\ buffer_pool'[f].page # NoPage /\ ~buffer_pool'[f].dirty =>
                        buffer_pool'[f].bytes = DiskContent(buffer_pool[f].page)'
        <3>1. CASE f = clock_pos
            BY <1>3, <2>1, <2>2, <3>1, ReplaceDisk
        <3>2. CASE f # clock_pos
            <4>1. buffer_pool[f].page # NoPage =>
                      buffer_pool[f].page \in PageIds
                      /\ buffer_pool[f].page # buffer_pool[clock_pos].page
                BY <2>1, <3>2 DEF Inv, TypeOK, TableInv
            <4> QED BY <1>3, <2>2, <3>2, <4>1, ReplaceDisk DEF Inv, DiskInv
        <3> QED BY <3>1, <3>2
    <2> QED BY <1>3, <2>3, ReplaceDisk DEF DiskInv
<1>4. CASE Restart
    <2>1. \A f \in Frames : buffer_pool'[f].page = NoPage /\ ~buffer_pool'[f].dirty
        BY <1>4 DEF Restart, EmptyPool
    <2> QED BY <1>4, <2>1, RestartDisk DEF DiskInv
<1>5. CASE UNCHANGED vars
    BY <1>5 DEF vars, pool_vars, disk_vars, Inv, DiskInv, DiskContent
<1> QED BY <1>1, <1>2, <1>3, <1>4, <1>5, Steps DEF Keeps

-----------------------------------------------------------------------------
(* The invariant                                                           *)

LEMMA InvInit == Init => Inv
<1> SUFFICES ASSUME Init PROVE Inv
    OBVIOUS
<1>1. TypeOK
    BY TypeInit
<1>2. TableInv /\ CallInv /\ HeldStays
    BY DEF Init, EmptyPool, NoHandle, TableInv, CallInv, HeldStays, Calling, Free
<1>3. PinsCounted
    <2> SUFFICES ASSUME NEW f \in Frames
        PROVE buffer_pool[f].pins = Cardinality({h \in Handles : ~Free(h) /\ held[h].frame = f})
        BY DEF PinsCounted
    <2>1. {h \in Handles : ~Free(h) /\ held[h].frame = f} = {}
        BY DEF Init, Free, NoHandle
    <2> QED BY <2>1, FS_EmptySet DEF Init, EmptyPool
<1>4. DiskInv
    BY DEF Init, EmptyPool, DiskInv
<1> QED BY <1>1, <1>2, <1>3, <1>4 DEF Inv

LEMMA InvStep == Inv /\ [Next]_vars => Inv'
BY TypeStep, TableStep, CallStep, HeldStep, PinsStep, DiskStep DEF Inv

LEMMA Invariance == Spec => []Inv
BY InvInit, InvStep, PTL DEF Spec

\* The state stays in the types of its variables.
THEOREM TypeCorrect == Spec => []TypeOK
<1>1. Inv => TypeOK
    BY DEF Inv
<1> QED BY Invariance, <1>1, PTL

\* The frame of a page a client has is not given to another page, although the
\* clock reads the pins while other threads unpin.
THEOREM HeldCorrect == Spec => []HeldStays
<1>1. Inv => HeldStays
    BY DEF Inv
<1> QED BY Invariance, <1>1, PTL

\* The pins of a frame are the references to its page.
THEOREM PinsCorrect == Spec => []PinsCounted
<1>1. Inv => PinsCounted
    BY DEF Inv
<1> QED BY Invariance, <1>1, PTL

-----------------------------------------------------------------------------
(* The store of pages                                                      *)

LEMMA ContentType == Inv => \A p \in PageIds : Content(p) \in Values
BY DiskType DEF Inv, TypeOK, Content

\* A page that moves between the disk and the pool keeps its content.
LEMMA ReplaceContent ==
    ASSUME Inv, NEW h \in Handles, Replace(h), NEW q \in PageIds
    PROVE  Content(q)' = Content(q)
<1> DEFINE frame == buffer_pool[clock_pos]
<1>1. /\ clock_pos \in Frames /\ want[h] \in PageIds \ DOMAIN pages /\ want[h] # frame.page
      /\ q # NoPage
    BY ReplaceFacts, PageParts
<1>2. /\ DOMAIN pages' = (DOMAIN pages \ {frame.page}) \cup {want[h]}
      /\ pages'[want[h]] = clock_pos
      /\ \A p \in DOMAIN pages \ {frame.page} : p # want[h] => pages'[p] = pages[p]
      /\ buffer_pool'[clock_pos].bytes = DiskContent(want[h])
      /\ \A f \in Frames : f # clock_pos => buffer_pool'[f] = buffer_pool[f]
    BY <1>1 DEF Replace, Erased, Inv, TypeOK
<1>3. DiskContent(q)' = IF frame.dirty /\ frame.page = q THEN frame.bytes ELSE DiskContent(q)
    BY ReplaceDisk
<1>4. CASE q = want[h]
    BY <1>1, <1>2, <1>4 DEF Content
<1>5. CASE q = frame.page
    <2>1. q \in DOMAIN pages /\ pages[q] = clock_pos
        BY <1>1, <1>5 DEF Inv, TableInv
    <2>2. frame.bytes = Content(q)
        BY <2>1 DEF Content
    <2>3. DiskContent(q)' = frame.bytes
        BY <1>1, <1>3, <1>5 DEF Inv, DiskInv
    <2> QED BY <1>1, <1>2, <1>5, <2>2, <2>3 DEF Content
<1>6. CASE q # want[h] /\ q # frame.page
    <2>1. q \in DOMAIN pages => pages[q] \in Frames /\ pages[q] # clock_pos
        BY <1>6 DEF Inv, TypeOK, TableInv
    <2> QED BY <1>2, <1>3, <1>6, <2>1 DEF Content
<1> QED BY <1>4, <1>5, <1>6

LEMMA ReadsContent ==
    ASSUME Inv, NEW h \in Handles, Reads(h), NEW q \in PageIds
    PROVE  Content(q)' = Content(q)
<1>1. pages' = pages /\ disk' = disk /\ size' = size
    BY KeepsPages DEF Inv, Keeps
<1>2. \A f \in Frames : buffer_pool'[f].bytes = buffer_pool[f].bytes
    BY ReadsBytes DEF Inv
<1> QED BY <1>1, <1>2 DEF Content, DiskContent, Inv, TypeOK

LEMMA StoreStep == Inv /\ [Next]_vars => [Store!Next]_(Store!vars)
<1> SUFFICES ASSUME Inv, [Next]_vars PROVE [Store!Next]_(Store!vars)
    OBVIOUS
<1> DEFINE content == [p \in PageIds |-> Content(p)]
           has == [h \in Handles |-> held[h].page]
<1>1. (content' = content /\ has' = has) => [Store!Next]_(Store!vars)
    BY DEF Store!vars
<1>2. ASSUME NEW h \in Handles, NEW p \in PageIds, content' = content, Free(h),
             has' = [has EXCEPT ![h] = p]
      PROVE  [Store!Next]_(Store!vars)
    BY <1>2 DEF Store!Next, Store!Get, Free
<1>3. (\A p \in PageIds : Content(p)' = Content(p)) => content' = content
    OBVIOUS
<1>4. held' = held => has' = has
    OBVIOUS
<1>5. ASSUME NEW h \in Handles, Reads(h) PROVE content' = content
    BY <1>3, <1>5, ReadsContent
<1> HIDE DEF content
<1>6. ASSUME NEW h \in Handles, NEW p \in PageIds, NEW f \in Frames, content' = content, Free(h),
             held' = [held EXCEPT ![h] = [page |-> p, frame |-> f]]
      PROVE  [Store!Next]_(Store!vars)
    <2>1. has' = [has EXCEPT ![h] = p]
        BY <1>6 DEF Inv, TypeOK
    <2> QED BY <1>2, <1>6, <2>1
<1>7. ASSUME NEW h \in Handles, (\E p \in PageIds : GetPage(h, p)) \/ Miss(h) \/ Tick(h)
      PROVE  [Store!Next]_(Store!vars)
    BY <1>1, <1>4, <1>5, <1>7, KeepsHeld DEF Reads, Inv
<1>8. ASSUME NEW h \in Handles, Hit(h) PROVE [Store!Next]_(Store!vars)
    <2>1. /\ want[h] \in PageIds /\ pages[want[h]] \in Frames /\ Free(h)
          /\ held' = [held EXCEPT ![h] = [page |-> want[h], frame |-> pages[want[h]]]]
        BY <1>8 DEF Hit, Inv, TypeOK, CallInv, Calling
    <2> QED BY <1>5, <1>6, <1>8, <2>1 DEF Reads
<1>9. ASSUME NEW g \in Handles, NEW h \in Handles, Pin(g, h) PROVE [Store!Next]_(Store!vars)
    <2>1. held[g].page \in PageIds /\ held[g].frame \in Frames /\ Free(h)
        BY <1>9 DEF Pin, Free, Inv, TypeOK
    <2>2. held[g] = [page |-> held[g].page, frame |-> held[g].frame]
        BY DEF Inv, TypeOK
    <2>3. held' = [held EXCEPT ![h] = [page |-> held[g].page, frame |-> held[g].frame]]
        BY <1>9, <2>2 DEF Pin
    <2> QED BY <1>5, <1>6, <1>9, <2>1, <2>3 DEF Reads
<1>10. ASSUME NEW h \in Handles, Replace(h) PROVE [Store!Next]_(Store!vars)
    <2>1. /\ clock_pos \in Frames /\ want[h] \in PageIds /\ Free(h)
          /\ held' = [held EXCEPT ![h] = [page |-> want[h], frame |-> clock_pos]]
        BY <1>10, ReplaceFacts DEF Replace
    <2> QED BY <1>3, <1>6, <1>10, <2>1, ReplaceContent
<1>11. ASSUME NEW h \in Handles, Unpin(h) PROVE [Store!Next]_(Store!vars)
    <2>1. ~Free(h) /\ has' = [has EXCEPT ![h] = NoPage]
        BY <1>11 DEF Unpin, NoHandle, Inv, TypeOK
    <2> QED BY <1>5, <1>11, <2>1 DEF Reads, Store!Next, Store!Release, Free, content
<1>12. ASSUME NEW h \in Handles, NEW value \in Values, Write(h, value)
       PROVE  [Store!Next]_(Store!vars)
    <2> DEFINE f == held[h].frame
    <2>1. /\ held' = held /\ pages' = pages /\ disk' = disk /\ size' = size
          /\ f \in Frames /\ held[h].page \in PageIds
          /\ held[h].page \in DOMAIN pages /\ pages[held[h].page] = f
        BY <1>12 DEF Write, disk_vars, Inv, TypeOK, HeldStays, Free
    <2>2. \A e \in Frames :
              buffer_pool'[e].bytes = IF e = f THEN value ELSE buffer_pool[e].bytes
        BY <1>12, <2>1 DEF Write, Inv, TypeOK
    <2>3. ASSUME NEW q \in PageIds
          PROVE  Content(q)' = IF q = held[h].page THEN value ELSE Content(q)
        <3>1. q \in DOMAIN pages => pages[q] \in Frames /\ buffer_pool[pages[q]].page = q
            BY DEF Inv, TypeOK, TableInv
        <3>2. buffer_pool[f].page = held[h].page
            BY <1>12 DEF Write, Inv, HeldStays
        <3> QED BY <2>1, <2>2, <3>1, <3>2 DEF Content, DiskContent
    <2>4. content' = [content EXCEPT ![held[h].page] = value]
        BY <2>1, <2>3 DEF content
    <2>5. has[h] # NoPage /\ has[h] = held[h].page
        BY <1>12 DEF Write, Free
    <2> QED BY <1>4, <2>1, <2>4, <2>5 DEF Store!Next, Store!Write, content
<1>13. CASE Restart
    <2>1. \A q \in PageIds : Content(q)' = Content(q)
        <3>1. pages' = [p \in {} |-> 0]
            BY <1>13 DEF Restart
        <3> QED BY <1>13, <3>1, RestartDisk DEF Content
    <2> QED BY <1>1, <1>3, <1>4, <1>13, <2>1 DEF Restart
<1>14. CASE UNCHANGED vars
    <2>1. \A q \in PageIds : Content(q)' = Content(q)
        BY <1>14 DEF vars, pool_vars, disk_vars, Content, DiskContent
    <2> QED BY <1>1, <1>3, <1>4, <1>14, <2>1 DEF vars
<1> QED BY <1>7, <1>8, <1>9, <1>10, <1>11, <1>12, <1>13, <1>14, AppendGets, Steps DEF Keeps, Reads, Inv

LEMMA StoreInit == Init => Store!Init
<1> SUFFICES ASSUME Init PROVE Store!Init
    OBVIOUS
<1>1. [p \in PageIds |-> Content(p)] \in [PageIds -> Values]
    BY InvInit, ContentType
<1>2. [h \in Handles |-> held[h].page] = [h \in Handles |-> NoPage]
    BY DEF Init, NoHandle
<1> QED BY <1>1, <1>2 DEF Store!Init

\* Clients see a store of pages, whatever the pool and the files do with them.
THEOREM ImplementsStore == Spec => IsStore
<1>1. Spec => Store!Spec
    BY Invariance, StoreInit, StoreStep, PTL DEF Spec, Store!Spec
<1> QED BY <1>1 DEF IsStore
=============================================================================
