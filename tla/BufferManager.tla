---------------------------- MODULE BufferManager ----------------------------
(***************************************************************************)
(* BufferManager and FileManager: pages of files in the frames of the      *)
(* shared buffer pool.  A page is found or brought in under a mutex, by a  *)
(* clock that looks for a frame nobody uses; it is pinned, written and     *)
(* unpinned without the mutex, while the clock of another thread goes on.  *)
(***************************************************************************)
EXTENDS Naturals, FiniteSets

CONSTANTS
    Threads,    \* the threads of queries
    Handles,    \* the references to pages that they may have at once
    Owner,      \* the thread of a handle
    NumFrames,  \* shared_buffer_pool_size
    Files,
    MaxPages,   \* a bound on the pages of a file
    MaxUsage,   \* a bound on usage
    Values,     \* the contents of a page
    Zero,       \* the content of a new page
    NoPage,     \* the page of a frame never used: FileId::UNASSIGNED
    NoCall

Nums == 0 .. MaxPages - 1
PageIds == Files \X Nums
Frames == 0 .. NumFrames - 1

ASSUME NumFramesAssumption == NumFrames \in Nat \ {0}
ASSUME BoundsAssumption == MaxPages \in Nat \ {0} /\ MaxUsage \in Nat \ {0}
ASSUME HandlesAssumption == IsFiniteSet(Handles) /\ Owner \in [Handles -> Threads]
ASSUME ZeroAssumption == Zero \in Values
ASSUME NoPageAssumption == NoPage \notin PageIds
ASSUME NoCallAssumption == NoCall \notin Handles

VARIABLES
    buffer_pool,    \* the page, pins, usage, dirty and bytes of a frame
    pages,          \* the frame of a page in the pool
    clock_pos,
    mutex,          \* the call that has shared_buffer_mutex
    disk,           \* the content of the pages of a file, zeros past its end
    size,           \* the number of pages of a file
    want,           \* the page that get_page is called for, of the handle it will fill
    held            \* the page a handle was given, and the frame it points to

pool_vars == <<buffer_pool, pages, clock_pos>>
disk_vars == <<disk, size>>
vars == <<pool_vars, mutex, disk_vars, want, held>>

NoHandle == [page |-> NoPage, frame |-> 0]

Calling(h) == want[h] # NoPage
Idle(t) == \A h \in Handles : Owner[h] = t => ~Calling(h)
Free(h) == held[h].page = NoPage
Return(h) == want' = [want EXCEPT ![h] = NoPage]

\* An update runs under the unique execution lock: no other query has pages.
Alone(t) == \A h \in Handles : Owner[h] # t => Free(h) /\ ~Calling(h)

-----------------------------------------------------------------------------
(* FileManager                                                             *)

\* Past the end of the file a page reads as zeros.
DiskContent(p) == IF p[2] < size[p[1]] THEN disk[p[1]][p[2]] ELSE Zero

FlushedDisk(frame) ==
    IF frame.dirty THEN [disk EXCEPT ![frame.page[1]][frame.page[2]] = frame.bytes] ELSE disk

FlushedSize(frame) ==
    IF frame.dirty /\ size[frame.page[1]] <= frame.page[2]
    THEN [size EXCEPT ![frame.page[1]] = frame.page[2] + 1] ELSE size

\* A page past the end makes the file end where the page begins.
ReadSize(sizes, p) ==
    IF sizes[p[1]] <= p[2] THEN [sizes EXCEPT ![p[1]] = p[2]] ELSE sizes

-----------------------------------------------------------------------------
(* get_page, append_page                                                   *)

\* The pages that clients use or ask for.
InUse == {held[h].frame : h \in {g \in Handles : ~Free(g)}}
Called == {h \in Handles : Calling(h)}

\* Clients never need more pages at once than there are frames.
GetPage(h, p) ==
    /\ Idle(Owner[h]) /\ Free(h)
    /\ Cardinality(InUse) + Cardinality(Called) < NumFrames
    /\ want' = [want EXCEPT ![h] = p]
    /\ UNCHANGED <<pool_vars, mutex, disk_vars, held>>

\* The new page is the first one that is not on disk.
AppendPage(h, file) ==
    /\ size[file] < MaxPages /\ Alone(Owner[h])
    /\ GetPage(h, <<file, size[file]>>)

\* Under the mutex: the page is in the buffer.
Shared(frame) == [frame EXCEPT !.pins = @ + 1]
Hit(h) ==
    LET p == want[h]
    IN  /\ Calling(h) /\ mutex = NoCall /\ p \in DOMAIN pages
        /\ buffer_pool' = [buffer_pool EXCEPT ![pages[p]] = Shared(@)]
        /\ held' = [held EXCEPT ![h] = [page |-> p, frame |-> pages[p]]]
        /\ Return(h)
        /\ UNCHANGED <<pages, clock_pos, mutex, disk_vars>>

\* It is not, and the thread keeps the mutex while it looks for a frame.
Miss(h) ==
    /\ Calling(h) /\ mutex = NoCall /\ want[h] \notin DOMAIN pages
    /\ mutex' = h
    /\ UNCHANGED <<pool_vars, disk_vars, want, held>>

\* Mutant: a page that is pinned loses its usage, and then its frame.
UsableUnused(frame) == frame.usage = 0
Usable(frame) == frame.pins = 0 /\ frame.usage = 0

\* Mutant: the usage of a page nobody has is left as it is.
LessUsed(frame) == frame
Aged(frame) ==
    IF frame.pins = 0 /\ frame.usage > 0 THEN [frame EXCEPT !.usage = @ - 1] ELSE frame

\* Mutant: the clock goes past the last frame.
NoWrap(f) == f + 1
NextFrame(f) == IF f + 1 < NumFrames THEN f + 1 ELSE 0

\* The clock leaves a frame for the next one.
Tick(h) ==
    /\ mutex = h /\ ~Usable(buffer_pool[clock_pos])
    /\ buffer_pool' = [buffer_pool EXCEPT ![clock_pos] = Aged(@)]
    /\ clock_pos' = NextFrame(clock_pos)
    /\ UNCHANGED <<pages, mutex, disk_vars, want, held>>

Erased(frame) == [p \in DOMAIN pages \ {frame.page} |-> pages[p]]

\* The page goes to the frame where the clock stopped.
Replace(h) ==
    LET p == want[h]
        frame == buffer_pool[clock_pos]
        erased == Erased(frame)
    IN  /\ mutex = h /\ Usable(frame)
        /\ disk' = FlushedDisk(frame)
        /\ size' = ReadSize(FlushedSize(frame), p)
        /\ buffer_pool' = [buffer_pool EXCEPT ![clock_pos] =
               [page |-> p, pins |-> 1, usage |-> 1, dirty |-> FALSE, bytes |-> DiskContent(p)]]
        /\ pages' = [q \in DOMAIN erased \cup {p} |-> IF q = p THEN clock_pos ELSE erased[q]]
        /\ held' = [held EXCEPT ![h] = [page |-> p, frame |-> clock_pos]]
        /\ Return(h) /\ mutex' = NoCall
        /\ UNCHANGED clock_pos

-----------------------------------------------------------------------------
(* Without the mutex                                                       *)

\* Mutant: the second reference is only used for the replacement.
UsageOnly(frame) == [frame EXCEPT !.usage = @ + 1]
Pinned(frame) == [frame EXCEPT !.pins = @ + 1, !.usage = @ + 1]

\* duplicate() of a leaf pins its page once more.
Pin(g, h) ==
    LET f == held[g].frame
    IN  /\ Owner[g] = Owner[h] /\ Idle(Owner[h]) /\ Free(h) /\ ~Free(g)
        /\ buffer_pool[f].usage < MaxUsage
        /\ buffer_pool' = [buffer_pool EXCEPT ![f] = Pinned(@)]
        /\ held' = [held EXCEPT ![h] = held[g]]
        /\ UNCHANGED <<pages, clock_pos, mutex, disk_vars, want>>

Unpinned(frame) == [frame EXCEPT !.pins = @ - 1]
Unpin(h) ==
    /\ ~Free(h) /\ Idle(Owner[h])
    /\ buffer_pool' = [buffer_pool EXCEPT ![held[h].frame] = Unpinned(@)]
    /\ held' = [held EXCEPT ![h] = NoHandle]
    /\ UNCHANGED <<pages, clock_pos, mutex, disk_vars, want>>

\* Mutant: the page is not marked as dirty.
WriteClean(h, value) ==
    /\ ~Free(h) /\ Idle(Owner[h]) /\ Alone(Owner[h])
    /\ buffer_pool' = [buffer_pool EXCEPT ![held[h].frame].bytes = value]
    /\ UNCHANGED <<pages, clock_pos, mutex, disk_vars, want, held>>

\* A client writes the bytes of a page it has and calls make_dirty().
Write(h, value) ==
    /\ ~Free(h) /\ Idle(Owner[h]) /\ Alone(Owner[h])
    /\ buffer_pool' = [buffer_pool EXCEPT ![held[h].frame].bytes = value,
                                          ![held[h].frame].dirty = TRUE]
    /\ UNCHANGED <<pages, clock_pos, mutex, disk_vars, want, held>>

-----------------------------------------------------------------------------
EmptyPool ==
    [f \in Frames |->
        [page |-> NoPage, pins |-> 0, usage |-> 0, dirty |-> FALSE, bytes |-> Zero]]

\* The program ends, and flush() writes the pages that are dirty; it starts
\* again with an empty pool.
Restart ==
    LET InPool(p) == p \in DOMAIN pages /\ buffer_pool[pages[p]].dirty
        Past(file) == {n \in Nums : InPool(<<file, n>>) /\ size[file] <= n}
    IN  /\ \A h \in Handles : Free(h) /\ ~Calling(h)
        /\ disk' = [file \in Files |-> [n \in Nums |->
               IF InPool(<<file, n>>) THEN buffer_pool[pages[<<file, n>>]].bytes
               ELSE disk[file][n]]]
        /\ size' \in [Files -> 0 .. MaxPages]
        /\ \A file \in Files :
               \/ Past(file) = {} /\ size'[file] = size[file]
               \/ \E n \in Past(file) : (\A m \in Past(file) : m <= n) /\ size'[file] = n + 1
        /\ buffer_pool' = EmptyPool /\ pages' = [p \in {} |-> 0] /\ clock_pos' = 0
        /\ UNCHANGED <<mutex, want, held>>

\* A file has some pages already.
Init ==
    /\ size \in [Files -> 0 .. MaxPages]
    /\ disk \in [Files -> [Nums -> Values]]
    /\ \A file \in Files, n \in Nums : n >= size[file] => disk[file][n] = Zero
    /\ buffer_pool = EmptyPool /\ pages = [p \in {} |-> 0] /\ clock_pos = 0
    /\ mutex = NoCall
    /\ want = [h \in Handles |-> NoPage]
    /\ held = [h \in Handles |-> NoHandle]

Search(h) == Tick(h) \/ Replace(h)

Next ==
    \/ \E h \in Handles :
           \/ \E p \in PageIds : GetPage(h, p)
           \/ \E file \in Files : AppendPage(h, file)
           \/ Hit(h) \/ Miss(h) \/ Search(h)
           \/ Unpin(h)
           \/ \E g \in Handles : Pin(g, h)
           \/ \E value \in Values : Write(h, value)
    \/ Restart

\* A thread that has the mutex goes on.  Nothing is asked of the clients.
Fairness == \A h \in Handles : WF_vars(Search(h))
Spec == Init /\ [][Next]_vars /\ Fairness

-----------------------------------------------------------------------------
(* Properties                                                              *)

TypeOK ==
    /\ buffer_pool \in [Frames -> [page : PageIds \cup {NoPage}, pins : Nat,
                                    usage : 0 .. MaxUsage, dirty : BOOLEAN, bytes : Values]]
    /\ DOMAIN pages \subseteq PageIds /\ pages \in [DOMAIN pages -> Frames]
    /\ clock_pos \in Frames
    /\ mutex \in Handles \cup {NoCall}
    /\ disk \in [Files -> [Nums -> Values]] /\ size \in [Files -> 0 .. MaxPages]
    /\ want \in [Handles -> PageIds \cup {NoPage}]
    /\ held \in [Handles -> [page : PageIds \cup {NoPage}, frame : Frames]]

\* The content of a page, wherever it is.
Content(p) == IF p \in DOMAIN pages THEN buffer_pool[pages[p]].bytes ELSE DiskContent(p)

\* While a client has a page its frame is not given to another one, and all who
\* have the page share that frame, although unpin() does not take the mutex
\* under which the clock looks at the pins.
HeldStays ==
    \A h \in Handles :
        ~Free(h) => /\ buffer_pool[held[h].frame].page = held[h].page
                    /\ held[h].page \in DOMAIN pages /\ pages[held[h].page] = held[h].frame

\* A frame has a pin for every reference to its page: none is lost, and none
\* stays behind to keep a page in the pool for ever.
PinsCounted ==
    \A f \in Frames :
        buffer_pool[f].pins = Cardinality({h \in Handles : ~Free(h) /\ held[h].frame = f})

\* Clients see a store of pages: no content is lost when pages leave the pool,
\* come back, or are past the end of their file, nor when the program restarts.
Store == INSTANCE PageStore WITH
    content <- [p \in PageIds |-> Content(p)],
    has <- [h \in Handles |-> held[h].page]
IsStore == Store!Spec

\* As long as clients do not ask for more pages than there are frames the clock
\* finds one, and the mutex is free again, whatever the clients do meanwhile.
ClockStops == mutex # NoCall ~> mutex = NoCall

\* Of append_page(): "The page returned has all its bytes initialized to 0".
AppendedZero ==
    [][\A h \in Handles, file \in Files :
           AppendPage(h, file) => Content(want'[h]) = Zero]_vars
=============================================================================
