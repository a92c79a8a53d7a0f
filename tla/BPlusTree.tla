------------------------------ MODULE BPlusTree ------------------------------
(***************************************************************************)
(* Insertion into a B+tree: down to a leaf, then up as long as pages are   *)
(* split.  New pages come from append_page(), which returns the first page *)
(* that is not on disk: one that was appended before, if it was not        *)
(* written back since.                                                     *)
(***************************************************************************)
EXTENDS BptPages

CONSTANTS
    Records,        \* the records that may be inserted
    InitialTrees,   \* what an import wrote: trees of records
    Behind,         \* what the bytes behind the last slot of a leaf may hold: not empty
    MaxInserts      \* a bound on the insertions

VARIABLES
    bpt,            \* the pages
    on_disk,        \* the number of pages on disk of the two files
    pc, record,     \* what insert() is doing
    path,           \* the directories above, each of which holds its page
    split,          \* the page a split made and the key before it
    records,        \* history: the records inserted
    inserts         \* history: their number

vars == <<bpt, on_disk, pc, record, path, split, records, inserts>>

NoSplit == [record |-> ZeroRecord, page |-> 0]
Top == path[1]
Dir == bpt.dirs[Top]

NumPages(file) == Cardinality(DOMAIN bpt[file])

\* append_page() returns a page in use, and overwrites it: nothing is said of
\* the tree from then on.
Reused(file) == on_disk[file] < NumPages(file)
Overwrite == pc' = "overwritten" /\ UNCHANGED <<bpt, on_disk, record, path, split, records, inserts>>

\* The buffer manager writes a new page back when it needs its frame, which is
\* while pages are read, and not while the page is pinned.
WriteBack(file) ==
    /\ pc \in {"idle", "down"}
    /\ Reused(file)
    /\ file = "dirs" => ~Contains(path, NumPages(file) - 1)
    /\ on_disk' = [on_disk EXCEPT ![file] = NumPages(file)]
    /\ UNCHANGED <<bpt, pc, record, path, split, records, inserts>>

-----------------------------------------------------------------------------
(* Down                                                                    *)

Insert(r) ==
    /\ pc = "idle" /\ inserts < MaxInserts
    /\ record' = r /\ pc' = "down" /\ path' = <<0>>
    /\ UNCHANGED <<bpt, on_disk, split, records, inserts>>

Child == Dir.children[search_child_index(Dir, record) + 1]

Descend ==
    /\ pc = "down" /\ IsDir(Child)
    /\ path' = <<-Child>> \o path
    /\ UNCHANGED <<bpt, on_disk, pc, record, split, records, inserts>>

-----------------------------------------------------------------------------
(* In the leaf                                                             *)

AtLeaf == pc = "down" /\ ~IsDir(Child)
Leaf == bpt.leaves[Child]
Index == search_index(Leaf, record)

\* Mutant: a slot that is not in use is not compared, nor is the last one.
EqualInside(leaf, index) == {index + 1 < leaf.value_count /\ leaf.records[index + 1] = record}

\* The results it may have. The slot after the last record is compared too: in a leaf
\* that is not full it may hold a record that moved away, and in a full one it is past
\* the last slot.
equal_record(leaf, index) ==
    {record = other : other \in IF index < LeafMax THEN {leaf.records[index + 1]} ELSE Behind}

\* The slots from an index on move to the right, the last one out of the leaf.
Shifted(leaf, index) == SubSeq(InsertAt(leaf.records, index + 1, record), 1, LeafMax)

Inserted == records' = records \cup {record} /\ inserts' = inserts + 1
Done == pc' = "idle" /\ path' = <<>> /\ record' = ZeroRecord

Compared(equal) == AtLeaf /\ Leaf.value_count > 0 /\ equal \in equal_record(Leaf, Index)

\* LogicException: nothing has changed.
Reject ==
    /\ Compared(TRUE) /\ Done
    /\ inserts' = inserts + 1
    /\ UNCHANGED <<bpt, on_disk, split, records>>

PutFirst ==
    /\ AtLeaf /\ Leaf.value_count = 0
    /\ bpt' = [bpt EXCEPT !.leaves[Child].records[1] = record, !.leaves[Child].value_count = 1]
    /\ Inserted /\ Done
    /\ UNCHANGED <<on_disk, split>>

\* The slots move up to the last record, so what is behind it stays.
Put ==
    LET count == Leaf.value_count
    IN  /\ Compared(FALSE) /\ count < LeafMax
        /\ bpt' = [bpt EXCEPT
               !.leaves[Child].records =
                   SubSeq(Shifted(Leaf, Index), 1, count + 1) \o SubSeq(@, count + 2, LeafMax),
               !.leaves[Child].value_count = count + 1]
        /\ Inserted /\ Done
        /\ UNCHANGED <<on_disk, split>>

\* Mutant: the leaf keeps one record less.
MiddleOff(count) == count \div 2
Middle(count) == (count + 1) \div 2

\* The record that does not fit is the last of the new leaf.
SplitLeaf ==
    LET all == InsertAt(SubSeq(Leaf.records, 1, LeafMax), Index + 1, record)
        middle == Middle(LeafMax)
        new == NumPages("leaves")
        right == [EmptyLeaf EXCEPT
            !.records = [i \in 1 .. LeafMax |-> IF middle + i <= LeafMax + 1 THEN all[middle + i] ELSE @[i]],
            !.value_count = LeafMax \div 2 + 1,
            !.next_leaf = Leaf.next_leaf]
    IN  /\ Compared(FALSE) /\ Leaf.value_count = LeafMax
        /\ IF Reused("leaves") THEN Overwrite
           ELSE /\ bpt' = [bpt EXCEPT !.leaves =
                       [@ EXCEPT ![Child] = [records |-> SubSeq(all, 1, LeafMax),
                                             value_count |-> middle, next_leaf |-> new]]
                       @@ (new :> right)]
                /\ split' = [record |-> right.records[1], page |-> new]
                /\ pc' = "up"
                /\ Inserted
                /\ UNCHANGED <<on_disk, record, path>>

-----------------------------------------------------------------------------
(* Up                                                                      *)

\* The directory with the key of the split, and the new page after it.
Grown ==
    LET i == search_child_index(Dir, split.record)
    IN  [keys |-> InsertAt(Dir.keys, i + 1, split.record),
         children |-> InsertAt(Dir.children, i + 2, split.page)]

PutKey ==
    /\ pc = "up" /\ KeyCount(Dir) < DirMax
    /\ bpt' = [bpt EXCEPT !.dirs[Top] = Grown]
    /\ split' = NoSplit
    /\ Done
    /\ UNCHANGED <<on_disk, records, inserts>>

\* Mutant: the key that goes up stays below as well.
KeepMiddle(dir) ==
    LET middle == Middle(DirMax)
    IN  [keys |-> SubSeq(dir.keys, middle + 1, DirMax + 1),
         children |-> SubSeq(dir.children, middle + 2, DirMax + 2)]
RightPart(dir) ==
    LET middle == Middle(DirMax)
    IN  [keys |-> SubSeq(dir.keys, middle + 2, DirMax + 1),
         children |-> SubSeq(dir.children, middle + 2, DirMax + 2)]
LeftPart(dir) ==
    LET middle == Middle(DirMax)
    IN  [keys |-> SubSeq(dir.keys, 1, middle), children |-> SubSeq(dir.children, 1, middle + 1)]

\* The key in the middle goes up.
SplitDir ==
    LET new == NumPages("dirs")
    IN  /\ pc = "up" /\ KeyCount(Dir) = DirMax /\ Top # 0
        /\ IF Reused("dirs") THEN Overwrite
           ELSE /\ bpt' = [bpt EXCEPT !.dirs =
                       [@ EXCEPT ![Top] = LeftPart(Grown)] @@ (new :> RightPart(Grown))]
                /\ split' = [record |-> Grown.keys[Middle(DirMax) + 1], page |-> -new]
                /\ path' = Tail(path)
                /\ UNCHANGED <<on_disk, pc, record, records, inserts>>

\* The root needs two new pages, and gets the same one twice.
SplitRoot ==
    /\ pc = "up" /\ KeyCount(Dir) = DirMax /\ Top = 0
    /\ Overwrite

-----------------------------------------------------------------------------
Init ==
    /\ bpt \in InitialTrees
    /\ on_disk = [file \in {"dirs", "leaves"} |-> NumPages(file)]
    /\ pc = "idle" /\ record = ZeroRecord /\ path = <<>> /\ split = NoSplit
    /\ records = UNION {ToSet(Used(bpt.leaves[n])) : n \in DOMAIN bpt.leaves}
    /\ inserts = 0

Next ==
    \/ \E r \in Records : Insert(r)
    \/ Descend \/ Reject \/ PutFirst \/ Put \/ SplitLeaf
    \/ PutKey \/ SplitDir \/ SplitRoot
    \/ WriteBack("dirs") \/ WriteBack("leaves")

Spec == Init /\ [][Next]_vars

-----------------------------------------------------------------------------
(* Properties                                                              *)

\* A range of a tree at rest has exactly the records between its limits that
\* were imported or inserted, in order and each once, whatever pages were split.
RangesExact ==
    pc = "idle" =>
        \A min, max \in Records :
            LET range == get_range(bpt, min, max)
            IN  /\ ToSet(range) = {r \in records : LessEq(min, r) /\ LessEq(r, max)}
                /\ \A i \in 1 .. Len(range) - 1 : Less(range[i], range[i + 1])

\* check(), as tests/check_bpts.cc runs it.
SmallestKey(child) ==
    IF IsDir(child) THEN bpt.dirs[-child].keys ELSE Used(bpt.leaves[child])
CheckDir(dir) ==
    /\ \A i \in 1 .. KeyCount(dir) - 1 : Less(dir.keys[i], dir.keys[i + 1])
    /\ \A i \in DOMAIN dir.keys :
           /\ Less(Last(SmallestKey(dir.children[i])), dir.keys[i])
           /\ \/ SmallestKey(dir.children[i + 1]) = <<>>
              \/ LessEq(dir.keys[i], SmallestKey(dir.children[i + 1])[1])
CheckLeaf(n) ==
    LET used == Used(bpt.leaves[n])
    IN  /\ used = <<>> => n = 0
        /\ \A i \in 1 .. Len(used) - 1 : Less(used[i], used[i + 1])

\* check() finds nothing wrong with a tree at rest.
Checks ==
    pc = "idle" =>
        /\ \A d \in DOMAIN bpt.dirs : CheckDir(bpt.dirs[d])
        /\ \A n \in DOMAIN bpt.leaves : CheckLeaf(n)

\* A record that is there already is rejected, and no other, also when it is compared
\* with a slot that is no longer in use: but for a record above all of a full leaf,
\* which is compared with what lies behind the leaf.
RejectsDuplicates ==
    [][Reject \/ Inserted =>
          /\ record \in records => Reject
          /\ Reject => record \in records \/ Index = LeafMax]_vars
=============================================================================
