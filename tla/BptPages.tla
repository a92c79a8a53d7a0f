------------------------------- MODULE BptPages -------------------------------
(***************************************************************************)
(* The pages of a B+tree and the searches in them.  A tree is a record of  *)
(* its directories and its leaves, numbered from 0; directory 0 is the     *)
(* root.  A child that is negative is a directory, else it is a leaf.  A   *)
(* leaf keeps what was ever written in its slots, and uses the first ones. *)
(***************************************************************************)
EXTENDS Integers, Sequences, SequencesExt, Record

CONSTANTS
    LeafMax,    \* leaf_max_records
    DirMax,     \* dir_max_records
    ZeroRecord  \* what a slot never written holds

ASSUME CapacityAssumption == LeafMax \in Nat \ {0} /\ DirMax \in Nat \ {0, 1}

EmptyLeaf == [records |-> [i \in 1 .. LeafMax |-> ZeroRecord], value_count |-> 0, next_leaf |-> 0]
EmptyDir == [keys |-> <<>>, children |-> <<0>>]
EmptyTree == [dirs |-> 0 :> EmptyDir, leaves |-> 0 :> EmptyLeaf]

Used(leaf) == SubSeq(leaf.records, 1, leaf.value_count)
IsDir(child) == child < 0
KeyCount(dir) == Len(dir.keys)

-----------------------------------------------------------------------------
(* Searches                                                                *)

\* Mutant: a record equal to a key is looked for on its left.
ChildOnLeft(dir, r) ==
    LET search[from \in Nat, to \in Nat] ==
            LET middle == (from + to + 1) \div 2
            IN  CASE from = to                      -> from
                  [] LessEq(r, dir.keys[middle])    -> search[from, middle - 1]
                  [] OTHER                          -> search[middle, to]
    IN  search[0, KeyCount(dir)]

\* The position, from 0, of the child where a record is: after all keys that are
\* not greater.
search_child_index(dir, r) ==
    LET search[from \in Nat, to \in Nat] ==
            LET middle == (from + to + 1) \div 2
            IN  CASE from = to                      -> from
                  [] Less(r, dir.keys[middle])      -> search[from, middle - 1]
                  [] OTHER                          -> search[middle, to]
    IN  search[0, KeyCount(dir)]

\* The position, from 0, of the first record of a leaf that is not less, or the
\* number of its records.
search_index(leaf, r) ==
    LET at(i) == leaf.records[i + 1]
        search[from \in Nat, to \in Int] ==
            LET middle == (from + to) \div 2
            IN  IF from < to
                THEN CASE Less(r, at(middle)) -> search[from, middle - 1]
                       [] Less(at(middle), r) -> search[middle + 1, to]
                       [] OTHER               -> middle
                ELSE IF Less(at(from), r) THEN from + 1 ELSE from
    IN  search[0, leaf.value_count - 1]

\* The directories from one down to the last before the leaf, and the leaf.
search_path(tree, d, r) ==
    LET path[e \in DOMAIN tree.dirs] ==
            LET dir == tree.dirs[e]
                child == dir.children[search_child_index(dir, r) + 1]
            IN  IF IsDir(child)
                THEN [path[-child] EXCEPT !.dirs = <<e>> \o @]
                ELSE [dirs |-> <<e>>, leaf |-> child]
    IN  path[d]

\* Mutant: the last record of a leaf is out of its range.
check_below(leaf, r) ==
    /\ leaf.value_count > 0
    /\ LessEq(leaf.records[1], r) /\ Less(r, leaf.records[leaf.value_count])

\* The range of a leaf, and of a directory.
check_range(leaf, r) ==
    /\ leaf.value_count > 0
    /\ LessEq(leaf.records[1], r) /\ LessEq(r, leaf.records[leaf.value_count])
check_dir_range(dir, r) ==
    /\ KeyCount(dir) > 0
    /\ LessEq(dir.keys[1], r) /\ LessEq(r, dir.keys[KeyCount(dir)])

\* What BptIter goes through from a position of a leaf: the chain of the leaves.
Chain(tree, leaf, position) ==
    LET after[n \in DOMAIN tree.leaves] ==
            Used(tree.leaves[n]) \o
            IF tree.leaves[n].next_leaf = 0 THEN <<>> ELSE after[tree.leaves[n].next_leaf]
    IN  SubSeq(after[leaf], position + 1, Len(after[leaf]))

\* get_range()
get_range(tree, min, max) ==
    LET leaf == search_path(tree, 0, min).leaf
    IN  UpTo(Chain(tree, leaf, search_index(tree.leaves[leaf], min)), max)

-----------------------------------------------------------------------------
(* Trees written by an import                                              *)

\* The last directory of every level.
Spine(tree) ==
    LET from[d \in DOMAIN tree.dirs] ==
            LET child == Last(tree.dirs[d].children)
            IN  IF IsDir(child) THEN <<d>> \o from[-child] ELSE <<d>>
    IN  from[0]

\* A leaf goes under the deepest directory of the spine that has room, which is
\* the only one after a key for it; the full ones below get a sibling each, with
\* the leaf or the sibling below as its only child.
bulk_insert(tree, record, leaf) ==
    LET spine == Spine(tree)
        HasRoom(i) == KeyCount(tree.dirs[spine[i]]) < DirMax
        roomy == {i \in DOMAIN spine : HasRoom(i)}
        level == IF roomy = {} THEN 0 ELSE CHOOSE i \in roomy : \A j \in roomy : j <= i
        first == Cardinality(DOMAIN tree.dirs)
        \* siblings of the directories at the levels from the last one up
        full == Len(spine) - level
        sibling(k) == IF k = 1 THEN leaf ELSE -(first + k - 2)
        added == IF level = 0 THEN full - 1 ELSE full
        dirs == [d \in 0 .. first + added - 1 |->
                    IF d < first THEN tree.dirs[d]
                    ELSE [keys |-> <<>>, children |-> <<sibling(d - first + 1)>>]]
        top == dirs[spine[level]]
        left == first + added
    IN  IF level > 0
        THEN [tree EXCEPT !.dirs = [dirs EXCEPT ![spine[level]] =
                 [keys |-> Append(top.keys, record), children |-> Append(top.children, sibling(added + 1))]]]
        ELSE [tree EXCEPT !.dirs =
                 [dirs EXCEPT ![0] = [keys |-> <<record>>, children |-> <<-left, -(left + 1)>>]]
                 @@ (left :> dirs[0])
                 @@ (left + 1 :> [keys |-> <<>>, children |-> <<sibling(added + 1)>>])]

\* The leaves of a sequence of records, full except the last one, and the
\* directories over them: every leaf but the first is put under its first record.
import_tree(sorted) ==
    LET number == (Len(sorted) + LeafMax - 1) \div LeafMax
        first(l) == l * LeafMax + 1
        leaf(l) == [records |-> [i \in 1 .. LeafMax |->
                        IF l * LeafMax + i <= Len(sorted) THEN sorted[l * LeafMax + i] ELSE ZeroRecord],
                    value_count |-> IF l + 1 < number THEN LeafMax ELSE Len(sorted) - l * LeafMax,
                    next_leaf |-> IF l + 1 < number THEN l + 1 ELSE 0]
        tree[l \in 0 .. number - 1] ==
            IF l = 0 THEN [EmptyTree EXCEPT !.leaves = [m \in 0 .. number - 1 |-> leaf(m)]]
            ELSE bulk_insert(tree[l - 1], sorted[first(l)], l)
    IN  IF sorted = <<>> THEN EmptyTree ELSE tree[number - 1]
===============================================================================
