----------------------------- MODULE MCBPlusTree -----------------------------
(***************************************************************************)
(* Instances of BPlusTree for TLC: an import wrote some even records; odd  *)
(* ones may be inserted, and those that are there already.  Behind a leaf  *)
(* may be any of them: another page.                                       *)
(***************************************************************************)
EXTENDS BPlusTree

CONSTANTS MaxImported

MCZeroRecord == <<0>>
MCRecords == {<<i>> : i \in 1 .. 2 * MaxImported + 1}
MCBehind == MCRecords \cup {MCZeroRecord}
MCInitialTrees == {import_tree([i \in 1 .. n |-> <<2 * i>>]) : n \in 0 .. MaxImported}
=============================================================================
