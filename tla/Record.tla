-------------------------------- MODULE Record --------------------------------
(***************************************************************************)
(* Records: N ids each, as sequences, in the order of their columns.       *)
(***************************************************************************)
EXTENDS Naturals, Sequences, FiniteSets

Less(r, s) ==
    \E i \in DOMAIN r : r[i] < s[i] /\ \A j \in 1 .. i - 1 : r[j] = s[j]
LessEq(r, s) == r = s \/ Less(r, s)

\* The records of a set in their order.
InOrder(records) ==
    [k \in 1 .. Cardinality(records) |->
        CHOOSE r \in records : Cardinality({s \in records : Less(s, r)}) = k - 1]

\* The records that next() of BptIter returns before it stops.
UpTo(records, max) ==
    LET last[i \in 0 .. Len(records)] ==
            IF i < Len(records) /\ LessEq(records[i + 1], max) THEN last[i + 1] ELSE i
    IN  SubSeq(records, 1, last[0])
===============================================================================
