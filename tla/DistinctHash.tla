----------------------------- MODULE DistinctHash -----------------------------
(***************************************************************************)
(* DistinctBindingHash: an extendible hash of tuples.  A directory of      *)
(* 2^global_depth entries leads from the low bits of a hash to a bucket,   *)
(* which holds the tuples whose hash has its local_depth bits in common.   *)
(***************************************************************************)
EXTENDS Integers, SequencesExt

CONSTANTS
    Hash,           \* of each tuple
    InitialDepth,   \* DEFAULT_GLOBAL_DEPTH
    MaxTuples       \* max_tuples, of a bucket

VARIABLES global_depth, dir, buckets

NewBucket(depth) == [local_depth |-> depth, tuples |-> <<>>]
EmptyTable ==
    /\ global_depth' = InitialDepth
    /\ dir' = [i \in 0 .. 2 ^ InitialDepth - 1 |-> i]
    /\ buckets' = [i \in 0 .. 2 ^ InitialDepth - 1 |-> NewBucket(InitialDepth)]

Suffix(hash, depth) == hash % 2 ^ depth
WithBit(n, depth) == IF (n \div 2 ^ depth) % 2 = 1 THEN n ELSE n + 2 ^ depth

BucketNumber(tuple) == dir[Suffix(Hash[tuple], global_depth)]
IsIn(tuple, number) == Contains(buckets[number].tuples, tuple)
IsFull(number) == Len(buckets[number].tuples) = MaxTuples

Insert(tuple, number) ==
    /\ buckets' = [buckets EXCEPT ![number].tuples = Append(@, tuple)]
    /\ UNCHANGED <<global_depth, dir>>

\* The tuples of a bucket go to the bucket of their suffix, with one bit more.
redistribute(number, other, depth) ==
    LET goes(tuple) == Suffix(Hash[tuple], depth) = other
        tuples == buckets[number].tuples
    IN  (number :> [local_depth |-> depth, tuples |-> SelectSeq(tuples, LAMBDA t : ~goes(t))])
        @@ (other :> [local_depth |-> depth, tuples |-> SelectSeq(tuples, goes)])
        @@ buckets

\* The entries of the directory that lead to a new bucket: those with its suffix.
\* Mutant: the first of them only.
IsFirst(i, number, depth) == i = number
LeadsTo(i, number, depth) == Suffix(i, depth) = number

SplitBucket(number) ==
    LET depth == buckets[number].local_depth + 1
        new_bucket_number == WithBit(number, depth - 1)
    IN  /\ buckets[number].local_depth < global_depth
        /\ buckets' = redistribute(number, new_bucket_number, depth)
        /\ dir' = [i \in DOMAIN dir |->
                      IF LeadsTo(i, new_bucket_number, depth) THEN new_bucket_number ELSE dir[i]]
        /\ UNCHANGED global_depth

\* Twice the entries: all but one of the new ones lead to old buckets.
duplicate_dirs == [i \in 0 .. 2 ^ (global_depth + 1) - 1 |-> dir[Suffix(i, global_depth)]]
SplitDirectory(number) ==
    LET new_bucket_number == WithBit(number, global_depth)
    IN  /\ buckets[number].local_depth >= global_depth
        /\ global_depth' = global_depth + 1
        /\ buckets' = redistribute(number, new_bucket_number, global_depth + 1)
        /\ dir' = [duplicate_dirs EXCEPT ![new_bucket_number] = new_bucket_number]

-----------------------------------------------------------------------------
\* The tuples that were inserted.
Stored == UNION {{buckets[b].tuples[i] : i \in DOMAIN buckets[b].tuples} : b \in DOMAIN buckets}

\* After any splits every tuple is once in the table, in the bucket that its
\* hash leads to, and the directory leads to the bucket of a suffix from all the
\* entries that have it: a tuple that is there is found.
DirectoryExact ==
    /\ \A i \in DOMAIN dir :
           LET depth == buckets[dir[i]].local_depth
           IN  depth <= global_depth /\ Suffix(i, depth) = Suffix(dir[i], depth)
    /\ \A b \in DOMAIN buckets : \A i \in DOMAIN buckets[b].tuples :
           BucketNumber(buckets[b].tuples[i]) = b
    /\ \A b \in DOMAIN buckets : IsInjective(buckets[b].tuples)
===============================================================================
