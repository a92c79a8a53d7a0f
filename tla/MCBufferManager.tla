--------------------------- MODULE MCBufferManager ---------------------------
(***************************************************************************)
(* Instances of BufferManager for TLC: two queries, the first of which has *)
(* two references to pages.                                                *)
(***************************************************************************)
EXTENDS BufferManager, TLC

CONSTANTS h1, h2, h3, t1, t2
MCOwner == h1 :> t1 @@ h2 :> t1 @@ h3 :> t2
=============================================================================
