------------------------------ MODULE PageStore ------------------------------
(***************************************************************************)
(* What the buffer manager owes its clients: pages with a content each,    *)
(* which only a client that has the page can change.  Frames, the disk and *)
(* the pages moved between them cannot be seen.                            *)
(***************************************************************************)
CONSTANTS
    Handles,    \* the references to pages that clients have at once
    PageIds,    \* all pages of all files
    Values,     \* the contents of a page
    NoPage

VARIABLES
    content,    \* of a page
    has         \* the page a handle refers to, or NoPage

vars == <<content, has>>

TypeOK ==
    /\ content \in [PageIds -> Values]
    /\ has \in [Handles -> PageIds \cup {NoPage}]

Init == content \in [PageIds -> Values] /\ has = [h \in Handles |-> NoPage]

Get(h, p) ==
    /\ has[h] = NoPage
    /\ has' = [has EXCEPT ![h] = p]
    /\ UNCHANGED content

Release(h) ==
    /\ has[h] # NoPage
    /\ has' = [has EXCEPT ![h] = NoPage]
    /\ UNCHANGED content

Write(h, value) ==
    /\ has[h] # NoPage
    /\ content' = [content EXCEPT ![has[h]] = value]
    /\ UNCHANGED has

Next ==
    \E h \in Handles :
        \/ \E p \in PageIds : Get(h, p)
        \/ Release(h)
        \/ \E value \in Values : Write(h, value)

Spec == Init /\ [][Next]_vars
=============================================================================
