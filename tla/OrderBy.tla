------------------------------ MODULE OrderBy ------------------------------
(***************************************************************************)
(* OrderBy: an external merge sort.  The rows of the child go to the pages *)
(* of a temporary file, each of which is sorted; passes merge runs of      *)
(* pages, of one file into the other, until one run is left.               *)
(***************************************************************************)
EXTENDS SequencesExt

-----------------------------------------------------------------------------
(* The values of variables and how they compare.                           *)

\* A value has a type, numbered as in the enum, and a number.
Null == <<0, 0>>
EDGE == 5
ANON == 6
BOOL == 11
INT == 12
FLOAT == 13
Bool(b) == <<BOOL, IF b THEN 1 ELSE 0>>
IsNumeric(value) == value[1] \in {INT, FLOAT}

Sign(n) == IF n < 0 THEN -1 ELSE IF n > 0 THEN 1 ELSE 0

\* An edge is compared with itself.
compare(lhs, rhs) ==
    CASE lhs = rhs -> 0
      [] lhs # rhs /\ IsNumeric(lhs) /\ IsNumeric(rhs) -> Sign(lhs[2] - rhs[2])
      [] lhs # rhs /\ lhs[1] = rhs[1] /\ lhs[1] = EDGE -> Sign(lhs[2] - lhs[2])
      [] lhs # rhs /\ lhs[1] = rhs[1] /\ lhs[1] \in {ANON, BOOL} -> Sign(lhs[2] - rhs[2])
      [] OTHER -> Sign(lhs[1] - rhs[1])

-----------------------------------------------------------------------------
CONSTANT PageSize       \* how many values a page has room for

VARIABLES
    operator,           \* the one that runs: to sort it has its order and saved variables
    child, taken,       \* the rows its child returns, and how many of them it returned
    out,                \* the rows handed to its parent
    pc,
    total_pages,
    source, dest,       \* the tuples on the pages of the two files, from page 0
    runs_to_merge, start_page, middle, end_page,
    merge,              \* where a merge is in the pages it reads, and the page it writes
    current_page, page_position

file_vars == <<total_pages, source, dest>>
pass_vars == <<runs_to_merge, start_page, middle, end_page>>
sort_vars == <<file_vars, pass_vars, merge, current_page, page_position>>

Tuple(row) == [v \in operator.saved |-> row[v]]

-----------------------------------------------------------------------------
(* TupleCollection                                                         *)

is_full(tuples) == Cardinality(operator.saved) * (Len(tuples) + 1) > PageSize

\* The first variable that tells the tuples apart decides.
Precedes(order, lhs, rhs) ==
    LET sign(i) == compare(lhs[order[i].var], rhs[order[i].var])
        different == {i \in DOMAIN order : sign(i) # 0}
    IN  different = {} \/ (sign(Min(different)) < 0) = order[Min(different)].ascending
has_priority(lhs, rhs) == Precedes(operator.order, lhs, rhs)

swap(tuples, x, y) == [tuples EXCEPT ![x] = tuples[y], ![y] = tuples[x]]

\* The tuples from i to f, those that go before the one at x in front.
partition(tuples, i, f, x) ==
    LET step(now, j) ==
            IF has_priority(now.tuples[j], tuples[x])
            THEN [tuples |-> swap(now.tuples, now.low_el + 1, j), low_el |-> now.low_el + 1]
            ELSE now
        last == FoldLeft(step, [tuples |-> swap(tuples, x, f), low_el |-> i - 1],
                         [k \in 1 .. f - i |-> i + k - 1])
    IN  [tuples |-> swap(last.tuples, last.low_el + 1, f), pivot |-> last.low_el + 1]

\* What it may come to: the pivots are random.
RECURSIVE quicksort(_, _, _)
quicksort(tuples, i, f) ==
    IF i >= f THEN {tuples}
    ELSE LET halves == {partition(tuples, i, f, x) : x \in i .. f}
             left == UNION {{[h EXCEPT !.tuples = t] : t \in quicksort(h.tuples, i, h.pivot - 1)} : h \in halves}
         IN  UNION {quicksort(h.tuples, h.pivot + 1, f) : h \in left}

sort(tuples) == quicksort(tuples, 1, Len(tuples))

PageOf(file, page) == IF page \in DOMAIN file THEN file[page] ELSE <<>>
\* Mutant: what the file had on the page before stays.
Unreset(file, page) == (page :> PageOf(file, page)) @@ file
reset(file, page) == (page :> <<>>) @@ file
add(file, page, tuple) == [file EXCEPT ![page] = Append(@, tuple)]

-----------------------------------------------------------------------------
(* begin(): the pages are filled and sorted, then merged.                  *)

Begin ==
    /\ pc = "begin"
    /\ pc' = "save"
    /\ total_pages' = 0
    /\ source' = reset(<<>>, 0) /\ dest' = <<>>
    /\ UNCHANGED <<operator, child, taken, out, pass_vars, merge, current_page, page_position>>

SaveRow ==
    /\ pc = "save" /\ taken < Len(child)
    /\ ~is_full(source[total_pages])
    /\ taken' = taken + 1
    /\ source' = add(source, total_pages, Tuple(child[taken + 1]))
    /\ UNCHANGED <<operator, child, out, pc, total_pages, dest, pass_vars, merge, current_page, page_position>>

NextPage ==
    /\ pc = "save" /\ taken < Len(child)
    /\ is_full(source[total_pages])
    /\ taken' = taken + 1
    /\ total_pages' = total_pages + 1
    /\ \E tuples \in sort(source[total_pages]) :
           source' = add(reset((total_pages :> tuples) @@ source, total_pages + 1),
                         total_pages + 1, Tuple(child[taken + 1]))
    /\ UNCHANGED <<operator, child, out, pc, dest, pass_vars, merge, current_page, page_position>>

LastPage ==
    /\ pc = "save" /\ taken = Len(child)
    /\ \E tuples \in sort(source[total_pages]) : source' = (total_pages :> tuples) @@ source
    /\ total_pages' = total_pages + 1
    /\ runs_to_merge' = 1
    /\ pc' = "pass"
    /\ UNCHANGED <<operator, child, taken, out, dest, start_page, middle, end_page, merge,
                   current_page, page_position>>

\* Mutant: a pass leaves runs of the same length.
SameRuns(runs) == runs
LongerRuns(runs) == 2 * runs

\* A pass merges every two runs; the last pass has all the pages in one.
BeginPass ==
    /\ pc = "pass" /\ runs_to_merge < total_pages
    /\ runs_to_merge' = Min({LongerRuns(runs_to_merge), total_pages})
    /\ start_page' = 0
    /\ middle' = runs_to_merge - 1
    /\ end_page' = runs_to_merge' - 1
    /\ pc' = "chunk"
    /\ UNCHANGED <<operator, child, taken, out, file_vars, merge, current_page, page_position>>

NextChunk ==
    LET from == end_page + 1
        to == Min({end_page + runs_to_merge, total_pages - 1})
        half == from + runs_to_merge \div 2 - 1
    IN  /\ start_page' = from
        /\ end_page' = to
        /\ middle' = IF half >= to THEN (from + to) \div 2 ELSE half
        /\ UNCHANGED runs_to_merge

CopyPage ==
    /\ pc = "chunk" /\ start_page < total_pages /\ start_page = end_page
    /\ dest' = (start_page :> source[start_page]) @@ dest
    /\ source' = reset(source, start_page)
    /\ NextChunk
    /\ UNCHANGED <<operator, child, taken, out, pc, total_pages, merge, current_page, page_position>>

Cursor(page, last) == [page |-> page, counter |-> 0, last |-> last, open |-> TRUE]

BeginMerge ==
    /\ pc = "chunk" /\ start_page < total_pages /\ start_page # end_page
    /\ merge' = [left |-> Cursor(start_page, middle), right |-> Cursor(middle + 1, end_page),
                 out_page |-> start_page]
    /\ dest' = reset(dest, start_page)
    /\ pc' = "merge"
    /\ UNCHANGED <<operator, child, taken, out, total_pages, source, pass_vars, current_page, page_position>>

\* The tuple a run goes on with: of a run that is not open the last one.
TupleAt(cursor) ==
    LET tuples == PageOf(source, IF cursor.open THEN cursor.page ELSE cursor.last)
    IN  tuples[Min({cursor.counter + 1, Len(tuples)})]

Advance(cursor) ==
    IF cursor.counter + 1 < Len(source[cursor.page])
    THEN [cursor EXCEPT !.counter = @ + 1]
    ELSE IF cursor.page < cursor.last
    THEN [cursor EXCEPT !.page = @ + 1, !.counter = 0]
    ELSE [cursor EXCEPT !.page = @ + 1, !.counter = @ + 1, !.open = FALSE]

\* The output goes to another page when one is full.
MergeTuple ==
    LET left_first == has_priority(TupleAt(merge.left), TupleAt(merge.right))
        side == IF merge.left.open /\ (left_first \/ ~merge.right.open) THEN "left" ELSE "right"
        full == is_full(dest[merge.out_page])
        page == IF full THEN merge.out_page + 1 ELSE merge.out_page
        file == IF full THEN reset(dest, page) ELSE dest
    IN  /\ pc = "merge" /\ (merge.left.open \/ merge.right.open)
        /\ merge' = [merge EXCEPT ![side] = Advance(@), !.out_page = page]
        /\ dest' = add(file, page, TupleAt(merge[side]))
        /\ UNCHANGED <<operator, child, taken, out, pc, total_pages, source, pass_vars,
                       current_page, page_position>>

\* A request to interrupt the query is seen when a page is full.
Interrupt ==
    /\ pc = "merge" /\ (merge.left.open \/ merge.right.open)
    /\ is_full(dest[merge.out_page])
    /\ pc' = "interrupted"
    /\ UNCHANGED <<operator, child, taken, out, sort_vars>>

EndMerge ==
    /\ pc = "merge" /\ ~merge.left.open /\ ~merge.right.open
    /\ pc' = "chunk"
    /\ merge' = <<>>
    /\ NextChunk
    /\ UNCHANGED <<operator, child, taken, out, file_vars, current_page, page_position>>

EndPass ==
    /\ pc = "chunk" /\ start_page >= total_pages
    /\ pc' = "pass"
    /\ source' = dest /\ dest' = source
    /\ UNCHANGED <<operator, child, taken, out, total_pages, pass_vars, merge, current_page, page_position>>

Sorted ==
    /\ pc = "pass" /\ runs_to_merge >= total_pages
    /\ pc' = "deliver"
    /\ current_page' = 0 /\ page_position' = 0
    /\ UNCHANGED <<operator, child, taken, out, file_vars, pass_vars, merge>>

-----------------------------------------------------------------------------
\* next()
NextTuple ==
    LET turn == page_position = Len(source[current_page])
        page == IF turn THEN current_page + 1 ELSE current_page
        position == IF turn THEN 0 ELSE page_position
    IN  /\ pc = "deliver" /\ page < total_pages
        /\ current_page' = page
        /\ page_position' = position + 1
        /\ out' = Append(out, source[page][position + 1])
        /\ UNCHANGED <<operator, child, taken, pc, file_vars, pass_vars, merge>>

Delivered ==
    /\ pc = "deliver"
    /\ page_position = Len(source[current_page]) /\ current_page + 1 >= total_pages

SortStep ==
    \/ Begin \/ SaveRow \/ NextPage \/ LastPage
    \/ BeginPass \/ CopyPage \/ BeginMerge \/ MergeTuple \/ EndMerge \/ EndPass \/ Sorted
    \/ NextTuple

-----------------------------------------------------------------------------
(* Properties                                                              *)

InOrder(tuples) == \A i \in 1 .. Len(tuples) - 1 : has_priority(tuples[i], tuples[i + 1])

TuplesOf(file, from, to) == FlattenSeq([i \in 1 .. to - from + 1 |-> PageOf(file, from + i - 1)])
Unread(cursor) ==
    IF ~cursor.open THEN <<>>
    ELSE LET tuples == TuplesOf(source, cursor.page, cursor.last)
         IN  SubSeq(tuples, cursor.counter + 1, Len(tuples))

Same(s, t) == ToBag(s) = ToBag(t)

\* Between two passes every run of pages is in order and no row is lost or there
\* twice, also when the last run is shorter, has one page or was split in half;
\* while two runs are merged, what was written is in order and what is not yet
\* read comes after it.
RunsSorted ==
    /\ pc = "pass" =>
           /\ \A first \in {p \in 0 .. total_pages - 1 : p % runs_to_merge = 0} :
                  InOrder(TuplesOf(source, first, Min({first + runs_to_merge, total_pages}) - 1))
           /\ Same(TuplesOf(source, 0, total_pages - 1), [i \in DOMAIN child |-> Tuple(child[i])])
    /\ pc = "merge" =>
           LET written == TuplesOf(dest, start_page, merge.out_page)
               unread == Unread(merge.left) \o Unread(merge.right)
           IN  /\ InOrder(written)
               /\ written # <<>> =>
                      \A i \in DOMAIN unread : has_priority(written[Len(written)], unread[i])
               /\ Same(written \o unread, TuplesOf(source, start_page, end_page))
=============================================================================
