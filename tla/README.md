# MillenniumDB in TLA+

This directory keeps the formal model of MillenniumDB, the graph database of this repository
(`src/MillenniumDB/`): TLA+ modules translated from the C++ source, TLC instances that check
them, and proofs checked by TLAPS. It began with what the repository is about, the
regular-path-query operators, and follows a query from there in both directions: up to the rows a
client gets, and down to the pages of a file. `PROJECT.json` names, for every definition that
models code, the lines it models; for every property, the run that checks it and a mutation of
the code that breaks it; and every hazard the properties are for.

Paths below are relative to `src/MillenniumDB/src/`.

## 1. The system

A client sends a query over TCP. A session thread parses it, builds a logical and a physical
plan, and pulls rows from a tree of iterators (`begin`, `reset`, `next`). At the bottom the
patterns of a MATCH are scans of B+trees or leapfrog joins over them, or path operators, which
search the product of the graph and the automaton of a path expression; all of them write to one
binding of variables. Above, conditions, groups, sorts and limits turn bindings into rows.
B+trees, sorts and hashes read and write pages through the buffer manager.

### Components

| component | state it keeps | operations | talks to | modelled in |
|---|---|---|---|---|
| Path operators (`execution/binding_id_iter/paths/*`): `Any`, `AnyShortest`, `AllShortest`, `AllShortestCount`, `AllTrails`, `AnyTrails`, `AllShortestTrails`, `AllSimple`, `AnySimple`, `AllShortestSimple`; enumerations and checks, breadth and depth first | visited search states or path states, a queue or stack, a half-read iterator, the nodes already answered | `begin`, `reset`, `next` | index providers, path manager, parent operator | `AnyShortest`, `PathSearch` and what it uses |
| `AnyShortest::UnfixedComposite` | the enumeration from the current start node, the nodes that were one | as above | as above | `UnfixedComposite` |
| Experimental searches (`any_shortest/experimental`) | as above | as above | as above | no |
| Path index providers (`paths/index_provider`) | B+tree ranges or tries; the timeout mark they poll | `get_iterator`, `node_exists` | B+trees | as a set of records (`GetIterator`) |
| RPQ automaton (`parser/query/paths`) | the automaton being rewritten | `get_rpq_base_automaton`, `transform_automaton` | parser, planner | `RpqAutomaton` |
| Path planner (`plan/basic/path_plan.cc`) | which ends are bound | chooses operator and direction | the above | which operators exist, inversion |
| Joins and scans (`execution/binding_id_iter`) | the shared binding, a position in each relation | `begin`, `reset`, `next`, `assign_nulls` | each other, B+trees | `BindingIters`, `BindingOperators`, `LeapfrogJoin` |
| Query optimizer (`query_optimizer/quad_model`) | plans, the variables bound so far | `visit`, `get_binding_id_iter`, `estimate_cost` | operators | `BindingOperators`, `Results` |
| Result operators (`execution/binding_iter`) | rows on pages, runs, a hash, groups | `begin`, `next` | path manager, temporary files | `Results`, `OrderBy`, `DistinctHash` |
| Path manager (`paths/path_manager.cc`) | free slots, slot by thread id, pointers to the paths found | `begin`, `set_path`, `print`, `clear` | sessions, path operators | `PathManager` |
| Server (`bin/server.cc`) | the execution lock, the queue of timeouts, a mark per query | `session`, `execute_timeouts` | clients, everything else | `Server` |
| Buffer and file manager (`storage/`) | frames, pins, the clock, files; private buffers | `get_page`, `append_page`, `unpin`, `flush` | files | `BufferManager`; who gets a private buffer: `PathManager` |
| B+tree (`storage/index/bplus_tree`) | directories and leaves | `bulk import`, `insert`, `get_range`, `check` | buffer manager | `BptPages`, `BPlusTree` |
| Hash of strings, string manager, catalog, import, RDF model | pages, mapped files, plans | | | no (section 6) |

What is hard in it:

* **Interrupted pipelines.** `next()` returns in the middle of an expansion and has to resume
  from a half-read iterator; `reset()` may come at any time between calls; a timeout throws
  out of an iterator anywhere.
* **Shared structure.** Search states are shared by all the paths through them: by their
  `previous` pointers, by path iterators that several solutions step, by counts added up. All
  operators of a MATCH share one binding, and read there what others wrote last.
* **One pattern, thirty classes.** The path searches are near copies that differ in one condition;
  each copy has its own chance to be wrong.
* **Rewriting in place.** The automaton is merged, closed and numbered while it is traversed; a leaf,
  a bucket or a run of pages is split and merged while others lead to it.
* **Any plan.** The order of joins is chosen by cost, the index of each pattern by what was bound
  before: every one of the plans has to give the same answer.
* **Sessions.** Queries run on their own threads; slots, buffers, pages and timeouts belong to threads
  and queries that come and go, and exceptions cut a query short between two steps.

What makes each component correct, and the hazards against it, is listed under `hazards` in
`PROJECT.json`.

## 2. The modules

Paths:

| module | models |
|---|---|
| `ProductGraph` | edges of the database, automaton, their product; iterators as sets of records; what a query answers and how far, independent of any search |
| `Enumeration` | abstract specification: what every operator promises its parent |
| `AnyShortest`, `AnyShortestProofs` | `AnyShortest::BFSEnum`, and theorems about it |
| `BreadthFirst` | no code: lemmas about distances and breadth-first searches |
| `AnyOperators`, `AnyShortestCheck`, `AnyOperatorsProofs` | `Any::DFSEnum`, `Any::DFSCheck`; `AnyShortest::BFSCheck`; the invariants they keep |
| `Walks`, `PathClasses` | path states; trails and simple paths; the classes and their answers |
| `PathQueue`, `PathStack` | the breadth-first and the depth-first operators for trails and simple paths |
| `PathOperators`, `PathOperatorsProofs` | all thirty of them, as the planner makes them; the invariants they keep |
| `ShortestWalks`, `AllShortest`, `ShortestCount`, `ShortestOperators` | all walks of least length; `AllShortest::*`, `AllShortestCount::*`; both as the planner makes them |
| `UnfixedComposite` | the search that knows neither end, over the enumeration that `BFSEnum` is proved to be |
| `PathSearch`, `PathSearchProofs` | one operator of any of these families, and what each has to hand out; theorems, and the invariants of `AllShortest`, `AllShortestCount` and `UnfixedComposite` |
| `RpqAutomaton` | parse trees, the automata they build, their words; `RPQ_NFA::transform_automaton()` |

Matches and results:

| module | models |
|---|---|
| `Record` | records of ids and their order |
| `BindingIters` | scans, lookups, nested-loop and left outer joins, union, over one binding |
| `BindingOperators` | the plans of patterns and MATCHes, isolated terms and pushed properties included: every index, join order and join that may be chosen; each of them executed, against the matches |
| `LeapfrogJoin` | iterators on B+trees and on the table of edges; the join |
| `OrderBy` | tuple collections and the external merge sort |
| `DistinctHash` | the extendible hash of DISTINCT |
| `Results` | conditions, and what of a WHERE is pushed into the MATCH; the operators above the MATCH, as the visitors build them; which queries are refused |

Storage and sessions:

| module | models |
|---|---|
| `BufferManager`, `PageStore`, `BufferManagerProofs` | pages in frames, the clock, files that grow; the store of pages it implements; theorems |
| `BptPages`, `BPlusTree` | pages of a B+tree, import, searches, ranges; insertion with splits, `check()` |
| `PathManager`, `PathManagerProofs` | slots of running queries and private buffers; theorems |
| `Server`, `ServerProofs` | sessions, the execution lock, the timeout thread; theorems |

`MC*` modules and configurations instantiate them for TLC.

How they compose: `BPlusTree` and `LeapfrogJoin` share the pages of `BptPages`, so that the join
seeks in the very trees an import builds. `BindingIters` runs the operators of the plans of
`BindingOperators`. `OrderBy` and `DistinctHash` are parts of the pipeline of `Results`. `PathSearch` uses the
promise of `BFSEnum`, proved in `AnyShortestProofs`, inside `UnfixedComposite`. The same abstract
specification, `Enumeration`, is what path operators, leapfrog joins and plans of a MATCH implement:
operators on bindings are correct if they hand out a set of answers, each once, and so compose.

### How state and actions correspond to the code

* A **search state** is a pair `<<automaton state, node>>`; `visited` maps it to its `previous`
  pointer (`AnyShortest`, `AnyOperators`), to a distance and its transitions (`AllShortest`; where the iterators over these stand is `current`) or to a
  distance and a count (`ShortestCount`). `Null` is `nullptr`. A **path state** never changes once
  added, so `PathQueue` and `PathStack` hold the path itself where the code holds a pointer;
  of `Visited`'s blocks only `current_index` is left.
* An **iterator** of a path index is the set of records it has not returned yet (`iter`) and a flag
  `at_end`. One step `Visit` takes any of them: the order of an index is not relied on. Where the order
  matters (B+trees, leapfrog, scans) relations are sequences in the order of their columns.
* `next()` of a path operator is not one action. `pc` is where it is: `"ready"` (outside a call),
  `"loop"`, `"expand"` (the inner loop of `expand_neighbors()`), `"enumerate"` and `"settle"` where
  operators have such a part, `"done"` (returned false). `results` is what was handed out since
  the last `reset()`. Early returns are steps to `"ready"`. The leapfrog join is stepped the same way.
* The operators of `BindingIters` run on one thread and share nothing but the binding, so that a call is
  a function: its value has the operator and the binding after it. `BindingOperators` calls the root.
* `Interrupt` is the exception an iterator throws when the query is marked as timed out.
  It needs a step at an iterator, because only iterators look at the mark; the operator is destroyed then.
* `Reset(n, e)` is `reset()` after the parent bound a new start (and end) node, between any two
  calls. Nodes that are in the binding but not in the graph are among the inputs (`"missing"`).
* Where nearly identical classes differ, there is one small definition per class
  (`AnyCheckAnswer`, `ShortestEnumAnswer`, ...) and one shared pipeline. A definition that several
  classes share is mapped to one of them.
* `RpqAutomaton` has one action per step of the four passes; the loop over the states and
  the loop that repeats the pass are steps of their own, as each merge changes what the next sees.
* **Plans** are sets: `BindingOperators` has, for a MATCH, every operator that some cost could make
  the optimizer build. `MAX_SELINGER_PLANS` is 0 (`binding_id_iter_visitor.cc:23`), so that orders are those of
  the greedy optimizer, of which any order of connected patterns may be the cheapest.
* In `Results` each operator runs to its end before its parent takes its rows. The code pulls them one by one,
  which gives the same rows, as no operator looks at what its parent did; a limit is applied at the end.
  `OrderBy` and `DistinctHash` have a step per row, split, page and merged run.
* In `BufferManager` everything under `vp_mutex` is split where other threads can see it: `Miss` takes the
  mutex, each move of the clock is a step, `Replace` evicts and reads. `Unpin`, `Pin` and `Write` do not take the mutex.
  A page is a value, and a client's reference (`Handles`) is a `Page&` it has to unpin.
* `BPlusTree` keeps the pages that are not on disk yet: `append_page()` gives a page again if it was not written
  back (`WriteBack` is an eviction). Where that overwrites a page the model stops in `"overwritten"`.
* `Server` and `PathManager` number queries in the order they are accepted: `server()` accepts one
  connection at a time. Time is a countdown: `Tick` takes one from every timeout and from the
  sleep of the timeout thread, and may happen before a thread that is due takes its step, so
  threads may be late and never early. `std::shared_mutex` is a guard; who gets it is not
  determined.
* Undefined behaviour (front of an empty queue, `back()` of an empty vector, a null pointer, an iterator past
  the end, two threads in an unprotected table) leads to the state `"undefined"`, from which nothing
  follows. It is one of the possible outcomes of the step, next to the defined ones where there are any.

## 3. What the runs check

| run | instance | what it shows |
|---|---|---|
| `any_shortest` | 4 nodes, 9 edges, automaton with 3 states | `AnyShortest::BFSEnum` reports each node the query reaches once, with a path of least length that the query matches, across calls, resets and timeouts; it implements `Enumeration` |
| `path_search` | 3 or 4 nodes, 5 to 9 edges and 3 automaton states for each family | every other path operator hands out exactly the answers to its input, none twice; stacks are the paths that are printed, queues are in the order of lengths, shared path iterators are left at rest, counts are those of all shortest paths; every call returns |
| `automaton` | rounds of the grammar over three letters, words up to 3 letters, both directions | no word is lost from expression to automaton; where stars are closed it accepts nothing else; every pass keeps the words; the passes end |
| `path_manager` | 5 queries, 3 thread ids, 2 slots, 2 buffers | slots are all accounted for, a query prints only its own paths, and its slot has room |
| `server` | 3 queries, timeout of 2 ticks | writes run alone; no query is interrupted before its own timeout; every query ends |
| `buffer_manager` | 2 threads with 3 references, 2 frames, 1 file of up to 3 pages, 2 contents | whatever the interleaving of pins with the clock and of writes with evictions and restarts, clients see a store of pages; frames stay while they are used; pins are counted; the clock stops |
| `append_page` | the same | finding: a page that was appended is appended again |
| `bplus_tree` | imports of 0 to 10 records, 3 insertions, 3 records a leaf, 2 keys a directory | until a page is overwritten ranges are exact, `check()` passes, and duplicates are rejected and nothing else is, but for records above all of a full leaf |
| `leapfrog_join` | 6 shapes of joins over 5 relations and 3 tables, 2 records a leaf | each answer once and no other, also after resets with other values; calls return |
| `binding_operators` | 20 queries, 6 sets of edges, up to 16 of labels (on a node, on both edges), 4 of properties, every plan | each match once and nothing else, whatever the plan, until a lookup misses a row for what it assigned itself |
| `optional_nulls` | the query in which an OPTIONAL looks up an edge of the outer pattern | finding: a variable of the outer pattern is set to null |
| `results` | 12 queries (two more are refused), every order of up to 3 rows of five, and tables of 7 and 9 rows | sorted runs and the hash are exact on the way; the rows are those the query asks for; the query ends |

### Bounds and why they are enough

* **Paths.** Graphs have a cycle, a loop, parallel and opposite edges, two ways of different length to a
  node, a node that is not reached and one that does not exist; automata have a cycle, an inverse
  transition, a state without transitions and two final states. Each of these is a branch of the
  code; longer paths only repeat them. Queues and stacks are not bounded. `BlockSize = 2` (4096 in
  the code) lets paths cross blocks. `CountBits = 8`: the counts of the instance stay below; an
  overflow of 64 bits is not checked. For `UnfixedComposite` first transitions have three types, one
  without edges and two that start at the same node.
* Results are those since the last reset, and resets are not counted: every state of one search can be
  followed by any other, so that what a reset forgets to clear is met.
* **Expressions.** Each operator applied to each, under each, to two levels, over one type in both directions
  and another type; words of three letters tell all of them apart that two levels can build with
  two atoms, and the mutants of each pass are found with them.
* **Path manager.** Two slots and three threads are the least for which a thread id comes back with a lost slot
  while another query runs; five queries let that happen twice. Thread ids are symmetric (only
  invariants are checked).
* **Server.** Three sessions are the least in which a query in front of the queue delays one behind it while a
  third writes. `Duration = 2` separates "due", "not due" and "just started".
* **Buffer manager.** Two frames and three pages make every miss of a full pool an eviction; three references let one
  thread pin a page again while another looks for a frame. `GetPage` is guarded so that clients never
  need more pages at once than there are frames: beyond that the clock goes round for ever with
  the mutex held (`buffer_manager.cc:89`). `MaxUsage` bounds `usage`, which only delays the clock, `MaxPages` a file.
* **B+tree.** A leaf of three and a directory of two keys have a middle; ten records make three levels, and three
  insertions split a leaf, its directory and the directory above. `Behind` holds every record: what lies behind the last slot
  is, with one column (511 records fill the 4096 bytes), the next frame of the pool; behind wider records it is the padding of
  the page and the beginning of that frame. Behind the last frame the read leaves the pool, and may crash: the run ends there.
* **Joins.** Two records a leaf put the ends of leaves and of ranges everywhere. Joins share 0 to 3 variables, and have
  one relation or three; edge tables are read by id, by node and from end to end. Graphs of the plans
  have at most three edges, on which all equalities of a pattern (loops, edges to their own type) can be told apart.
* **Results.** `PageSize = 3` and up to nine rows give runs of one to nine pages, so passes with a merge, a run that is copied and
  a short last run. Queries have a plan of each kind. `MaxTuples = 1` and hashes that differ in
  their low bits split a bucket for almost every tuple, with and without doubling the directory. A hash is a function of the
  tuple; in the code it covers the padding of each `GraphObject` too (`distinct_binding_hash.cc:43`). More than
  `MaxTuples` tuples with the same hash would be split for ever; hashes of different tuples differ here.
* `CHECK_DEADLOCK FALSE` because systems do stop: an interrupted operator is destroyed, and finitely many
  queries end.

### Fairness

* Path operators: `WF(Running /\ Search)`. A call of `next()` runs on the session's own thread, which
  the system schedules; once called, its steps are taken. Nothing forces the parent to call.
* Leapfrog join and results: the same, written out as "either it is infinitely often not running, or it
  takes infinitely many steps", because a step is enabled whenever it is running.
* Automaton: `WF(Next)`: a function that runs.
* Buffer manager: weak fairness of the clock of a thread that has the mutex. Nothing is asked of clients: pages need not
  be unpinned for it to stop.
* Server: weak fairness for each step of a session, of the timeout thread and of the clock. Strong fairness
  for `Interrupt`: an iterator looks at the mark again and again (`server.cc:16-18` makes it the duty of
  long operations; the iterators of `path_index.cc` do it in `next()`). A query need not end by
  itself: no fairness for `Execute`. `std::shared_mutex` may prefer readers; with finitely
  many queries a writer still gets its turn, and an unlimited stream of readers could starve it.

## 4. What is proved

By TLAPS, `AnyShortestProofs`, for every graph, automaton, start node and number of calls and resets
(assumptions: `ProductGraph`'s, that the constants are well formed, and that a graph and an automaton are finite, as
what is stored is):

* `TypeCorrect`: `AnyShortest` is type correct. The invariant adds to `TypeOK` that while a state is
  being expanded the queue is not empty, the current transition exists and the iterator is one of it.
* `PathsCorrect` (`PathsMatch`), `ExpansionCorrect` (`ExpandedCompletely`), `NoneTwiceCorrect` (`NoNodeTwice`). None is
  inductive: what is still to be expanded is a state in the queue, a later transition of the state in front, or a
  record of the half-read iterator. `Progress` says so for every successor of every visited state; `ReportInv`
  ties `results`, `reached_final` and the pointers of `visited` together.
* `ShortestCorrect` (`ShortestPaths`): paths are of least length. The lengths in the queue are those of its front, then those one
  longer (`SortedQueue`); a visited state has its pointer's length plus one. That no state is reached in
  fewer steps than its path has needs the states that can be reached in `n` steps, for every `n`: a recursive
  function (`Layers`), with an induction that is done by taking the least number that fails (`LeastNumber`).
* `Refinement`: every step of `AnyShortest` is a step of `Enumeration` or stutters. That only
  answers are reported follows from `PathsMatch` by an invariant that visited states are
  reachable; that none is missing at the end because a set that holds the origin and is closed
  under steps contains all that is reachable (`ReachableLeast`).

What `BFSEnum` has in common with the other breadth-first searches is in `BreadthFirst`: distances, and the
path of `previous` pointers from a state that was visited.

`PathSearchProofs`, for every graph and automaton of each family, any kinds of operators and inputs (assumptions: the same, and
for trails and simple paths two more that the code relies on: no edge is stored twice, as edges are numbered when
they are created (`import/quad_model/import.h:164`), and the automaton is deterministic for each type and direction):

* `ExpansionCorrect` (`ExpandedCompletely`), `ShortestCorrect` (`ShortestPath`), `StackCorrect` (`StackIsPath`), `QueueCorrect`
  (`QueueOrdered`). The invariants are found and proved for each family by itself, in `AnyOperatorsProofs` and
  `PathOperatorsProofs`; here the steps of `PathSearch` are shown to be steps of the family, or to leave it alone.
* `AnyOperatorsProofs`: a depth-first stack is a path by the `previous` pointers, and what a visited state still
  has to expand is on the stack, at a later transition or in the iterator of a frame. The check that
  searches breadth first keeps the invariants of `AnyShortest`.
* `EnumerationCorrect` (`EnumeratesAnswers`: each step is one of `Enumeration` or stutters) and the part of
  `NoneTwiceCorrect` (`NoneTwice`) for the operators for any path. A step of any of them is quiet, takes up a state that is no new answer,
  hands one out, or starts over (`AnswerStep`), and that is all `AnswerInv` needs: what was visited was reached, what was reported was visited and
  answers the input, and the node of every visited state that answers it was reported, once. With nothing left on the stack or
  in the queue what was visited is closed under steps, so nothing is missing (`ReportedComplete`). `EnumerationCorrect` leaves out `DFSCheck` with a variable
  as its end, of which it is false: `reset()` keeps the end node of an earlier binding (section 5).
* `PathOperatorsProofs`, depth first: `StackInv` ties each frame to the transition the frame below is at, so that edges or nodes that
  differ on the stack still do when the search backtracks and goes on. A frame that closes a simple cycle is past its last
  transition and never expanded. Breadth first: that no path is twice in the queue is not inductive, as the next path might already be
  there. `FromFront` says that a path with one step more comes from the front, through a record that was `Taken`; a path determines its
  transitions in a deterministic automaton, and a record its edge, so that a record not yet taken gives a new path.
* `NoneTwiceCorrect` for trails and simple paths: no path is handed out twice, nor an end node if any path will do. Its invariant,
  `OnceInv`, says where the paths handed out so far lie relative to those still to come. Depth first, it
  leaves the path of the stack, or goes on from it, by a step its frame has taken (`Left`); as each frame's own step was taken
  by the frame below (`LinksBehind`), this survives when frames are pushed and popped. Breadth first, it is at most one
  edge longer than the front, and continues no path of the queue but the front's, and that by a step taken already (`Passed`).
  The enumerations for any path look into `reached_final`; the checks end with their answer.
* `PathsEnumerated` (`EnumeratesAnswers`): all thirty operators for trails and simple paths hand out all that is asked for and nothing
  else. What is asked for is defined without a search: `Walks` grows sets of walks as many times as there are edges or nodes, which is
  shown to give every walk that grows from the start node (`WalksFrom`, `ExpectedWanted`): none can be longer, as it passes no edge
  or no node twice and there are finitely many. What is handed out is one of them, as the stack and the queue only hold such walks. That none is missing is an
  invariant about every walk that is an answer and does not count as handed out yet: it still lies ahead of the search. Depth
  first (`DfsAll`, `OthersFound`), it leaves the path of the stack at a frame whose step to it was not taken, or goes on from the top;
  breadth first (`BfsAll`, `OthersGone`), it continues a path of the queue, the front's by a record not read yet. An operator for
  the shortest paths or for any also needs that answers come in the order of their lengths (`ShortestFirst`) and that it
  remembers the nodes it answered (`Remembered`). With nothing on the stack or in the queue nothing is ahead. Checks by `DFSCheck`
  of simple paths that cleared their stack are left out from there on (`GivesUp`), as `Enumeration` has it: they stop without having said so (section 5).
* `IteratorsCorrect` (`IteratorsRest`), for `AllShortest`. `PathIterNext` is a recursive function: that it exists is proved first, by iterating its
  equation as often as there are steps back to the start (`PathIterNextDefined`), as each transition leads one
  step back (`BackOneStep`). `Led` says what an iterator that does not rest is: that of the solution, or of a state that
  another such iterator points to. A call keeps it, leaves what is further from the start alone, and when it says that there is no further path
  all iterators rest (`NextKeepsLed`, by induction on the distance). So one that rests at the solution leaves none behind half way, whichever states
  solutions share.
* `NoneTwiceCorrect` for `AllShortestCount`: one count for each node, if there is one final state (an enumeration with several may come back to a node,
  section 5; a check stops at its first count). No state is twice in the queue, not even one after the other, as only states
  not visited enter it (`CountQueue`); the count of a node is handed out when its state leaves the queue, to which it cannot
  return as it stays visited (`CountResults`). A check empties its queue with the one count it hands out.
* `PairsCorrect` (`EnumeratesAnswers`), and the part of `NoneTwiceCorrect` for `UnfixedComposite`, from the promise of the search it calls and
  no more. Start nodes come one after the other, all answers of those before the last were handed out, and the first
  nodes of the records so far were start nodes (`UnfixedInv`). That nothing is missing at the end needs that a node
  without an edge of a first transition reaches nothing, as its origin alone is closed under steps. An
  inverse first transition is excluded (`UnfixedForward`): the theorem is false of it (section 5).

`BufferManagerProofs`, for any number of threads, references, frames, files and pages (assumptions: the
bounds are natural numbers, `NoPage` and `NoCall` are none of the pages and references, `Zero` is a content):

* `TypeCorrect`, `HeldCorrect` (`HeldStays`), `PinsCorrect` (`PinsCounted`) and `ImplementsStore` (`IsStore`).
* All rest on one inductive invariant, `Inv`. `PinsCounted` makes a frame that the clock may take one that nobody
  holds; that is what `HeldStays` needs, and it needs it of the very frame `pages` leads to, so `TableInv` says that frames and
  table agree in both directions. A page that is looked for must not come into the pool meanwhile, or it
  would be there twice: `CallInv` says that the mutex holder's page is in no frame, as all that add pages need the mutex.
  `DiskInv` says that a frame that is not dirty equals the disk, and that nothing is past the end
  of a file; with it an eviction, a read past the end and a restart leave every content as it is, and are stutters of `PageStore`.

`PathManagerProofs`, for any number of queries, thread ids and slots (assumption: `NoThread` is no thread id):

* `SlotsCorrect` (`SlotsConserved`), `OwnPathCorrect` (`OwnPath`), `OwnRoomCorrect` (`OwnRoom`).
* A slot is read through the id of a thread, and `begin()` does not replace the entry of an id (`path_manager.cc:42`), so that a
  query may work on a slot lost by an earlier one and give back that one instead of its own. What survives this is `SlotsInv`:
  a slot is at most once in the queue or the table, and never in both; with `ThreadsInv` (ids of
  live threads differ, and who has a slot is in the table) no other query's step reaches the entry
  (`EntryKept`). `OwnRoom` needs more, that without failures only running queries are in the table (`TableInv`).

`ServerProofs`, for every number of queries and every duration:

* `TypeCorrect`: the types of the server's variables. `Isolated`: `WritesAlone`, inductive with the types.
* `NotEarly`: `NoEarlyTimeout`. A timeout is set again after a query got a `ThreadInfo`, so the
  invariant has to say that what is in the queue or marked has been pushed, with its timeout
  running down since, and that only a query that ended is `finished`; the order of the queue plays no part.

Only model-checked:

* all liveness (`CallsReturn`, `ClockStops`, `Terminates`, `QueriesEnd`, `QueryEnds`): it needs `ENABLED`;
* what recursive operators compute, as tlapm has no SMT backend for a module that reaches one: the words of an automaton
  (`NoWordLost`, `ExactWhenClosed`), the matches of a query and the calls of nested operators (`AnswersQuery`, the plans);
* of `PathSearch`, `NoneTwice` of `AllShortest`, and `EnumeratesAnswers` of `AllShortest` and `AllShortestCount`;
* the B+tree (`Checks`, `RangesExact`), the joins, and the runs and hashes of the results (`RunsSorted`, `DirectoryExact`).

## 5. Where the code departs from what it says

With a run:

1. `append_page`: the number of a new page is the number of pages on disk (`buffer_manager.cc:84`), and reading it only extends
   the file up to where it begins. Two calls in a row return the same page, against `buffer_manager.h:59-61`. What follows:
   the split of the root of a B+tree gets the same page twice (`bplus_tree_dir.cc:40-41`, `:153-154`), a second leaf split before the first new
   leaf was written back overwrites that leaf, and `RandomAccessTable::append_record` does not get a new page.
2. `optional_nulls`: `EdgeTableLookup::assign_nulls()` (`edge_table_lookup.cc:97`) sets variables to null that the outer pattern bound.

Modelled as the code is; up to there the promise is checked, and from there on the model stops in
`"undefined"`, or the property excludes the case:

* `Visited::clear()` (`all_trails/search_state.h:69` and five more) frees its blocks but not
  `current_index`; the `add()` of `reset()` then indexes an empty vector.
* `DFSCheck` of `AllSimple` and `AnySimple` empties its stack when the end node is on top
  (`all_simple/dfs_check.cc:76`): paths are missing, or all of them (`MayGiveUp`).
* `AllShortestCount::BFSEnum` with several final states dereferences `find()` of an entry it erased
  (`all_shortest_count/bfs_enum.cc:137`), or hands out a node again (`OneCount` excludes it; the first count is right).
* `AllShortest` hands out a path of a single edge from the start node again for each parallel edge
  (`LongNoneTwice` is about the longer ones).
* `Any::DFSCheck::reset()` keeps the end node of the first binding.
* `UnfixedComposite`: `reset()` drops `path_enum` and dereferences it (`unfixed_composite.cc:109`, `:122`); so does `next()` if the
  first transition has no edge (`:61`, `:83`). For an inverse first transition the start nodes are taken from the wrong end
  (`:17`): the promise is stated for automata without one.
* An automaton whose star or option begins with a loop of its own is merged with what surrounds it
  (`rpq_automaton.cc:218`): `(:a*/^:a)*` becomes `(:a|^:a)*` (`ExactWhenClosed` excludes it). `path_kleene_star.h:47` takes an automaton of
  two states for that of an atom: `((:a*){0,1})*` loses its words (`NoWordLost` excludes it).
* The slot of a query is lost when its `ORDER BY` gets no private buffer (`binding_iter_visitor.cc:264`), and private
  buffers are never taken back from threads that ended. `server.cc:11` says the number of threads is limited; sessions are not, and
  `PathManager::begin()` reads the front of an empty queue when more run than there are slots.
* With `ORDER BY`, all rows print the last path: `need_materialize_paths` is never set.
* `server.cc:48` wants the queue ordered by timeout; the timeout is computed before the mutex is taken, so that two
  sessions may push in the other order. `QueueOrdered` (in `Server`, in no run) fails; a timeout is then late, and
  `NoEarlyTimeout` and `QueriesEnd` hold all the same.
* `BPlusTreeLeaf::insert` compares a record with the slot its search returns (`bplus_tree_leaf.cc:31-32`, `:163`). If the record is above
  all of a full leaf, that is past the last slot: a new record that happens to equal what lies there is rejected as a duplicate.
  `RejectsDuplicates` leaves out this case alone; the tree of nodes has the records of one column it matters most for (`quad_model.cc:379`).
* `EdgeTableLookup` takes any variable that is not null for one assigned before it (`edge_table_lookup.cc:60-80`), and `reset()` (`:91`)
  leaves what it assigned itself. On the right side of a join or of an OPTIONAL, the next edge is then compared with the ends and
  the type of the one before, and its row is lost; an OPTIONAL has a row of nulls instead.
  The run has such graphs; `EnumeratesMatches` is about the rows before the first lost one (`LostRow`, `exact`).
* A property that WHERE demands is pushed into every pattern, and its variable assigned from there on (`binding_id_iter_visitor.cc:57-64`,
  `:178-183`). If the variable is in an OPTIONAL only, the outer pattern becomes a cross product with the objects that have the
  property, and the OPTIONAL is matched for these; the condition no longer filters. `MatchesWhere` takes it as such a pattern.
* Opening the table of edges with the edge known reads the next one (`leapfrog_edge_table_iter.cc`), and an edge-table iterator without terms may
  be opened at a level it is at already; the joins exclude both.
* Results: `compare()` of two edges compares the left one with itself (`graph_object_manager.h:315`), and an integer and a
  float may compare as the same and not be equal (`:204-206`), so that a group can be handed out twice;
  an aggregate without GROUP BY under ORDER BY always throws (the state `"failed"`); DISTINCT with aggregates and no
  WHERE builds no distinct operator, although `binding_iter_visitor.cc:147` says it was created. The values and queries
  of the run are without edges, equal numbers of both types in one group, and this kind of DISTINCT. AND and OR stop
  at the first operand that decides, and let a null operand decide nothing; a null is less than a number.

Not modelled, seen while reading:

* `quad_model.cc:284-526`: an insertion counts the connections of an edge twice (`:332`, `:345`); a `LogicException` cuts it off between
  two indexes. The cache of path indexes is built and read by queries that hold the execution lock shared, without a lock
  of its own (`:419`), and is not rebuilt after an insertion.
* `strings_hash_bucket.cc:70-90` moves strings to a new bucket without marking either page dirty; blocks that `string_manager.cc:184` appends are
  mapped privately and lost at the end. `hash_join_grace.cc:132-151` reads a key past the end of a bucket, in a join no plan builds.

## 6. What is not modelled

* A crash: there is no log and nothing to recover; `Restart` is the orderly end, with `flush()`.
* Tries and hashes of edge types and the cache that holds them: what their race leaves is undefined. The insertion of edges, which
  is sequential under the unique execution lock, but for what the server model says of that lock.
* Joins no plan builds (hash joins: `greedy_optimizer.cc:55` is commented out); `DistinctOrdered`; the experimental searches.
* Variables that `SET` fixes before a MATCH is planned (`binding_iter_visitor.cc:290-294`, `binding_id_iter_visitor.cc:71-78`).
* A MATCH with a path pattern, beyond its operator: the parent of a path operator is any sequence of calls and resets.
* The average, DESCRIBE, and the printing of results over TCP.
* The hash of strings and the string manager (bytes and offsets of blocks), random access tables, the catalog (a sequential file).
* The RDF model and the SPARQL server, which repeat the operators and the server without path manager.
* A shutdown: `server()` never runs its `io_context`, so that the signal handler is not called.
* The copies of paths that outlive a search (`begin()` is never asked for them).
* Import, but for the pages of a B+tree it leaves; formatting, parsing of text, plan costs.

Most lines of the sources that no definition stands for are generated (`autogenerated/`, `lex.yy.cc`) or third-party code: almost three
quarters of the tree. Of the rest, about half is modelled.

## 7. What could come next

1. The insertion of edges and the cache of path indexes, with the catalog: that indexes agree when an insertion fails midway.
2. The hash of strings with the string manager, over the pages of `BufferManager`.
3. `LeapfrogJoin` proved to implement `Enumeration`.
4. `EnumeratesAnswers` of `AllShortest` and `AllShortestCount`: that the iterators of a solution step through all the ways
   back to the start, and that the counts added up are their number.

## 8. Running

    tlc -workers 2 -config MCPathSearch.cfg MCPathSearch
    tlc -workers 2 -config MCServer.cfg Server
    tlapm BreadthFirst.tla
    tlapm AnyShortestProofs.tla
    tlapm AnyOperatorsProofs.tla
    tlapm PathOperatorsProofs.tla
    tlapm PathSearchProofs.tla
    tlapm BufferManagerProofs.tla
    tlapm PathManagerProofs.tla
    tlapm ServerProofs.tla

Every run ends within three minutes on two cores.
