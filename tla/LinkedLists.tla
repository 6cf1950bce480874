---------------------------- MODULE LinkedLists ----------------------------
(***************************************************************************)
(* Lists (ml_ll.c, ml_primitives.c): nodes on the heap, linked from head,   *)
(* with a pointer to the last one.  A node holds one reference of its      *)
(* value.  A foreach keeps a pointer to the node that comes next.           *)
(***************************************************************************)
EXTENDS ScriptValues, Integers, SequencesExt

CONSTANTS
  Marker(_), \* Marker(n): the unsigned number n as an item
  Off,       \* no foreach runs
  MaxNodes,  \* addresses of nodes
  MaxLost,   \* bound of the references that out of range sets lose
  ListSlips  \* what scripts may do that lists get wrong, see AskList

VARIABLES
  heap,   \* the nodes: address -> [value, next]; what is freed is not in its domain
  head, tail, size,
  iter,   \* the node LLIterState points to; Off outside a foreach
  list_refs,   \* references of each value that the list is to release
  list_answer  \* what was asked and what the operation returned, until the script has it

list_vars == <<heap, head, tail, size, iter, list_refs, list_answer>>

Addresses == 1 .. MaxNodes
ASSUME ListConstants ==
  /\ MaxNodes \in Nat /\ MaxLost \in Nat /\ None \notin Addresses /\ Off \notin Addresses \cup {None}
  /\ ListSlips \subseteq {"pops_next", "pops_empty", "asks_length"}

\* The first n links from a node of h on; a walk stops at the end.
Walk(h, from, n) ==
  LET node[p \in 0 .. n] == IF p = 0 THEN from
                            ELSE IF node[p - 1] = None THEN None ELSE h[node[p - 1]].next
  IN node
NodeAt(p) == Walk(heap, head, size)[p]
Items == [i \in 1 .. size |-> heap[NodeAt(i - 1)].value]

\* The nodes that hold v, and the references of v that no node holds.
Holders(v) == {n \in DOMAIN heap : heap[n].value = v}
Lost(v) == list_refs[v] - Cardinality(Holders(v))

Unused == Min(Addresses \ DOMAIN heap)
Full == DOMAIN heap = Addresses
With(n, v, next) == [x \in DOMAIN heap \cup {n} |->
                       IF x = n THEN [value |-> v, next |-> next] ELSE heap[x]]
Link(h, n, next) == [h EXCEPT ![n].next = next]
Retain(v) == list_refs' = [list_refs EXCEPT ![v] = @ + 1]

ll_create ==
  /\ heap = [x \in {} |-> None] /\ head = None /\ tail = None /\ size = 0
  /\ iter = Off /\ list_refs = [v \in Values |-> 0] /\ list_answer = <<>>

AppendNode(v) ==
  LET n == Unused IN
  /\ heap' = IF head = None THEN With(n, v, None) ELSE Link(With(n, v, None), tail, n)
  /\ head' = IF head = None THEN n ELSE head
  /\ tail' = n
  /\ size' = size + 1

native_list_append(v) ==
  /\ ~Full /\ AppendNode(v) /\ Retain(v) /\ list_answer' = <<"append", v>>
  /\ UNCHANGED iter

ll_insert(p, v) ==
  /\ ~Full
  /\ IF p >= size THEN AppendNode(v)
     ELSE LET n == Unused IN
          /\ heap' = IF p = 0 THEN With(n, v, head)
                     ELSE Link(With(n, v, heap[NodeAt(p - 1)].next), NodeAt(p - 1), n)
          /\ head' = IF p = 0 THEN n ELSE head
          /\ size' = size + 1
          /\ UNCHANGED tail
  /\ Retain(v) /\ list_answer' = <<"insert", p, v>>
  /\ UNCHANGED iter

ll_get(p) ==
  /\ list_answer' = <<"get", p, IF p < size THEN heap[NodeAt(p)].value ELSE None>>
  /\ UNCHANGED <<heap, head, tail, size, iter, list_refs>>

\* set_list retains first; an index out of range forgets the reference it took.
set_list(p, v) ==
  /\ IF p < size
     THEN /\ heap' = [heap EXCEPT ![NodeAt(p)].value = v]
          /\ list_refs' = [[list_refs EXCEPT ![v] = @ + 1] EXCEPT ![heap[NodeAt(p)].value] = @ - 1]
     ELSE Retain(v) /\ UNCHANGED heap
  /\ list_answer' = <<"set", p, v>>
  /\ UNCHANGED <<head, tail, size, iter>>

UnlinkNodeKeepingTail(p) ==
  /\ heap' = [x \in DOMAIN heap \ {NodeAt(p)} |->
                IF p > 0 /\ x = NodeAt(p - 1) THEN [heap[x] EXCEPT !.next = heap[NodeAt(p)].next]
                ELSE heap[x]]
  /\ head' = IF p = 0 THEN heap[head].next ELSE head
  /\ UNCHANGED tail

UnlinkNode(p) ==
  LET cur == NodeAt(p)
      prev == IF p = 0 THEN None ELSE NodeAt(p - 1)
      cut == IF prev = None THEN heap ELSE Link(heap, prev, heap[cur].next)
  IN /\ heap' = [x \in DOMAIN heap \ {cur} |-> cut[x]]
     /\ head' = IF prev = None THEN heap[cur].next ELSE head
     /\ tail' = IF cur = tail THEN prev ELSE tail

\* A negative index counts from the front too: -1 is ~(-1) = 0. Without an index it
\* is -1. The reference of the node becomes that of the caller, who drops it.
FromFront(i) == IF i < 0 THEN -i - 1 ELSE i

native_list_pop(i) ==
  LET p == FromFront(i) IN
  /\ IF p >= size
     THEN list_answer' = <<"pop", i, "error">> /\ UNCHANGED <<heap, head, tail, size, list_refs>>
     ELSE /\ iter # NodeAt(p) \/ "pops_next" \in ListSlips
          /\ UnlinkNode(p)
          /\ size' = size - 1
          /\ list_answer' = <<"pop", i, heap[NodeAt(p)].value>>
          /\ list_refs' = [list_refs EXCEPT ![heap[NodeAt(p)].value] = @ - 1]
  /\ UNCHANGED iter

native_list_index(v) ==
  LET found == {i \in 1 .. size : Items[i] = v} IN
  /\ list_answer' = <<"index", v, IF found = {} THEN -1 ELSE Min(found) - 1>>
  /\ UNCHANGED <<heap, head, tail, size, iter, list_refs>>

\* ll_to_iter: the number of used slots, then the items, each with a reference more.
ll_to_iter == <<Marker(size + 1)>> \o Items

\* The search compares with the first slot as well.
native_list_contains(v) ==
  /\ list_answer' = <<"contains", v, \E i \in DOMAIN ll_to_iter : ll_to_iter[i] = v>>
  /\ UNCHANGED <<heap, head, tail, size, iter, list_refs>>

\* ll_slice_ll: slots count from 0. Those before the slice are released, those in it
\* are given to the new list, those behind it are released.
SliceGivenOneMore(start, len) ==
  {i \in start + 1 .. size : len # -1 => i <= start + 1 + len}
SliceGiven(start, len) ==
  {i \in start + 1 .. size : len # -1 => i < start + 1 + len}
SliceFreed(start, len) ==
  1 .. start \cup (IF len = -1 THEN {} ELSE start + 1 + len .. size)

ll_slice_ll(start, len) ==
  LET kept(v) == Cardinality({i \in 1 .. size : Items[i] = v})
      gone(v) == Cardinality({i \in SliceFreed(start, len) : Items[i] = v})
      given(v) == Cardinality({i \in SliceGiven(start, len) : Items[i] = v})
  IN /\ list_answer' = <<"slice", start, len, [i \in 1 .. Cardinality(SliceGiven(start, len)) |->
                                              ll_to_iter[start + 1 + i]]>>
     \* every item is retained; the script that gets the new list drops it again
     /\ list_refs' = [v \in Values |-> list_refs[v] + kept(v) - gone(v) - given(v)]
     /\ UNCHANGED <<heap, head, tail, size, iter>>

ll_iter_init ==
  /\ iter = Off /\ iter' = head
  /\ UNCHANGED <<heap, head, tail, size, list_refs, list_answer>>

ll_iter_next ==
  /\ iter \in Addresses
  /\ list_answer' = <<"next", heap[iter].value>>
  /\ iter' = heap[iter].next
  /\ UNCHANGED <<heap, head, tail, size, list_refs>>

ll_iter_cleanup ==
  /\ iter # Off /\ iter' = Off
  /\ UNCHANGED <<heap, head, tail, size, list_refs, list_answer>>

list_free ==
  /\ iter = Off
  /\ heap' = [x \in {} |-> None] /\ head' = None /\ tail' = None /\ size' = 0
  /\ list_refs' = [v \in Values |-> list_refs[v] - Cardinality(Holders(v))]
  /\ list_answer' = <<"clear">> /\ UNCHANGED iter

\* A script may pop the item that its foreach takes next, which leaves the foreach a
\* freed node; pop from an empty list, which is an error; or ask whether the
\* number of items plus one is in the list, which is always so.  These are slips.
\* A slice that starts behind the end reads past its array, and one of a negative length
\* other than -1 releases items twice: these never happen here.
AskList ==
  \/ \E v \in Values : native_list_append(v) \/ native_list_index(v)
  \/ \E v \in Values :
       (v # Marker(size + 1) \/ "asks_length" \in ListSlips) /\ native_list_contains(v)
  \/ \E p \in 0 .. size, v \in Values :
       ll_insert(p, v) \/ ((p < size \/ Lost(v) < MaxLost) /\ set_list(p, v))
  \/ \E p \in 0 .. size : ll_get(p)
  \/ \E i \in -size - 1 .. size :
       (size > 0 \/ "pops_empty" \in ListSlips) /\ native_list_pop(i)
  \/ \E start \in 0 .. size, len \in -1 .. size + 1 : ll_slice_ll(start, len)
  \/ ll_iter_init \/ ll_iter_next \/ ll_iter_cleanup \/ list_free

TakeList ==
  /\ list_answer # <<>> /\ list_answer' = <<>>
  /\ UNCHANGED <<heap, head, tail, size, iter, list_refs>>

ListNext == (list_answer = <<>> /\ AskList) \/ TakeList

ListSpec == ll_create /\ [][ListNext]_list_vars
-----------------------------------------------------------------------------
\* From head, size links lead through every node of the heap, once each, to tail,
\* and no item has fewer references than nodes that hold it (ml_ll.c).
Sound ==
  LET chain == [p \in 1 .. size |-> NodeAt(p - 1)] IN
  /\ IsInjective(chain) /\ ToSet(chain) = DOMAIN heap
  /\ NodeAt(size) = None
  /\ tail = IF size = 0 THEN None ELSE NodeAt(size - 1)
  /\ iter \in DOMAIN heap \cup {None, Off}
  /\ \A v \in Values : Lost(v) \in 0 .. MaxLost

Turn == IF iter = Off THEN 0 ELSE IF iter = None THEN -1
        ELSE CHOOSE p \in 1 .. size : NodeAt(p - 1) = iter
ListScript == INSTANCE ItemList WITH items <- Items, turn <- Turn, answer <- list_answer

\* Links and pointers give scripts what a sequence of items would: no operation
\* loses, repeats or swaps an item, and a foreach meets each item that is still there
\* when its turn comes (ml_ll.c, ml_primitives.c).
ImplementsItemList == ListScript!Spec
=============================================================================
