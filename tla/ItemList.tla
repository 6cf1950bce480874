------------------------------ MODULE ItemList ------------------------------
(***************************************************************************)
(* What the list operations promise a script: the list is a sequence of    *)
(* items, answer is what was asked and what it gave, and a foreach meets   *)
(* every item that is still in the list when its turn comes, once and in    *)
(* order, whatever its body does to the list.                              *)
(***************************************************************************)
EXTENDS Integers, SequencesExt

CONSTANTS Values, None

VARIABLES
  items,   \* the list
  turn,    \* the place of the item that the foreach takes next; 0: no foreach
  answer

vars == <<items, turn, answer>>

Over == -1   \* the foreach has seen the end of the list
Places == 0 .. Len(items) - 1

Init == items = <<>> /\ turn = 0 /\ answer = <<>>

Tell(a) == answer' = a /\ UNCHANGED <<items, turn>>

Append1(v) == answer' = <<"append", v>> /\ items' = Append(items, v) /\ UNCHANGED turn

Insert(p, v) ==
  /\ answer' = <<"insert", p, v>>
  /\ items' = InsertAt(items, p + 1, v)
  /\ turn' = IF turn >= p + 1 THEN turn + 1 ELSE turn

Set(p, v) ==
  /\ answer' = <<"set", p, v>>
  /\ items' = IF p \in Places THEN [items EXCEPT ![p + 1] = v] ELSE items
  /\ UNCHANGED turn

\* A negative index counts from the front too, -1 for the first item; an empty list
\* has nothing to give.
TakeOut(i) ==
  LET p == IF i < 0 THEN -i - 1 ELSE i
  IN IF p \in Places
     THEN /\ answer' = <<"pop", i, items[p + 1]>>
          /\ items' = RemoveAt(items, p + 1)
          /\ turn' = IF turn > p + 1 THEN turn - 1 ELSE turn
     ELSE Tell(<<"pop", i, IF items = <<>> THEN None ELSE "error">>)

Get(p) == Tell(<<"get", p, IF p \in Places THEN items[p + 1] ELSE None>>)
IndexOf(v) == Tell(<<"index", v, SelectInSeq(items, LAMBDA x : x = v) - 1>>)
Member(v) == Tell(<<"contains", v, v \in ToSet(items)>>)
\* As many as there are, if len items do not follow; all of them for -1.
Slice(start, len) ==
  LET following == Len(items) - start IN
  Tell(<<"slice", start, len,
         SubSeq(items, start + 1,
                IF len = -1 \/ len > following THEN Len(items) ELSE start + len)>>)

Begin == turn' = (IF items = <<>> THEN Over ELSE 1) /\ UNCHANGED <<items, answer>>
Step ==
  /\ turn >= 1
  /\ answer' = <<"next", items[turn]>>
  /\ turn' = IF turn = Len(items) THEN Over ELSE turn + 1
  /\ UNCHANGED items
End == turn' = 0 /\ UNCHANGED <<items, answer>>
Clear == items' = <<>> /\ answer' = <<"clear">> /\ UNCHANGED turn

Take == answer' = <<>> /\ UNCHANGED <<items, turn>>

Next ==
  \/ \E v \in Values : Append1(v) \/ IndexOf(v) \/ Member(v)
  \/ \E p \in 0 .. Len(items), v \in Values : Insert(p, v) \/ Set(p, v)
  \/ \E i \in -Len(items) - 1 .. Len(items) : TakeOut(i)
  \/ \E p \in 0 .. Len(items) : Get(p)
  \/ \E start \in 0 .. Len(items), len \in -1 .. Len(items) + 1 : Slice(start, len)
  \/ Begin \/ Step \/ End \/ Clear \/ Take

Spec == Init /\ [][Next]_vars
=============================================================================
