------------------------------ MODULE ValueMap ------------------------------
(***************************************************************************)
(* What the dict operations promise a script: a dict is a map from keys to *)
(* values, whatever was set, removed and copied before.                    *)
(***************************************************************************)
EXTENDS FiniteSets, Functions

CONSTANTS Keys, Values, None

VARIABLES
  map,
  answer  \* what was asked and what it gave, until the script has it

vars == <<map, answer>>

Init == map = <<>> /\ answer = <<>>

Set(k, v) ==
  /\ map' = [x \in DOMAIN map \cup {k} |-> IF x = k THEN v ELSE map[x]]
  /\ answer' = <<"set", k, v>>
Forget(k) == map' = Restrict(map, DOMAIN map \ {k}) /\ answer' = <<"remove", k>>
Get(k) ==
  /\ answer' = <<"get", k, IF k \in DOMAIN map THEN map[k] ELSE None>>
  /\ UNCHANGED map
AllKeys ==
  /\ answer' = <<"keys", DOMAIN map, Cardinality(DOMAIN map)>>
  /\ UNCHANGED map
CopyOf == map' = map /\ answer' = <<"copy">>
Clear == map' = <<>> /\ answer' = <<"clear">>

Take == answer' = <<>> /\ UNCHANGED map

Next ==
  \/ \E k \in Keys : Forget(k) \/ Get(k) \/ \E v \in Values : Set(k, v)
  \/ AllKeys \/ CopyOf \/ Clear \/ Take

Spec == Init /\ [][Next]_vars
=============================================================================
