----------------------------- MODULE Containers -----------------------------
(***************************************************************************)
(* The two containers of a script: lists and dicts.  They share the values *)
(* that scripts store, and no state.                                       *)
(***************************************************************************)
EXTENDS LinkedLists, Dicts

\* The links, the tail and the size of a list agree after every operation, and no node is
\* lost or freed twice (ml_ll.c); every entry of a dict is in the bucket where a search
\* looks for it, once, and is counted, through all rehashing (ml_dict.c).
ContainersSound == Sound /\ Indexed
=============================================================================
