------------------------------- MODULE Dicts -------------------------------
(***************************************************************************)
(* Dicts (ml_dict.c): chained hashing.  A key is its printed form; a new   *)
(* entry is the first of its chain, and the buckets are doubled before a   *)
(* key is set in a dict that is more than three quarters full.             *)
(***************************************************************************)
EXTENDS ScriptValues, Integers, SequencesExt

CONSTANTS
  DictKeys,
  Seeds,             \* what HASH_SEED may be
  InitialSeed,       \* 5381 in the code
  hash_string(_, _), \* a number for every seed and key
  InitialCapacity,   \* INITIAL_CAPACITY, 16 in the code
  MaxCapacity,       \* bound: no key is set that would double more
  Reseeds            \* whether a script sets the seed when it has stored keys

VARIABLES
  HASH_SEED,
  dict,   \* [buckets, capacity, size]
  dict_refs,   \* references of each value that the dict is to release
  dict_answer  \* what was asked and what the operation returned, until the script has it

dict_vars == <<HASH_SEED, dict, dict_refs, dict_answer>>

Buckets(capacity) == 0 .. capacity - 1
dict_create ==
  [buckets |-> [i \in Buckets(InitialCapacity) |-> <<>>],
   capacity |-> InitialCapacity, size |-> 0]

ASSUME DictConstants ==
  /\ InitialCapacity \in Nat \ {0} /\ InitialSeed \in Seeds
  /\ \A seed \in Seeds : \A k \in DictKeys : hash_string(seed, k) \in Nat

\* Every walk over a dict goes bucket by bucket and down each chain.
Entries(d) == FlattenSeq([i \in 1 .. d.capacity |-> d.buckets[i - 1]])
Held(d, v) == Cardinality({i \in DOMAIN Entries(d) : Entries(d)[i].value = v})
Place(d, k) == hash_string(HASH_SEED, k) % d.capacity
Found(d, k) == {i \in DOMAIN d.buckets[Place(d, k)] : d.buckets[Place(d, k)][i].key = k}
FoundFirst(d, k) == Min(Found(d, k))

\* An entry becomes the first of a chain.
PutFirst(buckets, i, e) == [buckets EXCEPT ![i] = <<e>> \o @]

MoveBucketsOnly(d) ==
  [d EXCEPT !.capacity = d.capacity * 2,
            !.buckets = [i \in Buckets(d.capacity * 2) |->
                           IF i < d.capacity THEN d.buckets[i] ELSE <<>>]]

\* The chains are walked in order and every entry becomes the first of its new chain.
dict_resize(d) ==
  LET capacity == d.capacity * 2
      entries == Entries(d)
      moved[n \in 0 .. Len(entries)] ==
        IF n = 0 THEN [i \in Buckets(capacity) |-> <<>>]
        ELSE PutFirst(moved[n - 1], hash_string(HASH_SEED, entries[n].key) % capacity, entries[n])
  IN [d EXCEPT !.capacity = capacity, !.buckets = moved[Len(entries)]]

Overloaded(d) == 4 * d.size > 3 * d.capacity

\* dict_set, dict_set_raw, dict_set_str: they differ in how the key is printed.
dict_set(dd, k, v) ==
  LET d == IF Overloaded(dd) THEN dict_resize(dd) ELSE dd
  IN IF Found(d, k) # {} THEN [d EXCEPT !.buckets[Place(d, k)][FoundFirst(d, k)].value = v]
     ELSE [d EXCEPT !.buckets = PutFirst(@, Place(d, k), [key |-> k, value |-> v]),
                    !.size = @ + 1]

CutChain(d, k) ==
  [d EXCEPT !.buckets[Place(d, k)] =
     SubSeq(@, 1, (CHOOSE i \in DOMAIN @ : @[i].key = k) - 1), !.size = @ - 1]

UnlinkEntry(d, k) ==
  [d EXCEPT !.buckets[Place(d, k)] = RemoveAt(@, FoundFirst(d, k)), !.size = @ - 1]

Old(k) == dict.buckets[Place(dict, k)][FoundFirst(dict, k)].value

DictInit ==
  /\ HASH_SEED = InitialSeed /\ dict = dict_create
  /\ dict_refs = [v \in Values |-> 0] /\ dict_answer = <<>>

\* set d[k] = v: the old value is released, then the new one retained. The script
\* holds v, so that the old value is still there when it is the new one.
set_dict(k, v) ==
  /\ Overloaded(dict) => dict.capacity < MaxCapacity
  /\ dict' = dict_set(dict, k, v)
  /\ dict_refs' = LET left == IF Found(dict, k) = {} THEN dict_refs
                         ELSE [dict_refs EXCEPT ![Old(k)] = @ - 1]
             IN [left EXCEPT ![v] = @ + 1]
  /\ dict_answer' = <<"set", k, v>> /\ UNCHANGED HASH_SEED

get_dict(k) ==
  /\ dict_answer' = <<"get", k, IF Found(dict, k) = {} THEN None ELSE Old(k)>>
  /\ UNCHANGED <<HASH_SEED, dict, dict_refs>>

native_rem_dict(k) ==
  /\ dict' = IF Found(dict, k) = {} THEN dict ELSE UnlinkEntry(dict, k)
  /\ dict_refs' = IF Found(dict, k) = {} THEN dict_refs ELSE [dict_refs EXCEPT ![Old(k)] = @ - 1]
  /\ dict_answer' = <<"remove", k>> /\ UNCHANGED HASH_SEED

native_keys_dict ==
  /\ dict_answer' = <<"keys", [i \in DOMAIN Entries(dict) |-> Entries(dict)[i].key]>>
  /\ UNCHANGED <<HASH_SEED, dict, dict_refs>>

\* Each entry in turn is set in a new dict. An item and its copy are one member of
\* Values.
Copied(d) ==
  LET entries == Entries(d)
      copy[n \in 0 .. Len(entries)] ==
        IF n = 0 THEN dict_create ELSE dict_set(copy[n - 1], entries[n].key, entries[n].value)
  IN copy[Len(entries)]

\* The script keeps the copy and drops the original.
dict_copy ==
  dict' = Copied(dict) /\ dict_answer' = <<"copy">> /\ UNCHANGED <<HASH_SEED, dict_refs>>

dict_free ==
  /\ dict' = dict_create
  /\ dict_refs' = [v \in Values |-> dict_refs[v] - Held(dict, v)]
  /\ dict_answer' = <<"clear">> /\ UNCHANGED HASH_SEED

\* hash.set_seed: one seed for all dicts, and no dict is hashed anew.
native_hash_set_seed(seed) ==
  /\ dict.size = 0 \/ Reseeds
  /\ HASH_SEED' = seed /\ UNCHANGED <<dict, dict_refs, dict_answer>>

AskDict ==
  \/ \E k \in DictKeys : get_dict(k) \/ native_rem_dict(k) \/ \E v \in Values : set_dict(k, v)
  \/ native_keys_dict \/ dict_copy \/ dict_free \/ \E seed \in Seeds : native_hash_set_seed(seed)

TakeDict ==
  dict_answer # <<>> /\ dict_answer' = <<>> /\ UNCHANGED <<HASH_SEED, dict, dict_refs>>

DictNext == (dict_answer = <<>> /\ AskDict) \/ TakeDict

DictSpec == DictInit /\ [][DictNext]_dict_vars
-----------------------------------------------------------------------------
\* Every entry is where a search for its key looks, there is one entry for a key, the
\* size counts them, and the dict holds one reference for each (ml_dict.c).
Indexed ==
  /\ \A i \in Buckets(dict.capacity) : \A j \in DOMAIN dict.buckets[i] :
       Place(dict, dict.buckets[i][j].key) = i
  /\ \A k \in DictKeys : Cardinality({i \in DOMAIN Entries(dict) : Entries(dict)[i].key = k}) <= 1
  /\ dict.size = Len(Entries(dict))
  /\ \A v \in Values : dict_refs[v] = Held(dict, v)

\* A key that is in the dict is found (docs/Builtins.md 229: reading gives null when the
\* key isn't found), whatever the seed was when it was set.
KeysAreFound == \A e \in ToSet(Entries(dict)) : Found(dict, e.key) # {}

MapOf == LET entries == ToSet(Entries(dict))
         IN [k \in {e.key : e \in entries} |-> (CHOOSE e \in entries : e.key = k).value]
Told ==
  IF dict_answer # <<>> /\ dict_answer[1] = "keys"
  THEN <<"keys", ToSet(dict_answer[2]), Len(dict_answer[2])>> ELSE dict_answer

DictScript == INSTANCE ValueMap WITH Keys <- DictKeys, map <- MapOf, answer <- Told

\* Through collisions, resizes, removals and copies, the dict answers like a map: a
\* key is found with the value that was set last, and listed once (ml_dict.c).
ImplementsValueMap == DictScript!Spec
=============================================================================
