------------------------------- MODULE Storage -------------------------------
(***************************************************************************)
(* Storage maps of frame_support as the pallets use them: a partial        *)
(* function from keys to values.  The pallets declare their maps without   *)
(* an option type, so reading an absent key yields the default value of    *)
(* the type instead of failing.                                            *)
(***************************************************************************)

EmptyMap == [k \in {} |-> k]

\* StorageMap::get on a map whose value type has the given default.
Get(map, key, default) == IF key \in DOMAIN map THEN map[key] ELSE default

\* StorageMap::insert: creates the entry or overwrites it.
Put(map, key, value) ==
  [k \in DOMAIN map \cup {key} |-> IF k = key THEN value ELSE map[k]]

\* StorageMap::remove: no effect when the key is absent.
Remove(map, key) == [k \in DOMAIN map \ {key} |-> map[k]]

=============================================================================
