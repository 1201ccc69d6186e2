------------------------------- MODULE BpfMap -------------------------------
(***************************************************************************)
(* A BPF_MAP_TYPE_HASH map of the kernel, as bpf/profile.bpf.c uses it: a  *)
(* function from the keys present to their values. The operators return    *)
(* the map's next value; the callers in profile.bpf.c ignore the helpers'  *)
(* return codes, so a refused insertion is a map that did not change.      *)
(***************************************************************************)
LOCAL INSTANCE FiniteSets
LOCAL INSTANCE Naturals

EmptyMap == [k \in {} |-> k]

(* bpf_map_update_elem(.., BPF_ANY): an existing key is always replaced, a *)
(* new key is refused (-E2BIG) once the map holds max entries.             *)
HasRoom(m, k, max) == k \in DOMAIN m \/ Cardinality(DOMAIN m) < max

Put(m, k, v) == [x \in DOMAIN m \cup {k} |-> IF x = k THEN v ELSE m[x]]

MapUpdate(m, k, v, max) == IF HasRoom(m, k, max) THEN Put(m, k, v) ELSE m

(* bpf_map_delete_elem: deleting an absent key changes nothing.            *)
MapDelete(m, k) == [x \in DOMAIN m \ {k} |-> m[x]]
=============================================================================
