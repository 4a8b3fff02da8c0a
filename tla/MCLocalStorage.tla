--------------------------- MODULE MCLocalStorage ---------------------------
(* Small instances of LocalStorage for TLC, together with the keys it      *)
(* accepts. A key may use a name of the root.                              *)
EXTENDS LocalStorage, StorageKeys, TLC

AllFaults == {"kill", "power", "remove"}
StorageRoot == <<"srv", "data">>

Symmetry == Permutations(Puts) \union Permutations(Keys)

\* Before a call touches a file, its key is judged, and a key that is accepted
\* leads strictly below the root (validateStorageKey, resolve). Keys are judged
\* without looking at the state, so the initial one stands for all.
KeysLeadBelowRoot ==
    (\A c \in Calls : pc[c] = "idle") => \A k \in SomeKeys : LeadsBelowRoot(k)
=============================================================================
