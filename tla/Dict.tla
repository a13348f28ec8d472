-------------------------------- MODULE Dict --------------------------------
(***************************************************************************)
(* A dictionary of Python: its keys in the order they were first put in.   *)
(***************************************************************************)
EXTENDS Sequences, SequencesExt

NoItems == [keys |-> <<>>, value |-> <<>>]

Has(dict, key) == key \in DOMAIN dict.value

(* A function that has this value at the key.                               *)
Updated(f, key, value) == [k \in DOMAIN f \cup {key} |-> IF k = key THEN value ELSE f[k]]

Put(dict, key, value) ==
    [keys  |-> IF Has(dict, key) THEN dict.keys ELSE Append(dict.keys, key),
     value |-> Updated(dict.value, key, value)]

Drop(dict, key) ==
    [keys  |-> RemoveFirst(dict.keys, key),
     value |-> [k \in DOMAIN dict.value \ {key} |-> dict.value[k]]]
=============================================================================
