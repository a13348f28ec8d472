----------------------------- MODULE ChunkedMC ------------------------------
(***************************************************************************)
(* Contents for the chunked coding: text that looks like a header, a text  *)
(* whose length has two digits, and the empty one.                         *)
(***************************************************************************)
EXTENDS Chunked

Contents == {<<>>, <<"x">>, <<"a", CR, LF>>, [i \in 1..17 |-> LF], <<"0", CR>>}
Marker == <<"]", LF>>
Printed == {<<"x", "0", LF>>}
=============================================================================
