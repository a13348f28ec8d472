-------------------------------- MODULE Pipe --------------------------------
(***************************************************************************)
(* What a content that goes through a chunked stream promises: the bytes   *)
(* written come out in their order, and the reader learns where they end,  *)
(* not before the writer has said so, and always in the end.               *)
(***************************************************************************)
EXTENDS Sequences, Naturals, SequencesExt

CONSTANT Texts          \* what one write may write

VARIABLES
    written, closed,    \* the bytes the writer has written, and whether it is done
    output, ended       \* the bytes that have come out, and whether that is all
vars == <<written, closed, output, ended>>

Init == written = <<>> /\ closed = FALSE /\ output = <<>> /\ ended = FALSE

Write(text) ==
    /\ ~closed
    /\ written' = written \o text
    /\ UNCHANGED <<closed, output, ended>>

Close == ~closed /\ closed' = TRUE /\ UNCHANGED <<written, output, ended>>

Deliver ==
    /\ ~ended
    /\ IsPrefix(output, output') /\ IsPrefix(output', written)
    /\ ended' \in BOOLEAN /\ (ended' => closed /\ output' = written)
    /\ UNCHANGED <<written, closed>>

Next == Close \/ Deliver \/ \E text \in Texts : Write(text)
=============================================================================
