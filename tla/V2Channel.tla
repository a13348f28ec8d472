----------------------------- MODULE V2Channel ------------------------------
(***************************************************************************)
(* What a subunit v2 stream promises to those at its ends: the status()    *)
(* calls whose packets were written reach the reader's result, each once,  *)
(* in the order they were written, without waiting for anything that comes *)
(* after them in the stream.                                               *)
(***************************************************************************)
EXTENDS Sequences, Naturals

CONSTANT Call            \* the calls the writers may make

VARIABLES sent,          \* the calls written, in the order of the stream
          received       \* the calls made of the reader's result
vars == <<sent, received>>

Init == sent = <<>> /\ received = <<>>

Send(call) ==
    /\ sent' = Append(sent, call)
    /\ UNCHANGED received

Receive ==
    /\ Len(received) < Len(sent)
    /\ received' = Append(received, sent[Len(received) + 1])
    /\ UNCHANGED sent

Next == Receive \/ \E call \in Call : Send(call)

Spec == Init /\ [][Next]_vars /\ WF_vars(Receive)
=============================================================================
