------------------------------ MODULE Channel ------------------------------
(***************************************************************************)
(* What one direction of the link between a game and its agent promises    *)
(* (crates/tpf3mp-ipc): messages arrive whole, once, and in the order they *)
(* were sent, and one that was sent arrives as long as the receiver reads. *)
(* `Ring` implements it over shared memory; `Bridge` builds on it.         *)
(***************************************************************************)
EXTENDS Naturals, Sequences

CONSTANT Message
VARIABLES sent,  \* every message sent, in order
          got    \* every message received, in order

Init == sent = <<>> /\ got = <<>>

Send(m) == sent' = Append(sent, m) /\ UNCHANGED got

Receive ==
    /\ Len(got) < Len(sent)
    /\ got' = Append(got, sent[Len(got) + 1])
    /\ UNCHANGED sent

Next == Receive \/ \E m \in Message : Send(m)

Spec == Init /\ [][Next]_<<sent, got>>
FairSpec == Spec /\ WF_<<sent, got>>(Receive)
=============================================================================
