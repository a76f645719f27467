----------------------------- MODULE AudioStream -----------------------------
(***************************************************************************)
(* What the audio path of the nRF firmware promises in one direction,      *)
(* whatever queues, threads, interrupts and buffers lie in between: the    *)
(* chunks of sound come out in the order they went in, none of them twice, *)
(* and none is missing unless the path has admitted a loss.                *)
(***************************************************************************)
EXTENDS Naturals

VARIABLES
    sent,       \* chunks that went in, numbered from 1
    delivered,  \* number of the last chunk that came out
    lossy       \* the path has discarded something

Init ==
    /\ sent = 0
    /\ delivered = 0
    /\ lossy = FALSE

Send ==
    /\ sent' = sent + 1
    /\ UNCHANGED <<delivered, lossy>>

Deliver ==
    /\ \E n \in (delivered + 1)..sent :
          /\ lossy \/ n = delivered + 1
          /\ delivered' = n
    /\ UNCHANGED <<sent, lossy>>

Lose ==
    /\ lossy' = TRUE
    /\ UNCHANGED <<sent, delivered>>

Next == Send \/ Deliver \/ Lose

Spec == Init /\ [][Next]_<<sent, delivered, lossy>>
=============================================================================
