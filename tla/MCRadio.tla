------------------------------- MODULE MCRadio -------------------------------
(* Three frames through a two-entry queue, with a broker that talks back    *)
(* and a network that fails a few times.                                    *)
EXTENDS RadioLoop
=============================================================================
