------------------------------- MODULE MCHandset ------------------------------
(* The handset on a small instance, where START's own events and a few more *)
(* fill either queue or both.                                               *)
EXTENDS Handset

OneItem == {"STATIC"}
=============================================================================
