------------------------------- MODULE MCModem -------------------------------
(* The modem module on small instances: a queue of two or three entries and *)
(* a handful of events from the other contexts, enough for the queue to     *)
(* refuse one while the thread is behind.                                   *)
EXTENDS ModemModule

OneItem == {"STATIC"}
=============================================================================
