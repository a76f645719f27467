------------------------------- MODULE MCAudio -------------------------------
(* The audio path with two chunks to a frame, as few frames of room as      *)
(* still overflow, and a driver that is started, stopped and started again. *)
EXTENDS AudioSystem
=============================================================================
