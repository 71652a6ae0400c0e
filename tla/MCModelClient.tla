---------------------------- MODULE MCModelClient ----------------------------
(* Instances of ModelClient for TLC.  A unit of time is 20 seconds; the    *)
(* two seconds after a bad completion are less than one and count as none. *)
EXTENDS ModelClient

CONSTANTS monolith, judge

MCMaxAttempts == [c \in Clients |-> IF c = judge THEN 3 ELSE 4]
=============================================================================
