------------------------------ MODULE MCSearch ------------------------------
(***************************************************************************)
(* A small instance of module Search: half-second ticks, a deadline and a  *)
(* grace of a second each, a session of four seconds, so that the session  *)
(* goes stale, loses its snapshot and expires within the horizon.          *)
(***************************************************************************)
EXTENDS Search

CONSTANTS c1, c2
=============================================================================
