----------------------------- MODULE MCRaceServer -----------------------------
(***************************************************************************)
(* RaceServer for TLC: the connections are model values, the bounds are    *)
(* those the configurations give.                                          *)
(***************************************************************************)
EXTENDS RaceServer
===============================================================================
