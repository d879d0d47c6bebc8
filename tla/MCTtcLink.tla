------------------------------ MODULE MCTtcLink -----------------------------
(***************************************************************************)
(* TtcLink for TLC.                                                        *)
(***************************************************************************)
EXTENDS TtcLink
=============================================================================
