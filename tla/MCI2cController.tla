--------------------------- MODULE MCI2cController --------------------------
(***************************************************************************)
(* I2cController for TLC: three handles, the least number with which one   *)
(* could be overtaken; the second reads two bytes, so that the timeout     *)
(* starts anew in mid-read and a byte has a place to be wrong in.          *)
(***************************************************************************)
EXTENDS I2cController

const_Len == [i \in 1..N |-> IF i = 2 THEN 2 ELSE 1]
=============================================================================
