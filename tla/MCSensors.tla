------------------------------ MODULE MCSensors -----------------------------
(***************************************************************************)
(* Sensors for TLC: a reading of each sensor, the temperature below zero.  *)
(***************************************************************************)
EXTENDS Sensors

const_Measured ==
  [eps         |-> {<<170, 1>>},
   gnss        |-> {<< <<1, 2, 3, 4>>, <<5, 6, 7, 8>>, <<0, 0, 18, 66>>,
                       <<9, 9, 240, 64>> >>},
   imu         |-> {<<-3, 515, 99>>},
   pressure    |-> {1013},
   temperature |-> {-880}]
=============================================================================
