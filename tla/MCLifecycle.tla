----------------------------- MODULE MCLifecycle ----------------------------
(* One retry, a wait of one tick and one upset, which yields the values    *)
(* that do most harm; the battery is where the board tests leave it.       *)
EXTENDS Lifecycle

const_Struck == [r \in ControlRegion |->
  CASE r = "sys"         -> {"MISSION", "invalid"}
    [] r = "reset_count" -> {MAX_INIT_RETRIES + 1}
    [] r = "state"       -> {"decommissioning", "invalid"}
    [] OTHER             -> {TRUE}]
=============================================================================
