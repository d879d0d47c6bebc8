---------------------------- MODULE MCBootloader ----------------------------
(***************************************************************************)
(* Bootloader for TLC.  As in the code, the largest size accepted is more  *)
(* than what fits (there 0x1F0000 and 0x1E0000 bytes).  One image takes a  *)
(* sector and a page, one fills the flash, one is accepted and does not    *)
(* fit, one is too large.                                                  *)
(***************************************************************************)
EXTENDS Bootloader

CONSTANTS small, full, wide, huge

const_Size ==
  [v \in Image |-> CASE v = small -> PagesPerSector + 1
                    [] v = full  -> Room
                    [] v = wide  -> APP_MAX_SIZE
                    [] v = huge  -> APP_MAX_SIZE + 1]
=============================================================================
