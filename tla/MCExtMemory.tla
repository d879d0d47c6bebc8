---------------------------- MODULE MCExtMemory ----------------------------
(* A sector of two pages and one of one page, two payloads, and the smallest bounds at      *)
(* which a retry succeeds and a timeout can be one tick away.              *)
EXTENDS ExtMemory

const_Page == 0..2
=============================================================================
