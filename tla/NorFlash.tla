------------------------------ MODULE NorFlash ------------------------------
(***************************************************************************)
(* What a page of the external W25Q flash can hold, and what erasing and   *)
(* programming do to it.  A page is a unit of 128 bytes (one OTA payload); *)
(* its content is a member of Data, or one of two special contents:        *)
(*   Blank  every byte is 0xFF (erased),                                   *)
(*   Torn   bytes that no writer intended: an operation that was cut       *)
(*          short, or the AND of two different payloads.                   *)
(* Programming can only clear bits, so it ANDs the new data with the old.  *)
(***************************************************************************)
EXTENDS Naturals

CONSTANTS
  Page,           \* page addresses
  PagesPerSector, \* pages that one sector erase clears
  Data,           \* contents a writer may ask for
  Blank,          \* the erased content
  Torn            \* an unintended content

ASSUME FlashAssumption ==
  /\ Page \subseteq Nat
  /\ PagesPerSector \in Nat \ {0}
  /\ Blank \notin Data
  /\ Torn \notin Data
  /\ Blank # Torn

Content == Data \cup {Blank, Torn}

\* The sector that a page lies in.
SectorOf(p) == p \div PagesPerSector

\* The pages that a request touches: a whole sector, or one page.
Footprint(req) ==
  IF req.op = "erase" THEN {p \in Page : SectorOf(p) = SectorOf(req.at)}
                      ELSE Page \cap {req.at}

\* The AND of what a page holds and what is programmed over it.
Programmed(old, new) ==
  IF old \in {Blank, new} THEN new ELSE Torn

\* The flash while a request is being carried out: its pages are in flux.
InFlux(cells, req) ==
  [p \in Page |-> IF p \in Footprint(req) THEN Torn ELSE cells[p]]

\* The flash once a request, begun on the contents cells, is complete.
Result(cells, req, d) ==
  [p \in Page |->
     IF p \notin Footprint(req) THEN cells[p]
     ELSE IF req.op = "erase" THEN Blank
     ELSE Programmed(cells[p], d)]
=============================================================================
