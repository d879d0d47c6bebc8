----------------------------- MODULE MCBootFlash ----------------------------
(***************************************************************************)
(* BootFlash for TLC: two images of three bytes, with none, one or any two *)
(* bits of them wrong; and what is known of the CRC.                       *)
(***************************************************************************)
EXTENDS BootFlash

const_Images  == {<<{}, {}, {}>>, <<{0, 5, 6}, {1, 2, 7}, {0, 1, 2, 3, 4, 5, 6, 7}>>}
const_Damages == {{}} \cup {{a, b} : a, b \in 0..23}

\* The digits 1 to 9 in ASCII, whose CRC every description of CRC32 gives.
Digits == [n \in 1..9 |-> ByteBits(48 + n)]

\* One or two wrong bits in images of this size always show.
ASSUME FewBitsShow == DamageShows

ASSUME PolynomialIsRight == Polynomial = Word(<<\hEDB8, \h8320>>)

ASSUME CheckValue == binascii_crc32(Digits) = Word(<<\hCBF4, \h3926>>)

\* The table of ota_verify.c is right but for ten entries.
ASSUME TableIsAlmostRight ==
  {n \in 0..255 : crc32_table[n] # Entry(n)} = WrongEntries

\* Where it uses none of these it gives the CRC, and elsewhere it does not.
ASSUME TableMisleads ==
  /\ \A n \in 0..255 :
       crc32_compute(<<ByteBits(n)>>) = binascii_crc32(<<ByteBits(n)>>)
         <=> (255 - n) \notin WrongEntries
  /\ crc32_compute(Digits) = binascii_crc32(Digits)
=============================================================================
