-------------------------------- MODULE Crc32 --------------------------------
(***************************************************************************)
(* The CRC32 with which the bootloader verifies an image (ota_verify.c).   *)
(* The same loop stands in modes.c (ota_crc32), bootloader.c               *)
(* (boot_compute_internal_crc) and flash_efc.c.                            *)
(*                                                                         *)
(* A word is the set of the bits that are 1 in it, so that an exclusive or *)
(* is a symmetric difference.                                              *)
(***************************************************************************)
EXTENDS Naturals, Sequences, SequencesExt

Xor(a, b) == (a \ b) \cup (b \ a)

Bits(n, k) == {i \in 0..(k - 1) : (n \div 2^i) % 2 = 1}

\* A 32-bit word, given as two halves: integers of 32 bits do not fit TLC's.
Word(half) == Bits(half[2], 16) \cup {i + 16 : i \in Bits(half[1], 16)}
ByteBits(n) == Bits(n, 8)

AllOnes == 0..31
\* 0xEDB88320.
Polynomial == {31, 30, 29, 27, 26, 24, 23, 21, 20, 19, 15, 9, 8, 5}

ShiftRight(w, k) == {i - k : i \in {j \in w : j >= k}}

\* One bit of the inner loop.
BitStep[crc \in SUBSET AllOnes] ==
  IF 0 \in crc THEN Xor(ShiftRight(crc, 1), Polynomial) ELSE ShiftRight(crc, 1)

\* One byte of the loop in ota_verify_crc.
ByteStep(crc, byte) ==
  LET after[bit \in 0..8] ==
        IF bit = 0 THEN Xor(crc, byte) ELSE BitStep[after[bit - 1]]
  IN  after[8]

\* The loop over bytes.
Update(crc, bytes) ==
  LET after[n \in 0..Len(bytes)] ==
        IF n = 0 THEN crc ELSE ByteStep(after[n - 1], bytes[n])
  IN  after[Len(bytes)]

----------------------------------------------------------------------------
(* What the ground computes: the remainder of the message, its first 32    *)
(* bits inverted, by the polynomial of ISO 3309.  The most significant bit *)
(* of the remainder is bit 31; a byte is sent with its lowest bit first.   *)

Generator == {26, 23, 22, 16, 12, 11, 10, 8, 7, 5, 4, 2, 1, 0}

\* Division by the generator, one bit of the message.
Feed(rest, bit) ==
  LET shifted == {i + 1 : i \in rest \ {31}}
  IN  IF (31 \in rest) # bit THEN Xor(shifted, Generator) ELSE shifted

MessageBits(bytes) ==
  [n \in 1..(8 * Len(bytes)) |-> ((n - 1) % 8) \in bytes[(n + 7) \div 8]]

\* The bits of a word in the opposite order.
Mirror(w) == {31 - i : i \in w}

binascii_crc32(bytes) ==
  LET rest[n \in 0..(8 * Len(bytes))] ==
        IF n = 0 THEN AllOnes ELSE Feed(rest[n - 1], MessageBits(bytes)[n])
  IN  Xor(Mirror(rest[8 * Len(bytes)]), AllOnes)

----------------------------------------------------------------------------
(* The table-driven version.  No part of the firmware calls it.            *)

TableLow ==
  <<
   <<\h0000, \h0000>>, <<\h7707, \h3096>>, <<\hEE0E, \h612C>>, <<\h9909, \h51BA>>,
   <<\h076D, \hC419>>, <<\h706A, \hF48F>>, <<\hE963, \hA535>>, <<\h9E64, \h95A3>>,
   <<\h0EDB, \h8832>>, <<\h79DC, \hB8A4>>, <<\hE0D5, \hE91B>>, <<\h97D2, \hD988>>,
   <<\h09B6, \h4C2B>>, <<\h7EB1, \h7CBD>>, <<\hE7B8, \h2D09>>, <<\h90BF, \h1CBF>>,
   <<\h1DB7, \h1064>>, <<\h6AB0, \h20F2>>, <<\hF3B9, \h7148>>, <<\h84BE, \h41DE>>,
   <<\h1ADA, \hD47D>>, <<\h6DDD, \hE4EB>>, <<\hF4D4, \hB551>>, <<\h83D3, \h85C7>>,
   <<\h136C, \h9856>>, <<\h646B, \hA8C0>>, <<\hFD62, \hF97A>>, <<\h8A65, \hC9EC>>,
   <<\h1401, \h5C4F>>, <<\h6306, \h6CD9>>, <<\hFA0F, \h3D63>>, <<\h8D08, \h0DF5>>,
   <<\h3B6E, \h20C8>>, <<\h4C69, \h105E>>, <<\hD560, \h41E4>>, <<\hA267, \h7172>>,
   <<\h3C03, \hE4D1>>, <<\h4B04, \hD447>>, <<\hD20D, \h85FD>>, <<\hA50A, \hB56B>>,
   <<\h35B5, \hA8FA>>, <<\h42B2, \h986C>>, <<\hDBBB, \hC9D6>>, <<\hACBC, \hF940>>,
   <<\h32D8, \h6CE3>>, <<\h45DF, \h5C75>>, <<\hDCD6, \h0DCF>>, <<\hABD1, \h3D59>>,
   <<\h26D9, \h30AC>>, <<\h51DE, \h003A>>, <<\hC8D7, \h5180>>, <<\hBFD0, \h6116>>,
   <<\h21B4, \hF927>>, <<\h56B3, \hC9B1>>, <<\hCFBA, \h980B>>, <<\hB8BD, \hA50B>>,
   <<\h2802, \hB89E>>, <<\h5F05, \h8808>>, <<\hC60C, \hD9B2>>, <<\hB10B, \hE924>>,
   <<\h2F6F, \h7C87>>, <<\h5868, \h4C11>>, <<\hC161, \h1DAB>>, <<\hB666, \h2D3D>>,
   <<\h76DC, \h4190>>, <<\h01DB, \h7106>>, <<\h98D2, \h20BC>>, <<\hEFD5, \h102A>>,
   <<\h71B1, \h8589>>, <<\h06B6, \hB51F>>, <<\h9FBF, \hE4A5>>, <<\hE8B8, \hD433>>,
   <<\h7807, \hC9A2>>, <<\h0F00, \hF934>>, <<\h9609, \hA88E>>, <<\hE10E, \h9818>>,
   <<\h7F6A, \h0DBB>>, <<\h086D, \h3D2D>>, <<\h9164, \h6C97>>, <<\hE663, \h5C01>>,
   <<\h6B6B, \h51F4>>, <<\h1C6C, \h6162>>, <<\h8565, \h30D8>>, <<\hF262, \h004E>>,
   <<\h6C06, \h95ED>>, <<\h1B01, \hA57B>>, <<\h8208, \hF4C1>>, <<\hF50F, \hC457>>,
   <<\h65B0, \hD9C6>>, <<\h12B7, \hE950>>, <<\h8BBE, \hB8EA>>, <<\hFCB9, \h887C>>,
   <<\h62DD, \h1DDF>>, <<\h15DA, \h2D49>>, <<\h8CD3, \h7CF3>>, <<\hFBD4, \h4C65>>,
   <<\h4DB2, \h6158>>, <<\h3AB5, \h51CE>>, <<\hA3BC, \h0074>>, <<\hD4BB, \h30E2>>,
   <<\h4ADF, \hA541>>, <<\h3DD8, \h95D7>>, <<\hA4D1, \hC46D>>, <<\hD3D6, \hF4FB>>,
   <<\h4369, \hE96A>>, <<\h346E, \hD9FC>>, <<\hAD67, \h8846>>, <<\hDA60, \hB8D0>>,
   <<\h4404, \h2D73>>, <<\h3303, \h1DE5>>, <<\hAA0A, \h4C5F>>, <<\hDD0D, \h7CC9>>,
   <<\h5005, \h713C>>, <<\h2702, \h41AA>>, <<\hBE0B, \h1010>>, <<\hC90C, \h2086>>,
   <<\h5768, \hB525>>, <<\h206F, \h85B3>>, <<\hB966, \hD409>>, <<\hCE61, \hE49F>>,
   <<\h5EDE, \hF90E>>, <<\h29D9, \hC998>>, <<\hB0D0, \h9822>>, <<\hC7D7, \hA8B4>>,
   <<\h59B3, \h3D17>>, <<\h2EB4, \h0D81>>, <<\hB7BD, \h5C3B>>, <<\hC0BA, \h6CAD>>
  >>

TableHigh ==
  <<
   <<\hEDB8, \h8320>>, <<\h9ABF, \hB3B6>>, <<\h03B6, \hE20C>>, <<\h74B1, \hD29A>>,
   <<\hEAD5, \h4739>>, <<\h9DD2, \h77AF>>, <<\h04DB, \h2615>>, <<\h73DC, \h1683>>,
   <<\hE363, \h0B12>>, <<\h9464, \h3B84>>, <<\h0D6D, \h6A3E>>, <<\h7A6A, \h5AA8>>,
   <<\hE40E, \hCF0B>>, <<\h9309, \hFF9D>>, <<\h0A00, \hAE27>>, <<\h7D07, \h9EB1>>,
   <<\hF00F, \h9344>>, <<\h8708, \hA3D2>>, <<\h1E01, \hF268>>, <<\h6906, \hC2FE>>,
   <<\hF762, \h575D>>, <<\h8065, \h67CB>>, <<\h196C, \h3671>>, <<\h6E6B, \h06E7>>,
   <<\hFED4, \h1B76>>, <<\h89D3, \h2BE0>>, <<\h10DA, \h7A5A>>, <<\h67DD, \h4ACC>>,
   <<\hF9B9, \hDF6F>>, <<\h8EBE, \hEFF9>>, <<\h17B7, \hBE43>>, <<\h60B0, \h8ED5>>,
   <<\hD6D6, \hA3E8>>, <<\hA1D1, \h937E>>, <<\h38D8, \hC2C4>>, <<\h4FDF, \hF252>>,
   <<\hD1BB, \h67F1>>, <<\hA6BC, \h5767>>, <<\h3FB5, \h06DD>>, <<\h48B2, \h364B>>,
   <<\hD80D, \h2BDA>>, <<\hAF0A, \h1B4C>>, <<\h3603, \h4AF6>>, <<\h4104, \h7A60>>,
   <<\hDF60, \hEFC3>>, <<\hA867, \h0955>>, <<\h3166, \h58EF>>, <<\h4661, \h6879>>,
   <<\hCB61, \hB38C>>, <<\hBC66, \h831A>>, <<\h256F, \hD2A0>>, <<\h5268, \hE236>>,
   <<\hCC0C, \h7795>>, <<\hBB0B, \h4703>>, <<\h2202, \h16B9>>, <<\h5505, \h262F>>,
   <<\hC5BA, \h3BBE>>, <<\hB2BD, \h0B28>>, <<\h2BB4, \h5A92>>, <<\h5CB3, \h6A04>>,
   <<\hC2D7, \hFFA7>>, <<\hB5D0, \hCF31>>, <<\h2CD9, \h9E8B>>, <<\h5BDE, \hAE1D>>,
   <<\h9B64, \hC2B0>>, <<\hEC63, \hF226>>, <<\h756A, \hA39C>>, <<\h026D, \h930A>>,
   <<\h9C09, \h06A9>>, <<\hEB0E, \h363F>>, <<\h7207, \h6785>>, <<\h0500, \h5713>>,
   <<\h95BF, \h4A82>>, <<\hE2B8, \h7A14>>, <<\h7BB1, \h2BAE>>, <<\h0CB6, \h1B38>>,
   <<\h92D2, \h8E9B>>, <<\hE5D5, \hBE0D>>, <<\h7CDC, \hEFB7>>, <<\h0BDB, \hDF21>>,
   <<\h86D3, \hD2D4>>, <<\hF1D4, \hE242>>, <<\h68DD, \hB3F8>>, <<\h1FDA, \h836E>>,
   <<\h81BE, \h16CD>>, <<\hF6B9, \h265B>>, <<\h6FB0, \h77E1>>, <<\h18B7, \h4777>>,
   <<\h8808, \h5AE6>>, <<\hFF0F, \h6A70>>, <<\h6606, \h3BCA>>, <<\h1101, \h0B5C>>,
   <<\h8F65, \h9EFF>>, <<\hF862, \hAE69>>, <<\h616B, \hFFD3>>, <<\h166C, \hCF45>>,
   <<\hA00A, \hE278>>, <<\hD70D, \hD2EE>>, <<\h4E04, \h8354>>, <<\h3903, \hB3C2>>,
   <<\hA767, \h2661>>, <<\hD060, \h16F7>>, <<\h4969, \h474D>>, <<\h3E6E, \h77DB>>,
   <<\hAED1, \h6A4A>>, <<\hD9D6, \h5ADC>>, <<\h40DF, \h0B66>>, <<\h37D8, \h3BF0>>,
   <<\hA9BC, \hAE53>>, <<\hDEBB, \h9EC5>>, <<\h47B2, \hCF7F>>, <<\h30B5, \hFFE9>>,
   <<\hBDBD, \hF21C>>, <<\hCABA, \hC28A>>, <<\h53B3, \h9330>>, <<\h24B4, \hA3A6>>,
   <<\hBAD0, \h3605>>, <<\hCDD7, \h0693>>, <<\h54DE, \h5729>>, <<\h23D9, \h67BF>>,
   <<\hB366, \h7A2E>>, <<\hC461, \h4AB8>>, <<\h5D68, \h1B02>>, <<\h2A6F, \h2B94>>,
   <<\hB40B, \hBE37>>, <<\hC30C, \h8EA1>>, <<\h5A05, \hDF1B>>, <<\h2D02, \hEF8D>>
  >>

crc32_table ==
  [n \in 0..255 |-> Word(IF n < 128 THEN TableLow[n + 1] ELSE TableHigh[n - 127])]

crc32_update(crc, bytes) ==
  FoldLeft(LAMBDA c, b :
             LET n == CHOOSE k \in 0..255 : ByteBits(k) = Xor(c, b) \cap 0..7
             IN  Xor(crc32_table[n], ShiftRight(c, 8)),
           crc, bytes)

crc32_compute(bytes) == Xor(crc32_update(AllOnes, bytes), AllOnes)

\* The entry that the polynomial asks for.
Entry(n) == ByteStep({}, ByteBits(n))

\* The entries that are wrong.
WrongEntries == {10, 14, 15} \cup 52..55 \cup 173..175
=============================================================================
